---------------------------------- MODULE Ota ----------------------------------
(***************************************************************************)
(* The over-the-air update (espbot_ota.cpp): an engine that advances by    *)
(* posting itself to the coordinator's task, the HTTP client that reads    *)
(* version.txt, the SDK's own download, and the one requester that is      *)
(* answered at the end (espbot_http_routes.cpp).                           *)
(*                                                                         *)
(* The engine, the client's callbacks, the SDK's callback and the routes   *)
(* run to completion: one action each.  The client is modelled by what     *)
(* ota.cpp can see of it: it connects or times out, and is answered or     *)
(* times out.  The task queue holds other signals too, so that a post may  *)
(* find it full at any time.                                               *)
(***************************************************************************)
EXTENDS Integers, FiniteSets, Sequences

CONSTANTS
  Conn,          \* connections of the HTTP server
  NoConn,        \* no requester yet
  Fields,        \* values of a release's numbers: v<major>.<minor>-<commits>
  CurrentField,  \* the running release is v<f>.<f>-<f>
  NoRelease,     \* version.txt was not read, or has no separators
  TaskQueueLen,  \* ESPBOT_TASK_QUEUE_LEN (8)
  MaxRequests    \* bound: updates accepted between two restarts

ASSUME OtaConstants ==
  /\ NoConn \notin Conn
  /\ Fields \subseteq 0..99 /\ CurrentField \in Fields
  /\ NoRelease \notin Fields \X Fields \X Fields
  /\ TaskQueueLen \in Nat \ {0} /\ MaxRequests \in Nat

VARIABLES
  status, last_result, rel_cmp_result,   \* ota_state
  requester,             \* ota_state.cb_param: whom ota_answer_on_completion answers
  check_version, reboot_on_completion,   \* ota_cfg
  engine,                \* signals of next_function(ota_engine) in the task queue
  ota_client,            \* what the HTTP client is doing, "mute" when it has no timer
  upgrade_svr,           \* "in_use": the SDK downloads with the descriptor it points to
  sdk,                   \* the SDK downloads
  rebooting,             \* espbot_reset was called
  waiting,               \* connections whose POST /api/ota has no answer
  checked,               \* history: the release read by this update's check
  accepted, answers,     \* history: updates accepted and answers given since boot
  lost,                  \* history: a post found the task queue full
  refused,               \* history: the SDK refused to start this update's download
  twice,                 \* history: a download was started while one was running
  leaked                 \* history: ota_client was overwritten while in use

state   == <<status, last_result, rel_cmp_result, requester>>
cfg     == <<check_version, reboot_on_completion>>
history == <<checked, accepted, answers, refused, twice, leaked>>
vars == <<state, cfg, engine, lost, ota_client, upgrade_svr, sdk, rebooting, waiting, history>>

Final    == {"success", "failed", "already_to_the_lastest"}
Statuses == {"idle", "version_checking", "version_checked", "upgrading"} \cup Final

-----------------------------------------------------------------------------
(***************************************************************************)
(* Releases: release_cmp walks the three numbers and compares their digits *)
(* as strings; the first that differs decides.                             *)
(***************************************************************************)
Release == Fields \X Fields \X Fields
Current == <<CurrentField, CurrentField, CurrentField>>

Digits(n) == IF n < 10 THEN <<n>> ELSE <<n \div 10, n % 10>>

os_strcmp(m, n) ==
  LET a == Digits(m)
      b == Digits(n)
      before(s, t) ==
        \/ Len(s) < Len(t) /\ \A i \in DOMAIN s : s[i] = t[i]
        \/ \E i \in DOMAIN s \cap DOMAIN t :
             s[i] < t[i] /\ \A j \in 1..(i - 1) : s[j] = t[j]
  IN  IF before(a, b) THEN -1 ELSE IF before(b, a) THEN 1 ELSE 0

release_cmp(cur_rel, avail_rel) ==
  LET differ == {i \in 1..3 : os_strcmp(cur_rel[i], avail_rel[i]) # 0}
  IN  IF differ = {} THEN 0
      ELSE LET first == CHOOSE i \in differ : \A j \in differ : i <= j
           IN  os_strcmp(cur_rel[first], avail_rel[first])

Older(a, b) == \E i \in 1..3 : a[i] < b[i] /\ \A j \in 1..(i - 1) : a[j] = b[j]

-----------------------------------------------------------------------------
(***************************************************************************)
(* next_function(ota_engine), with `left' of its signals in the queue.     *)
(***************************************************************************)
next_function_Unbounded(left) ==              \* mutant: no limit
  engine' = left + 1 /\ UNCHANGED lost

next_function(left) ==
  \/ left < TaskQueueLen /\ engine' = left + 1 /\ UNCHANGED lost
  \/ engine' = left /\ lost' = TRUE

Init ==
  /\ check_version \in BOOLEAN /\ reboot_on_completion \in BOOLEAN
  /\ status = "idle" /\ last_result = "idle" /\ rel_cmp_result = 0
  /\ requester = NoConn
  /\ engine = 0 /\ ota_client = "none" /\ upgrade_svr = "null" /\ sdk = "idle"
  /\ rebooting = FALSE /\ waiting = {}
  /\ checked = NoRelease /\ accepted = 0 /\ answers = 0
  /\ lost = FALSE /\ refused = FALSE /\ twice = FALSE /\ leaked = FALSE

Restart ==
  /\ rebooting \/ leaked
  /\ UNCHANGED cfg
  /\ status' = "idle" /\ last_result' = "idle" /\ rel_cmp_result' = 0
  /\ requester' = NoConn
  /\ engine' = 0 /\ ota_client' = "none" /\ upgrade_svr' = "null" /\ sdk' = "idle"
  /\ rebooting' = FALSE /\ waiting' = {}
  /\ checked' = NoRelease /\ accepted' = 0 /\ answers' = 0
  /\ lost' = FALSE /\ refused' = FALSE /\ twice' = FALSE /\ leaked' = FALSE

(***************************************************************************)
(* startOTA: the new requester takes the place of the one before, whether  *)
(* or not ota_start starts anything for it.                                *)
(***************************************************************************)
startOTA_AnyTime(c) ==                        \* mutant: a running update is started anew
  /\ accepted < MaxRequests
  /\ c \notin waiting
  /\ requester' = c
  /\ waiting' = waiting \cup {c}
  /\ status' = "idle" /\ next_function(engine) /\ accepted' = accepted + 1
  /\ refused' = FALSE
  /\ UNCHANGED <<last_result, rel_cmp_result, cfg, ota_client, upgrade_svr, sdk,
                 rebooting, checked, answers, twice, leaked>>

startOTA(c) ==
  /\ accepted < MaxRequests
  /\ c \notin waiting
  /\ requester' = c
  /\ waiting' = waiting \cup {c}
  /\ IF status \in {"idle", "already_to_the_lastest", "failed"}
     THEN /\ status' = "idle" /\ refused' = FALSE
          /\ next_function(engine) /\ accepted' = accepted + 1
     ELSE UNCHANGED <<status, engine, lost, accepted, refused>>
  /\ UNCHANGED <<last_result, rel_cmp_result, cfg, ota_client, upgrade_svr, sdk,
                 rebooting, checked, answers, twice, leaked>>

setOtaCfg(check, reboot) ==
  /\ check_version' = check /\ reboot_on_completion' = reboot
  /\ UNCHANGED <<state, engine, lost, ota_client, upgrade_svr, sdk, rebooting, waiting, history>>

Reboot ==
  /\ rebooting' = TRUE
  /\ UNCHANGED <<state, cfg, engine, lost, ota_client, upgrade_svr, sdk, waiting, history>>

Close(c) ==
  /\ c \in waiting
  /\ waiting' = waiting \ {c}
  /\ UNCHANGED <<state, cfg, engine, lost, ota_client, upgrade_svr, sdk, rebooting, history>>

-----------------------------------------------------------------------------
(***************************************************************************)
(* ota_engine, one action per status.                                      *)
(***************************************************************************)
EngineIs(s) == engine > 0 /\ status = s

EngineIdle ==
  /\ EngineIs("idle")
  /\ last_result' = "idle"
  /\ checked' = NoRelease
  /\ IF check_version
     THEN /\ leaked' = (ota_client # "none")
          /\ \/ /\ status' = "version_checking" /\ ota_client' = "connecting"
                /\ engine' = engine - 1 /\ UNCHANGED lost
             \/ /\ status' = "failed" /\ ota_client' = "none"   \* espconn_connect fails
                /\ next_function(engine - 1)
     ELSE /\ status' = "upgrading"
          /\ next_function(engine - 1)
          /\ UNCHANGED <<ota_client, leaked>>
  /\ UNCHANGED <<rel_cmp_result, requester, cfg, upgrade_svr, sdk, rebooting, waiting,
                 accepted, answers, refused, twice>>

EngineVersionChecked ==
  /\ EngineIs("version_checked")
  /\ status' = IF rel_cmp_result < 0 THEN "upgrading" ELSE "already_to_the_lastest"
  /\ next_function(engine - 1)
  /\ UNCHANGED <<last_result, rel_cmp_result, requester, cfg, ota_client, upgrade_svr, sdk,
                 rebooting, waiting, history>>

\* The flash layout is unknown or the heap is exhausted, or system_upgrade_start
\* runs: it refuses while a download runs, and may refuse for reasons of its own.
EngineUpgrading_KeepsPolling ==               \* mutant: the engine waits by posting itself
  /\ EngineIs("upgrading")
  /\ twice' = (twice \/ sdk = "running")
  /\ sdk = "idle" /\ sdk' = "running" /\ upgrade_svr' = "in_use"
  /\ next_function(engine - 1)
  /\ UNCHANGED <<status, last_result, rel_cmp_result, requester, cfg, ota_client, rebooting,
                 waiting, checked, accepted, answers, refused, leaked>>

EngineUpgrading ==
  /\ EngineIs("upgrading")
  /\ twice' = (twice \/ sdk = "running")
  /\ \/ /\ status' = "failed" /\ next_function(engine - 1)
        /\ upgrade_svr' \in {"null", "own"}
        /\ UNCHANGED <<sdk, refused>>
     \/ /\ sdk = "idle" /\ sdk' = "running" /\ upgrade_svr' = "in_use"
        /\ engine' = engine - 1
        /\ UNCHANGED <<status, lost, refused>>
     \/ /\ status' = "failed" /\ upgrade_svr' = "own" /\ refused' = TRUE
        /\ engine' = engine - 1
        /\ UNCHANGED <<sdk, lost>>
  /\ UNCHANGED <<last_result, rel_cmp_result, requester, cfg, ota_client, rebooting, waiting,
                 checked, accepted, answers, leaked>>

\* The requester is answered and ota_cleanup frees the descriptor.
EngineFinal ==
  /\ engine > 0 /\ status \in Final
  /\ last_result' = status
  /\ waiting' = waiting \ {requester}
  /\ answers' = answers + 1
  /\ upgrade_svr' = "null"
  /\ rebooting' = (rebooting \/ (status = "success" /\ reboot_on_completion))
  /\ status' = "idle"
  /\ engine' = engine - 1
  /\ UNCHANGED <<rel_cmp_result, requester, cfg, lost, ota_client, sdk, checked, accepted,
                 refused, twice, leaked>>

EngineChecking ==
  /\ EngineIs("version_checking")
  /\ engine' = engine - 1
  /\ UNCHANGED <<state, cfg, lost, ota_client, upgrade_svr, sdk, rebooting, waiting, history>>

-----------------------------------------------------------------------------
(***************************************************************************)
(* The client's callbacks.  CheckEnds: check_version or ota_ask_version    *)
(* disconnect, which calls check_for_new_release_cleanup at once.          *)
(***************************************************************************)
CheckEnds_Silent(new_status) ==               \* mutant: the engine is not posted
  /\ status' = new_status
  /\ ota_client' = "none"
  /\ UNCHANGED <<engine, lost>>

CheckEnds(new_status) ==
  /\ status' = new_status
  /\ ota_client' = "none"
  /\ next_function(engine)

CheckFails(client) ==
  /\ ota_client = client
  /\ CheckEnds("failed")
  /\ UNCHANGED <<last_result, rel_cmp_result, requester, cfg, upgrade_svr, sdk, rebooting,
                 waiting, history>>

\* http_clt_connect_timeout, or ota_ask_version without heap once connected
ConnectFails == CheckFails("connecting")

\* http_clt_send_req_timeout_function, or check_version of a bad or empty body
NoVersion == CheckFails("waiting")

\* ota_ask_version sends the request; send_req without heap arms no timer.
ota_ask_version ==
  /\ ota_client = "connecting"
  /\ ota_client' \in {"waiting", "mute"}
  /\ UNCHANGED <<state, cfg, engine, lost, upgrade_svr, sdk, rebooting, waiting, history>>

Version(release) ==
  /\ ota_client = "waiting"
  /\ rel_cmp_result' = IF release = NoRelease THEN 1 ELSE release_cmp(Current, release)
  /\ checked' = release
  /\ CheckEnds("version_checked")
  /\ UNCHANGED <<last_result, requester, cfg, upgrade_svr, sdk, rebooting, waiting,
                 accepted, answers, refused, twice, leaked>>

\* ota_completed_cb: the download is over, after its own time-out at the latest.
ota_completed_cb_Silent ==                    \* mutant: the engine is not posted
  /\ sdk = "running"
  /\ sdk' = "idle"
  /\ status' \in {"success", "failed"}
  /\ upgrade_svr' = IF upgrade_svr = "in_use" THEN "own" ELSE upgrade_svr
  /\ UNCHANGED <<engine, lost>>
  /\ UNCHANGED <<last_result, rel_cmp_result, requester, cfg, ota_client, rebooting, waiting,
                 history>>

ota_completed_cb ==
  /\ sdk = "running"
  /\ sdk' = "idle"
  /\ status' \in {"success", "failed"}
  /\ upgrade_svr' = IF upgrade_svr = "in_use" THEN "own" ELSE upgrade_svr
  /\ next_function(engine)
  /\ UNCHANGED <<last_result, rel_cmp_result, requester, cfg, ota_client, rebooting, waiting,
                 history>>

-----------------------------------------------------------------------------
ota_engine == EngineIdle \/ EngineVersionChecked \/ EngineUpgrading \/ EngineFinal
              \/ EngineChecking
Client == ConnectFails \/ NoVersion \/ ota_ask_version
          \/ \E r \in Release \cup {NoRelease} : Version(r)
Routes == Reboot \/ (\E c \in Conn : startOTA(c) \/ Close(c))
          \/ (\E check, reboot \in BOOLEAN : setOtaCfg(check, reboot))

\* A leaked client calls back with the other client's state: what follows is not
\* modelled, the chip is left to restart.
Next == Restart \/ (~leaked /\ (Routes \/ ota_engine \/ Client \/ ota_completed_cb))

Spec == Init /\ [][Next]_vars

\* Posted signals are served, the client's timers fire, the SDK calls back after its
\* own time-out (check_times) and a reset goes on by its timer.
Fairness == /\ WF_vars(~leaked /\ ota_engine)
            /\ WF_vars(~leaked /\ ConnectFails) /\ WF_vars(~leaked /\ NoVersion)
            /\ WF_vars(~leaked /\ ota_completed_cb)
            /\ WF_vars(Restart)
FairSpec == Spec /\ Fairness

-----------------------------------------------------------------------------
\* The variables have their types and the counters their bounds.
TypeOK ==
  /\ status \in Statuses
  /\ last_result \in {"idle"} \cup Final
  /\ rel_cmp_result \in {-1, 0, 1}
  /\ requester \in Conn \cup {NoConn}
  /\ check_version \in BOOLEAN /\ reboot_on_completion \in BOOLEAN
  /\ engine \in 0..TaskQueueLen
  /\ ota_client \in {"none", "connecting", "waiting", "mute"}
  /\ upgrade_svr \in {"null", "own", "in_use"}
  /\ sdk \in {"idle", "running"}
  /\ rebooting \in BOOLEAN
  /\ waiting \subseteq Conn
  /\ checked \in Release \cup {NoRelease}
  /\ accepted \in 0..MaxRequests /\ answers \in Nat
  /\ lost \in BOOLEAN /\ refused \in BOOLEAN /\ twice \in BOOLEAN /\ leaked \in BOOLEAN

\* What may still lead to an answer: signals, the check's client, the download.
Tokens == engine + (IF ota_client = "none" THEN 0 ELSE 1) + (IF sdk = "idle" THEN 0 ELSE 1)

\* An update that was accepted is answered at most once, however many signals of the
\* engine, callbacks of the client and of the SDK are under way: no answer comes
\* out of nothing.
NoSpareAnswers == answers + Tokens <= accepted

\* Until a download is started over another one, the check's client exists exactly
\* while the engine waits for it: its callbacks find ota_client, and no engine step
\* overwrites it.  The descriptor the SDK downloads with is not freed by ota_cleanup:
\* no final status is reached while it is in use.
ClientOwned == ((ota_client # "none") <=> status = "version_checking") /\ ~leaked
DescriptorKept == status \in Final => upgrade_svr # "in_use"
UpdateOwned == ~twice => ClientOwned /\ DescriptorKept

\* An update never stops half-way: in every state but idle something is under way to
\* go on, unless a signal was lost, the SDK refused to start the download, or a second one
\* was started over the first.
GoesOn ==
  ~lost /\ ~twice =>
    /\ status = "upgrading" => engine > 0 \/ sdk = "running"
    /\ status = "version_checked" \/ status \in Final => engine > 0 \/ refused

\* No one drives the engine any more: a signal was lost, send_req failed without a
\* word, or the SDK refused to start.
Stranded == lost \/ leaked \/ refused \/ ota_client = "mute"

\* The last to ask for an update is answered, unless the engine is stranded.
Answered ==
  \A c \in Conn : (c \in waiting /\ requester = c) ~>
                  (c \notin waiting \/ requester # c \/ Stranded)

\* What a document says of the code, and it does not do.

\* espbot_api.yaml: "in case that version check is enabled and the device binary is
\* up-to-date OTA won't be started"; espbot_ota.cpp: "current release is lower than
\* the available one".
NotDowngraded == status = "upgrading" /\ checked # NoRelease => Older(Current, checked)
=============================================================================
