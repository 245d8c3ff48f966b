------------------------------- MODULE Config -------------------------------
(***************************************************************************)
(* The configuration files.  Each of seven parts of the program keeps its  *)
(* settings in RAM, reads them at the start from a file of its own, and    *)
(* saves them by emptying that file and appending the new text.  Saving is *)
(* several calls of the file system; any of them may fail, the heap may be *)
(* exhausted, the power may go between two of them, and the files can be   *)
(* read, written and deleted through the API as well.                      *)
(*                                                                         *)
(* The parts do not touch each other's files: a behaviour is about one of  *)
(* them (`subject'), whose file is "cfg", and about one other file, whose  *)
(* name is longer and begins with the same letters ("longer").             *)
(*                                                                         *)
(* A handler makes several calls.  They are operators from a record of the *)
(* variables to the set of records they may leave; `clean' says nothing    *)
(* failed so far, `err' is the error of the open file, `cache' what was    *)
(* appended and is not in flash before the file is closed.                 *)
(***************************************************************************)
EXTENDS Integers, FiniteSets

CONSTANTS
  Values,     \* the values of a setting the program accepts
  Default,    \* the one it has without a file
  Wrong,      \* one it does not accept
  Uploads     \* the values in the files the API is given

ASSUME ConfigConstants == /\ Default \in Values /\ Wrong \notin Values
                          /\ Uploads \subseteq Values \cup {Wrong}

Configs == {"espbot", "cron", "diagnostic", "mdns", "ota", "timedate", "wifi"}

\* Settings that are always set together are one field.
Fields == [espbot |-> {"device_name"}, cron |-> {"enabled"}, mdns |-> {"enabled"},
           diagnostic |-> {"masks", "uart_0_bitrate"},
           ota |-> {"server", "options"},
           timedate |-> {"sntp_enabled", "timezone"},
           wifi |-> {"station", "ap_channel", "ap_pwd"}]

Names == {"cfg", "longer"}
BeginWith(name) == IF name = "cfg" THEN Names ELSE {name}

(* What a file holds: nothing, characters that are no document, or the text *)
(* of some settings.  The size distinguishes a part of a text from the whole.*)
NoSettings == [f \in {} |-> Default]
Absent == [kind |-> "absent", val |-> NoSettings, size |-> 0]
Empty == [kind |-> "empty", val |-> NoSettings, size |-> 0]
Broken(n) == [kind |-> "broken", val |-> NoSettings, size |-> n]
Text(v) == [kind |-> "text", val |-> v, size |-> 2]

Joined(c, t) == IF c.size = 0 THEN t ELSE Broken(2)

VARIABLES
  subject,    \* the part this behaviour is about
  up,         \* the program is running
  mounted,    \* esp_spiffs.status
  files,      \* the two files
  ram,        \* the settings of the part
  promise,    \* history: the settings saved last and without a failure, and
              \* not cut, written over or deleted since
  touched,    \* history: the fields set since the file last held them all
  restored    \* history: RAM comes from the file, or the file from RAM

configVars == <<subject, up, mounted, files, ram, promise, touched, restored>>

None == [of |-> "none", val |-> NoSettings]
SavedAs(v) == [of |-> "saved", val |-> v]

Now == [up |-> up, mounted |-> mounted, files |-> files, ram |-> ram,
        err |-> FALSE, cache |-> Absent, clean |-> TRUE, restored |-> restored]
Failed(d) == [d EXCEPT !.err = TRUE, !.clean = FALSE]
Off(d) == [d EXCEPT !.up = FALSE, !.err = TRUE, !.clean = FALSE]

-----------------------------------------------------------------------------
(* The file system's wrapper.  Without power, without a file system and     *)
(* after an error of the same file nothing more is done.                    *)

\* SPIFFS_open creates the file; it may fail before or after.
Espfile(d, n) ==
  LET made == IF d.files[n] = Absent THEN [d EXCEPT !.files[n] = Empty] ELSE d
  IN  IF ~d.up \/ ~d.mounted THEN {Failed(d)}
      ELSE {[made EXCEPT !.err = FALSE, !.cache = Absent]}
           \cup {Failed(d), Failed(made), Off(d), Off(made)}

clear(d, n) ==
  LET emptied == [d EXCEPT !.files[n] = Empty]
  IN  IF d.err THEN {d}
      ELSE {emptied, Failed(d), Failed(emptied), Off(d), Off(emptied)}

n_append(d, n, t) ==
  IF d.err THEN {d} ELSE {[d EXCEPT !.cache = t], Failed(d), Off(d)}

\* The destructor closes the file, which writes what is in the cache.
Closed(d, n) ==
  LET old == d.files[n]
      cut == [d EXCEPT !.files[n] = IF old.size = 0 THEN Broken(1) ELSE Broken(2)]
      written == [d EXCEPT !.files[n] = Joined(old, d.cache)]
  IN  IF d.cache = Absent \/ ~d.up THEN {d}
      ELSE {written} \cup {[r EXCEPT !.clean = FALSE] : r \in {d, cut}}
           \cup {Off(r) : r \in {d, cut, written}}

remove(d, n) ==
  LET removed == [d EXCEPT !.files[n] = Absent]
  IN  IF d.err THEN {d}
      ELSE {removed, Failed(d), Off(d), Off(removed)}

exists(d, n) == d.up /\ d.mounted /\ d.files[n] # Absent

\* The directory is searched for a name that begins with this one; which one
\* of two is found first depends on where the file system put them.
Sizes(d, n) == {d.files[m].size : m \in {x \in BeginWith(n) : d.files[x] # Absent}}

\* Cfgfile: the text is read as far as the size found; the text of a file
\* that could not be opened or found no heap is empty.
Read(d) ==
  {[text |-> IF k >= d.files["cfg"].size THEN d.files["cfg"] ELSE Broken(1),
    clean |-> TRUE] : k \in Sizes(d, "cfg")}
  \cup {[text |-> Empty, clean |-> FALSE]}

Holds(t, c) == t.kind = "text" /\ Fields[c] \subseteq DOMAIN t.val

-----------------------------------------------------------------------------
(* Reading a configuration at the start.  ram holds the defaults.           *)

Defaults(c) == [f \in Fields[c] |-> Default]

\* All the settings of a text, or none when one is missing.
Restore(d, c) ==
  IF ~exists(d, "cfg") THEN {[d EXCEPT !.restored = d.mounted]}
  ELSE {[d EXCEPT !.clean = @ /\ t.clean,
                  !.ram = IF Holds(t.text, c)
                          THEN [f \in Fields[c] |-> t.text.val[f]] ELSE @,
                  !.restored = Holds(t.text, c) \/ d.files["cfg"].kind # "text"]
        : t \in Read(d)}

espbot_restore_cfg_First(d) ==         \* mutant: the default name is set after it
  {[r EXCEPT !.ram = Defaults("espbot")] : r \in Restore(d, "espbot")}
espbot_restore_cfg(d) == Restore(d, "espbot")
cron_restore_cfg(d) == Restore(d, "cron")
dia_restore_cfg(d) == Restore(d, "diagnostic")
mdns_restore_cfg(d) == Restore(d, "mdns")
ota_restore_cfg(d) == Restore(d, "ota")
timedate_restore_cfg(d) == Restore(d, "timedate")

\* Wi-Fi takes what it finds.  A missing channel is an error that is not
\* cleared: the password of the access point after it is not read.
WifiFields(t) ==
  {"station"} \cup (IF "ap_channel" \in DOMAIN t.val THEN {"ap_channel", "ap_pwd"} ELSE {})
wifi_cfg_restore(d) ==
  IF ~exists(d, "cfg") THEN {[d EXCEPT !.restored = d.mounted]}
  ELSE {LET found == IF t.text.kind = "text"
                     THEN DOMAIN t.text.val \cap WifiFields(t.text) ELSE {}
            inRange(f) == f # "ap_channel" \/ t.text.val[f] # Wrong
        IN  [d EXCEPT !.clean = @ /\ t.clean,
                      !.ram = [f \in DOMAIN @ |->
                                 IF f \in found /\ inRange(f) THEN t.text.val[f] ELSE @[f]],
                      !.restored = \/ d.files["cfg"].kind # "text"
                                   \/ found = DOMAIN d.ram /\ inRange("ap_channel")]
        : t \in Read(d)}

restore_cfg(d) ==
  CASE subject = "espbot" -> espbot_restore_cfg(d)
    [] subject = "cron" -> cron_restore_cfg(d)
    [] subject = "diagnostic" -> dia_restore_cfg(d)
    [] subject = "mdns" -> mdns_restore_cfg(d)
    [] subject = "ota" -> ota_restore_cfg(d)
    [] subject = "timedate" -> timedate_restore_cfg(d)
    [] subject = "wifi" -> wifi_cfg_restore(d)

-----------------------------------------------------------------------------
(* Saving it. *)

\* A text that says what is in RAM is left alone.
UpToDate(t, d, c) == Holds(t, c) /\ \A f \in Fields[c] : t.val[f] = d.ram[f]
espbot_saved_cfg_updated(t, d) == UpToDate(t, d, "espbot")
cron_saved_cfg_updated(t, d) == UpToDate(t, d, "cron")
dia_saved_cfg_updated(t, d) == UpToDate(t, d, "diagnostic")
mdns_saved_cfg_updated(t, d) == UpToDate(t, d, "mdns")
ota_saved_cfg_updated(t, d) == UpToDate(t, d, "ota")
timedate_saved_cfg_updated_Zone(t, d) ==      \* mutant: sntp_enabled is not compared
  Holds(t, "timedate") /\ t.val["timezone"] = d.ram["timezone"]
timedate_saved_cfg_updated(t, d) == UpToDate(t, d, "timedate")
wifi_cfg_uptodate(t, d) == UpToDate(t, d, "wifi")

Rewritten(d) ==
  UNION {UNION {UNION {Closed(z, "cfg") : z \in n_append(y, "cfg", Text(d.ram))}
                : y \in clear(x, "cfg")} : x \in Espfile(d, "cfg")}

\* xxx_cfg_save.  Nobody looks at what it returns.
Save(d, updated(_, _)) ==
  IF ~exists(d, "cfg") THEN Rewritten(d)
  ELSE UNION {IF updated(t.text, d) THEN {[d EXCEPT !.clean = @ /\ t.clean]}
              ELSE Rewritten([d EXCEPT !.clean = @ /\ t.clean]) : t \in Read(d)}
espbot_cfg_save(d) == Save(d, espbot_saved_cfg_updated)
cron_cfg_save(d) == Save(d, cron_saved_cfg_updated)
dia_cfg_save(d) == Save(d, dia_saved_cfg_updated)
mdns_cfg_save(d) == Save(d, mdns_saved_cfg_updated)
ota_cfg_save(d) == Save(d, ota_saved_cfg_updated)
timedate_cfg_save(d) == Save(d, timedate_saved_cfg_updated)
espwifi_cfg_save(d) == Save(d, wifi_cfg_uptodate)

-----------------------------------------------------------------------------
ConfigInit ==
  /\ subject \in Configs
  /\ up = FALSE /\ mounted = FALSE
  /\ files = [n \in Names |-> Absent]
  /\ ram = Defaults(subject)
  /\ promise = None
  /\ touched = {}
  /\ restored = FALSE

InFile(d) == d.files["cfg"] = Text(d.ram)

\* The variables after a handler that set some fields and may have saved.
Done(d, set, saves) ==
  /\ up' = d.up /\ mounted' = d.mounted /\ files' = d.files /\ ram' = d.ram
  /\ promise' = CASE saves /\ d.clean -> SavedAs(d.ram)
                  [] d.files["cfg"] = files["cfg"] -> promise
                  [] OTHER -> None
  /\ touched' = IF InFile(d) THEN {} ELSE touched \cup set
  /\ restored' = (d.restored \/ InFile(d))
  /\ UNCHANGED subject

\* esp_spiffs_mount.  Any error but two formats the file system.
Mounted(d) ==
  {[d EXCEPT !.mounted = TRUE], Failed([d EXCEPT !.mounted = FALSE])}
  \cup {Failed([d EXCEPT !.files = [n \in Names |-> Absent], !.mounted = m])
        : m \in BOOLEAN}

\* espbot_init: the part has its defaults, then what the file says.
espbot_init ==
  /\ ~up
  /\ \E m \in Mounted([Now EXCEPT !.up = TRUE, !.ram = Defaults(subject)]) :
       \E d \in restore_cfg(m) :
         /\ up' = TRUE /\ mounted' = d.mounted /\ files' = d.files /\ ram' = d.ram
         /\ promise' = IF d.files = files THEN promise ELSE None
         /\ touched' = {}
         /\ restored' = d.restored
         /\ UNCHANGED subject

PowerOff == /\ up
            /\ up' = FALSE
            /\ UNCHANGED <<subject, mounted, files, ram, promise, touched, restored>>

\* A route that sets fields and saves.  A request of wrong syntax or with a
\* missing field is refused before anything is set.
Set(c, new, save(_)) ==
  /\ up /\ subject = c
  /\ \E d \in save([Now EXCEPT !.ram = [f \in DOMAIN ram |->
                       IF f \in DOMAIN new THEN new[f] ELSE ram[f]]]) :
       Done(d, DOMAIN new, TRUE)

setDeviceName == \E v \in Values : Set("espbot", [device_name |-> v], espbot_cfg_save)
setCron == \E v \in Values : Set("cron", [enabled |-> v], cron_cfg_save)
setMdns == \E v \in Values : Set("mdns", [enabled |-> v], mdns_cfg_save)
setTimedateCfg ==
  \E v, w \in Values :
    Set("timedate", [sntp_enabled |-> v, timezone |-> w], timedate_cfg_save)
setOtaCfg ==
  \E v, w \in Values : Set("ota", [server |-> v, options |-> w], ota_cfg_save)

\* A bit rate that is not one of the chip's leaves the old one.
dia_set_uart_0_bitrate(val) == IF val = Wrong THEN ram["uart_0_bitrate"] ELSE val
setDiagnosticCfg ==
  \E v \in Values, w \in Values \cup {Wrong} :
    Set("diagnostic", [masks |-> v, uart_0_bitrate |-> dia_set_uart_0_bitrate(w)],
        dia_cfg_save)

\* A channel out of range becomes the first one.  The station's settings are saved with
\* the others.
espwifi_ap_set_ch(ch) == IF ch = Wrong THEN Default ELSE ch
setWifiApCfg ==
  \E v \in {espwifi_ap_set_ch(x) : x \in Values \cup {Wrong}}, w \in Values :
    Set("wifi", [ap_channel |-> v, ap_pwd |-> w], espwifi_cfg_save)

\* The station's settings are not saved before a connection shows they work.
setWifiStationCfg ==
  /\ up /\ subject = "wifi"
  /\ \E v \in Values :
       Done([Now EXCEPT !.ram["station"] = v], {"station"}, FALSE)
GotIp ==
  /\ up /\ subject = "wifi" /\ ram["station"] # Default
  /\ \E d \in espwifi_cfg_save(Now) : Done(d, {}, TRUE)

(* The routes of files. *)

\* What is left when the API has written to or deleted a file.
FileDone(d, n) ==
  /\ up' = d.up /\ mounted' = d.mounted /\ files' = d.files /\ ram' = d.ram
  /\ promise' = IF n = "cfg" /\ d.files # files THEN None ELSE promise
  /\ restored' = (restored /\ (n = "cfg" => d.files = files))
  /\ UNCHANGED <<subject, touched>>

\* Nothing but the size is ever read of the longer name's file.
Contents(n) ==
  {Broken(1), Broken(2)}
  \cup IF n = "longer" THEN {}
       ELSE {Text([f \in S |-> v]) : S \in SUBSET Fields[subject], v \in Uploads}

Written(n) ==
  UNION {UNION {UNION {Closed(y, n) : y \in n_append(x, n, t)} : t \in Contents(n)}
         : x \in Espfile(Now, n)}

createFile(n) ==
  /\ up /\ ~exists(Now, n)
  /\ \E d \in Written(n) : FileDone(d, n)
appendToFile(n) ==
  /\ exists(Now, n)
  /\ \E d \in Written(n) : FileDone(d, n)
deleteFile(n) ==
  /\ exists(Now, n)
  /\ \E d \in UNION {remove(x, n) : x \in Espfile(Now, n)} : FileDone(d, n)

ConfigNext ==
  \/ espbot_init \/ PowerOff
  \/ setDeviceName \/ setCron \/ setMdns \/ setTimedateCfg \/ setOtaCfg
  \/ setDiagnosticCfg \/ setWifiApCfg \/ setWifiStationCfg \/ GotIp
  \/ \E n \in Names : createFile(n) \/ appendToFile(n) \/ deleteFile(n)

ConfigSpec == ConfigInit /\ [][ConfigNext]_configVars

-----------------------------------------------------------------------------
(***************************************************************************)
(* Types: files hold nothing, garbage or settings; RAM holds all settings, *)
(* each of a value the part accepts unless the API wrote it into the file. *)
(***************************************************************************)
Settings == UNION {[S -> Values \cup {Wrong}] : S \in SUBSET Fields[subject]}
Content == {Absent, Empty, Broken(1), Broken(2)} \cup {Text(v) : v \in Settings}
AllSettings == [Fields[subject] -> Values \cup {Wrong}]

ConfigTypes ==
  /\ subject \in Configs
  /\ up \in BOOLEAN /\ mounted \in BOOLEAN /\ restored \in BOOLEAN
  /\ files \in [Names -> Content]
  /\ ram \in AllSettings
  /\ promise \in {None} \cup {SavedAs(v) : v \in AllSettings}
  /\ touched \subseteq Fields[subject]

(***************************************************************************)
(* What a request was told is saved, no step of it having failed, is what  *)
(* the next start restores, after any number of requests that save nothing *)
(* new, failures, losses of power and starts between: only a save cut in   *)
(* the middle, a format or the API's own writing can lose it.  A shorter   *)
(* file whose name begins with the name of the configuration hides it.     *)
(***************************************************************************)
Durable ==
  promise # None =>
    \A d \in restore_cfg([Now EXCEPT !.up = TRUE, !.mounted = TRUE,
                                   !.ram = Defaults(subject)]) :
      \/ ~d.clean
      \/ files["longer"] # Absent /\ files["longer"].size < 2
      \/ d.ram = promise.val

(***************************************************************************)
(* A save writes all the settings of a part, also those the request did    *)
(* not name.  The file's ones differ from the RAM's only in fields that    *)
(* were set since they last agreed, unless the start could not read the    *)
(* file, or the API changed it: only then can a save lose a setting that   *)
(* nobody touched.                                                         *)
(***************************************************************************)
SavesWhatWasSet ==
  up /\ restored /\ files["cfg"].kind = "text" =>
    \A f \in Fields[subject] \ touched : files["cfg"].val[f] = ram[f]
=============================================================================
