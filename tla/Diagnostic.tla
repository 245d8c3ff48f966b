------------------------------ MODULE Diagnostic ------------------------------
(***************************************************************************)
(* The event journal of espbot_diagnostic.cpp: a circular buffer of events *)
(* with the LED that shows them, their acknowledgement, the answer to      *)
(* GET /api/diagnostic/events, which is continued by index while events    *)
(* are reported, and the configuration saved in a file.                    *)
(*                                                                         *)
(* Every module reports events, from inside any of its functions.  The     *)
(* functions of this one call each other and those of the LED's pin:       *)
(* operators take the state as a record d and return the next one.  An     *)
(* event's number counts the events since the restart.                     *)
(***************************************************************************)
EXTENDS Integers, Sequences

CONSTANTS
  Size,        \* EVNT_QUEUE_SIZE (100)
  MsgMax,      \* http_msg_max_size (1460)
  EventMax,    \* length of an event in an answer, at most (42+12+1+2+4+12)
  Reported,    \* types of the events the other modules report
  Masks,       \* values the LED mask is set to
  MaxEvents,   \* bound: events since the restart
  MaxFaults    \* bound: allocations and file operations that fail

Types == {"fatal", "error", "warn", "info", "debug", "trace"}

ASSUME DiagnosticConstants ==
  /\ Size \in Nat \ {0} /\ EventMax \in Nat \ {0} /\ MsgMax \in Nat
  /\ MsgMax >= EventMax + 18
  /\ Reported \subseteq Types /\ Masks \subseteq SUBSET Types
  /\ MaxEvents \in Nat /\ MaxFaults \in Nat

VARIABLES
  evnt, last,   \* dia_event_queue
  added,        \* history: events since the restart
  led_mask,     \* dia_cfg.led_mask
  pin,          \* gpio_cfg of DIA_LED
  lit,          \* the LED is on: the pin is low
  taken,        \* history: the API used the LED's pin since it was last configured
  file,         \* diagnostic.cfg
  mounted,      \* esp_spiffs.status
  answer,       \* the split answer under way
  faults        \* history: calls that failed

journal == <<evnt, last, added>>
vars == <<journal, led_mask, pin, lit, taken, file, mounted, answer, faults>>

Empty == [n |-> 0, type |-> "none", ack |-> FALSE]
NoAnswer == [count |-> 0, transferred |-> 0, sent |-> <<>>]

Diag == [evnt |-> evnt, last |-> last, added |-> added,
         mask |-> led_mask, pin |-> pin, lit |-> lit, down |-> FALSE]

-----------------------------------------------------------------------------
\* The place that the next event takes.
NextPlace(d) == IF d.last + 1 >= Size THEN 0 ELSE d.last + 1

Stored(d, t) ==
  [d EXCEPT !.evnt[NextPlace(d)] = [n |-> d.added + 1, type |-> t, ack |-> FALSE],
            !.last = NextPlace(d), !.added = d.added + 1]

(***************************************************************************)
(* gpio_set of the LED's pin, which reports an event of its own when the   *)
(* pin is an input: an event that is shown on the LED itself calls         *)
(* gpio_set again, and so on until the stack overflows.                    *)
(***************************************************************************)
gpio_set(d, on) ==
  CASE d.pin = "output" -> [d EXCEPT !.lit = on]
    [] d.pin = "input"  -> IF "warn" \in d.mask THEN [d EXCEPT !.down = TRUE]
                           ELSE Stored(d, "warn")
    [] OTHER            -> d

dia_add_event(d, t) == IF t \in d.mask THEN gpio_set(Stored(d, t), TRUE) ELSE Stored(d, t)

\* The event that is the idx-th before the newest one; Empty stands for NULL.
dia_get_event(d, idx) ==
  LET index == d.last - (idx % Size) IN d.evnt[IF index < 0 THEN Size + index ELSE index]

dia_ack_events_UpToLast(d) ==     \* mutant: events from before the last turn are left out
  LET acked == [d EXCEPT !.evnt = [i \in 0..(Size - 1) |->
                  IF d.evnt[i].type = "none" \/ i > d.last THEN d.evnt[i]
                  ELSE [d.evnt[i] EXCEPT !.ack = TRUE]]]
  IN IF d.mask # {} THEN gpio_set(acked, FALSE) ELSE acked

dia_ack_events(d) ==
  LET acked == [d EXCEPT !.evnt = [i \in 0..(Size - 1) |->
                  IF d.evnt[i].type = "none" THEN d.evnt[i]
                  ELSE [d.evnt[i] EXCEPT !.ack = TRUE]]]
  IN IF d.mask # {} THEN gpio_set(acked, FALSE) ELSE acked

\* The LED shows events that were reported before the mask was set.
dia_set_led_mask_NotShown(d, mask) ==     \* mutant: the LED is only switched off
  IF mask = {} THEN [d EXCEPT !.mask = mask, !.pin = "unprovisioned"]
  ELSE [d EXCEPT !.mask = mask, !.pin = "output", !.lit = FALSE]

dia_set_led_mask(d, mask) ==
  IF mask = {} THEN [d EXCEPT !.mask = mask, !.pin = "unprovisioned"]
  ELSE [d EXCEPT !.mask = mask, !.pin = "output",
                 !.lit = \E i \in 0..(Size - 1) : d.evnt[i].type \in mask]

-----------------------------------------------------------------------------
(***************************************************************************)
(* The configuration file: absent, good (then it holds the mask), or       *)
(* garbled, which an empty one is too.                                     *)
(***************************************************************************)
Good(mask) == [state |-> "good", mask |-> mask]
Absent     == [state |-> "absent", mask |-> {}]
Garbled    == [state |-> "garbled", mask |-> {}]

\* dia_init_essential: nothing is reported or shown yet.
Fresh ==
  [evnt |-> [i \in 0..(Size - 1) |-> Empty], last |-> Size - 1, added |-> 0,
   mask |-> {}, pin |-> "unprovisioned", lit |-> FALSE, down |-> FALSE]

(***************************************************************************)
(* esp_spiffs_mount reports what it did.  A file system that cannot be     *)
(* mounted is formatted, unless no mount is possible with its sizes, and   *)
(* mounted again; its files are lost.                                      *)
(***************************************************************************)
Mounts == {"mounted", "formatted", "unmountable", "lost"}

\* Mounted, its size, and how much of it is used.
InUse(d) == Stored(Stored(Stored(d, "info"), "info"), "info")

esp_spiffs_mount(how) ==
  CASE how = "mounted"     -> InUse(Fresh)
    [] how = "formatted"   -> InUse(Stored(Fresh, "info"))
    [] how = "unmountable" -> Stored(Fresh, "fatal")    \* nor formatted
    [] how = "lost"        -> Stored(Stored(Fresh, "info"), "fatal")

\* The file may be unreadable for want of heap.
dia_restore_cfg(d, f, readable) ==
  IF f.state = "absent" THEN Stored(d, "warn")
  ELSE IF f.state = "good" /\ readable THEN dia_set_led_mask(d, f.mask)
  ELSE LET tried == IF readable THEN d ELSE Stored(d, "error")
       IN  Stored(Stored(tried, "error"), "warn")

\* The journal after dia_init_custom.  Without a file system the search for the file
\* reports that, and it is taken for absent.
Booted(how, f, readable) ==
  LET d == esp_spiffs_mount(how)
  IN  CASE how = "mounted"   -> dia_restore_cfg(d, f, readable)
        [] how = "formatted" -> dia_restore_cfg(d, Absent, TRUE)
        [] OTHER             -> dia_restore_cfg(Stored(d, "error"), Absent, TRUE)

Is(d) ==
  /\ evnt' = d.evnt /\ last' = d.last /\ added' = d.added
  /\ led_mask' = d.mask /\ pin' = d.pin /\ lit' = d.lit

Boot(f) ==
  \E how \in Mounts, readable \in BOOLEAN :
    /\ Is(Booted(how, f, readable))
    /\ IF how = "mounted" /\ readable THEN UNCHANGED faults
       ELSE faults < MaxFaults /\ faults' = faults + 1
    /\ mounted' = (how \in {"mounted", "formatted"})
    /\ file' \in CASE how = "mounted"     -> {f}
                   [] how = "unmountable" -> {f, Absent}
                   [] OTHER               -> {Absent}
    /\ taken' = FALSE /\ answer' = NoAnswer

\* The first start may find a flash without a file system.
Init ==
  \E how \in {"mounted", "formatted"} :
    LET d == Booted(how, Absent, TRUE)
    IN  /\ evnt = d.evnt /\ last = d.last /\ added = d.added
        /\ led_mask = d.mask /\ pin = d.pin /\ lit = d.lit
        /\ file = Absent /\ mounted = TRUE
        /\ taken = FALSE /\ answer = NoAnswer /\ faults = 0

\* A handler leaves d, or its stack overflowed.
Leaves(d) == ~d.down /\ Is(d)
Overflows(d) == d.down /\ Boot(file)
\* What reports is bounded.
Bounded(d) == added < MaxEvents \/ d.added = added
Fails == faults < MaxFaults /\ faults' = faults + 1

-----------------------------------------------------------------------------
\* One of the other modules reports an event.
Report(t) ==
  LET d == dia_add_event(Diag, t)
  IN  /\ added < MaxEvents
      /\ \/ Leaves(d) /\ UNCHANGED <<taken, file, mounted, answer, faults>>
         \/ Overflows(d)

ackDiagnosticEvents ==
  LET d == dia_ack_events(Diag)
  IN  /\ Bounded(d)
      /\ \/ Leaves(d) /\ UNCHANGED <<taken, file, mounted, answer, faults>>
         \/ Overflows(d)

\* Without a file system each of dia_cfg_save's calls reports that: exists, the
\* constructor, size, n_read and clear.
NotMounted(d) ==
  LET E(x) == dia_add_event(x, "error") IN E(E(E(E(E(d)))))

(***************************************************************************)
(* setDiagnosticCfg, with dia_cfg_save: compares, clears and appends, and  *)
(* reports what fails.  The route does not look at its result.  When the   *)
(* file cannot be read for want of heap, it is written anyway, and the     *)
(* destructor of Cfgfile frees a text in flash; power may be lost before   *)
(* the file is cleared, between that and the append, and after.            *)
(***************************************************************************)
setDiagnosticCfg(mask) ==
  LET d == dia_set_led_mask(Diag, mask)
      e == dia_add_event(d, "error")
  IN  /\ added < MaxEvents
      /\ \/ /\ taken' = FALSE /\ UNCHANGED <<answer, mounted>>
            /\ IF mounted
               THEN \/ Leaves(d) /\ file' = Good(mask) /\ UNCHANGED faults
                    \/ Fails /\ Leaves(e) /\ file' \in {Good(mask), Garbled, file}
               ELSE Leaves(NotMounted(d)) /\ UNCHANGED <<file, faults>>
         \/ \E f \in {file} \cup (IF mounted THEN {Garbled, Good(mask)} ELSE {}) : Boot(f)

\* The API can use the LED's pin like any other one.
setGpioCfg(type) ==
  /\ pin' = type
  /\ lit' = IF type = "input" THEN FALSE ELSE lit
  /\ taken' = TRUE
  /\ UNCHANGED <<journal, led_mask, file, mounted, answer, faults>>

setGpioLevel(on) ==
  LET d == gpio_set(Diag, on)
  IN  /\ Bounded(d)
      /\ \/ Leaves(d) /\ taken' = TRUE /\ UNCHANGED <<file, mounted, answer, faults>>
         \/ Overflows(d)

\* Power is lost, or something else restarts the chip.
PowerLoss == Boot(file)

-----------------------------------------------------------------------------
(***************************************************************************)
(* The answer to GET /api/diagnostic/events.  It is as many events as were *)
(* counted at first; what does not fit into a message is read later, by    *)
(* index, from whatever the journal holds then.                            *)
(***************************************************************************)
PieceEvents == (MsgMax - 18) \div EventMax
LastEvents  == (MsgMax - 2) \div EventMax

Numbers(d, from, to) == [k \in 1..(to - from) |-> dia_get_event(d, from + k - 1).n]

\* Events are counted from the newest one until there is none, or all places are.
Count(d) == CHOOSE n \in 0..Size :
  /\ \A k \in 0..(n - 1) : dia_get_event(d, k).type # "none"
  /\ n = Size \/ dia_get_event(d, n).type = "none"

\* Events are counted at their real length: more than PieceEvents may fit or not.  If
\* there is no heap for the origin an event is reported before any is read; if there is
\* none for the text, or no room for the rest in the queue, nothing is sent.
getDiagnosticEvents ==
  LET count == Count(Diag)
      late  == dia_add_event(Diag, "error")
  IN  /\ answer.transferred = answer.count
      /\ \/ /\ \E d \in {Diag, late} :
                /\ Bounded(d)
                /\ IF d = Diag THEN UNCHANGED faults ELSE Fails
                /\ Leaves(d)
                /\ \E n \in {count, PieceEvents} :
                     /\ n <= count
                     /\ answer' = [count |-> count, transferred |-> n, sent |-> Numbers(d, 0, n)]
            /\ UNCHANGED <<taken, file, mounted>>
         \/ Bounded(late) /\ Fails /\ Leaves(late) /\ UNCHANGED <<taken, file, mounted, answer>>
         \/ Bounded(late) /\ faults < MaxFaults /\ Overflows(late)

getDiagnosticEvents_next_OneLate ==     \* mutant: a later piece begins one event too late
  /\ answer.transferred < answer.count
  /\ LET left == answer.count - answer.transferred
         n    == IF left > LastEvents THEN PieceEvents ELSE left
     IN  answer' = [answer EXCEPT !.transferred = @ + n,
                                  !.sent = @ \o Numbers(Diag, answer.transferred + 1, answer.transferred + 1 + n)]
  /\ UNCHANGED <<journal, led_mask, pin, lit, taken, file, mounted, faults>>

getDiagnosticEvents_next ==
  /\ answer.transferred < answer.count
  /\ LET left == answer.count - answer.transferred
         n    == IF left > LastEvents THEN PieceEvents ELSE left
     IN  answer' = [answer EXCEPT !.transferred = @ + n,
                                  !.sent = @ \o Numbers(Diag, answer.transferred, answer.transferred + n)]
  /\ UNCHANGED <<journal, led_mask, pin, lit, taken, file, mounted, faults>>

\* The connection is gone, or there is no heap for the next piece, which is reported,
\* or no room in the queue for the rest.
GivesUp ==
  LET d == dia_add_event(Diag, "error")
  IN  /\ answer.transferred < answer.count
      /\ \/ /\ answer' = NoAnswer
            /\ \/ UNCHANGED <<journal, led_mask, pin, lit, faults>>
               \/ added < MaxEvents /\ Fails /\ Leaves(d)
            /\ UNCHANGED <<taken, file, mounted>>
         \/ added < MaxEvents /\ faults < MaxFaults /\ Overflows(d)

Next ==
  \/ \E t \in Reported : Report(t)
  \/ ackDiagnosticEvents
  \/ \E mask \in Masks : setDiagnosticCfg(mask)
  \/ \E type \in {"unprovisioned", "input", "output"} : setGpioCfg(type)
  \/ \E on \in BOOLEAN : setGpioLevel(on)
  \/ getDiagnosticEvents \/ getDiagnosticEvents_next \/ GivesUp
  \/ PowerLoss

Spec == Init /\ [][Next]_vars

-----------------------------------------------------------------------------
Event == [n : Nat, type : Types, ack : BOOLEAN]

\* The variables have their types.
TypeOK ==
  /\ evnt \in [0..(Size - 1) -> Event \cup {Empty}]
  /\ last \in 0..(Size - 1) /\ added \in Nat
  /\ led_mask \in Masks \cup {{}} /\ pin \in {"unprovisioned", "input", "output"}
  /\ lit \in BOOLEAN /\ taken \in BOOLEAN /\ mounted \in BOOLEAN
  /\ file \in {Absent, Garbled} \cup {Good(mask) : mask \in Masks}
  /\ answer \in [count : 0..Size, transferred : 0..Size, sent : Seq(Nat)]
  /\ faults \in 0..MaxFaults

\* While nobody else uses its pin the LED is lit as long as an event it is to show is not
\* acknowledged, whenever the mask was set and whatever was reported since.
LedShows ==
  led_mask # {} /\ ~taken =>
    /\ pin = "output"
    /\ (\E i \in 0..(Size - 1) : evnt[i].type \in led_mask /\ ~evnt[i].ack) => lit

\* An answer in pieces holds as many events as were counted for its header, and every
\* one is an event: the buffer never has fewer than were counted.  Events reported
\* between two pieces shift the indices, so that an event is sent twice; but none is
\* skipped, from the newest at the first piece down to the last one sent.
AnswerFilled ==
  /\ Len(answer.sent) = answer.transferred /\ answer.transferred <= answer.count
  /\ \A k \in 1..Len(answer.sent) : answer.sent[k] > 0
NoneSkipped ==
  \A k \in 1..(Len(answer.sent) - 1) : answer.sent[k + 1] >= answer.sent[k] - 1
AnswerSound == AnswerFilled /\ NoneSkipped

-----------------------------------------------------------------------------
\* Read by dia_get_event the buffer is the log of the last events.
Log == LET d == Diag
           n == Count(d)
       IN  [i \in 1..n |-> dia_get_event(d, i - 1)]
Reader == INSTANCE EventLog WITH log <- Log

\* Reporting, acknowledging and restarting do to it what they do to the log.
LogKept == Reader!Spec
===============================================================================
