# espbot 2.0 in TLA+

espbot 2.0 is a C++ framework for the ESP8266 on Espressif's NON-OS SDK: Wi-Fi
management, an HTTP server with a REST API, an HTTP client, over-the-air updates,
a job scheduler, time synchronisation, mDNS, a diagnostic journal and configuration
files on SPIFFS. This directory holds TLA+ specifications of the parts whose
behaviour over several steps is hard to test, TLC configurations that check them on
small instances, and proofs checked by TLAPS for every value of their constants.

There are no threads. The SDK calls functions of the program, each of which runs to
completion: event handlers, `espconn` callbacks, software timers and a task to which
signals are posted with `system_os_post`. What makes the program hard is that one
piece of work is spread over many of these calls, that other calls come between them
in any order, and that allocations, posts and SDK calls fail. In every module one such
call is one action, and each of its failing branches is a branch of the action.

To check a run: `tlc -config MCCoordinator.cfg MCCoordinator`; to check the proofs of a
module: `tlapm Coordinator_proofs.tla`. `PROJECT.json` lists the components, the runs
with their properties, a mutant of the code for each property, the source lines every
definition stands for, the findings, the hazards and the theorems.

## 1. Inventory

| part (under `src/src/`) | state | operations | talks to |
|---|---|---|---|
| transmission layer `espbot_http.cpp:120-597` | busy flag, `send_buffer`, `pending_send`, `pending_split_send`, the 20 s timer | `http_response`, `http_send`, `http_check_pending_send`, sent callback, time-out | routes and client call it; it posts "check" to the coordinator |
| routes `espbot_http_routes.cpp` | a split file or journal answer under way; `delay_timer`; the OTA and scan requesters | one function per URL | everything |
| server `espbot_http_server.cpp` | `http_svr_state`, listening connection | start, stop, receive | started and stopped by the coordinator and the reset |
| reassembly `espbot_http.cpp:684-1123, 1158-1373` | `pending_requests`, `pending_responses` | save, check, parse | called by the receive callbacks of server and client |
| client `espbot_http_client.cpp` | status, two timers, table client/connection | connect, send_req, disconnect, callbacks | OTA and applications use it |
| coordinator `espbot.cpp:74-155` | event queue, `espbot_http_status` | one signal per call | started services; signals come from Wi-Fi, HTTP, OTA, cron |
| reset `espbot.cpp:289-343` | `graceful_rst_counter` and its timer | `espbot_reset` in three timed steps | stops server and services, changes the mode, restarts |
| Wi-Fi `espbot_wifi.cpp` | mode, station connected/connecting, ssid, reconnection timer, scan list | event handler, connect, work as access point, scan | posts gotIp, newIp, disconnected, apReady |
| OTA `espbot_ota.cpp` | `ota_state`, `ota_cfg`, client, upgrade descriptor | engine, version check, SDK download, answer | posts itself; uses the client; resets the chip |
| cron `espbot_cron.cpp` | job list with one cursor, timer, `enabled`, `running` | sync, execute, add, delete, enable, disable, start, stop | commands may call cron |
| time, mDNS `espbot_timedate.cpp`, `espbot_mdns.cpp` | enabled and running flags, RTC clock, mDNS address | start, stop, enable, disable, read the clock | coordinator |
| journal `espbot_diagnostic.cpp` | circular event buffer, LED mask | add, acknowledge, read, set the mask, save | every module adds events; it drives the LED's pin |
| configuration `espbot_cfgfile.cpp`, `espbot_spiffs.cpp` | seven `.cfg` files, the mounted file system | restore, compare, clear and append; open, remove, size | every configurable module; the API reads and writes the same files |
| flash `espbot_flash_functions.cpp` | the memory behind the file system | read, write, erase any range of bytes | SPIFFS (vendored) calls it |
| JSON `espbot_json.cpp` | a stretch of somebody else's text, the last element found | syntax checks, getters by name and by index | every route with a body, every configuration file, the OTA's answer |
| containers `espbot_queue.hpp`, `espbot_list.hpp` | ring buffer; doubly linked list with a cursor | push, pop, front, next, remove | layer, client, cron, journal |
| GPIO `espbot_gpio.cpp` | provisioned and type bits of eight pins | configure, release, read, set | routes and the journal's LED |
| memory monitor, profiler, flash strings, sample application | | | left aside, section 6 |

What is hard, and what makes each part correct:

* **Transmission layer.** `espconn_send` may be called only after the previous send was
  called back. Everything else is a consequence: two bounded queues, pieces of long
  contents queued behind themselves, buffers that change owner four times, and a
  wake-up to be posted on each of some ten paths that end without a send. Correct: one
  send at a time; every heap buffer has exactly one owner; pieces of a message in order;
  whatever is queued is sent some day.
* **Coordinator, Wi-Fi, reset.** Signals are handled late, when the station may have
  changed twice. Correct: once the queue is empty, server and services follow the
  station; a device without network is reachable as an access point; the station tries
  for ever; a reset restarts the chip.
* **OTA.** The engine drives itself by signals; the client, the SDK, the requester's
  connection and new requests come in between. Correct: one answer per accepted update,
  no callback finds a freed client or descriptor, the engine never stops half-way.
* **Cron.** One timer for the clock's minutes, one cursor for all uses of the list.
  Correct: every minute once, no job twice in a minute, walks end, timer and flags agree.
* **Client and reassembly.** Time-outs race connections and answers; objects are deleted
  in their own callbacks; pieces of several messages interleave in one list that knows
  them by an address which is given again. Correct: whoever waits is called back, once, with
  a whole answer, and no timer outlives its client; the routes get whole requests, once.
* **Journal.** Every function of the program may report an event, also between two pieces
  of the answer that lists them, and reporting drives a pin that reports. Correct: read by
  index the circular buffer is the list of the last events; the answer keeps what its header
  promised; the LED stays lit as long as there is something to see.
* **Configuration files.** A save is some six calls of a file system; each may fail, the
  power may go between two of them, a file of another name may be taken for it, and the API
  writes the same files. Correct: what was saved without a failure is what the next start
  reads, and a save changes no setting that nobody set.
* **Clock.** Every reading turns the RTC's ticks to time by the calibration of that moment,
  rounds, and saves what it rounded, over restarts and turns of a 32-bit counter. Correct: the
  error is at most half a second per reading and, per tick, what the calibration can be off by
  and what the conversion cuts off.
* **Ring buffer and list.** Indices that wrap, two directions of links, one cursor for every
  use. Correct: whatever calls are made, they are a queue and a sequence.
* **JSON.** Nested values are skipped by counting one kind of bracket; arrays keep what they
  found last. Correct: exactly the documents are accepted, and a getter's value is what the
  document means, whatever getters and errors went before.
* **Pins, flash.** Two words of bits for eight pins; ranges of bytes over words, pages and
  sectors, and commands that fail half way. Correct: nothing beside what was named changes.

## 2. Modules and how they correspond to the code

Definitions keep the names of the functions they stand for. A definition that begins
with the name of another one and ends in `_Something`, marked `mutant`, is a faulty
version of it which the project uses to show that a property notices the fault.

**`HttpSend`** (transmission layer). State: the variables of the same names in
`espbot_http.cpp`, the coordinator's queue reduced to "check" and "other", the state of
each `espconn`, the sends the SDK has not called back, and the heap as the set of live
message buffers, with what was leaked or freed in error as history. A handler makes
several calls into the layer, any of which may fail: operators therefore take the state
as a record and return the set of records the call may leave (`http_response`,
`send_remaining_file`, ...), and the actions `Respond`, `SendFile`, `SendEvents`,
`SendRequest`, `RunTask` step to one of them. A message is a number; its pieces carry
the code's `order`. Content length is the number of pieces. `clean_pending_send` is never
called and is no action.

**`Coordinator`** (Wi-Fi events, coordinator task, services, reset). State: the mode and
flags of `espbot_wifi.cpp`, the SDK's station interface (`link`, `address`), the event
queue, the server and service flags and the reset's counter and timer. `Disconnected`
and `GotIp` are branches of `wifi_event_handler`; `TaskGotIp`, `TaskNewIp`, ... of
`espbot_coordinator_task`; `DelayTimer` is the one timer that several routes share and
overwrite. `stamode_connecting` counts attempts and is only compared with 0 and 1, so it
stops at 2. `untold` remembers that the station's address changed without a signal while mDNS
was running (section 6); a reset under way may be asked for again. How the SDK takes a connect request while it is connected is not documented:
it leaves first (`rejoining`) or ignores it. A restart by `system_upgrade_reboot` is
treated as any restart.

**`Ota`** (engine, version check, download, requester). State: `ota_state`, the two
settings, the number of engine signals in the task queue, the client as the engine sees
it, the upgrade descriptor and the requesters waiting for an answer. The event queue is
shared, so `next_function` may find it full at any time. A release is three numbers;
`release_cmp` is the code's comparison of digit strings, `Older` the one of numbers. The
client has the same life as in `ClientContract`. When a second engine overwrites the
client pointer (`leaked`) the old client calls back into the new one's state; the model
stops there until the restart.

**`Cron`** (scheduler). State: the flags, the armed period, the clock at the last
synchronisation, the job list and its one cursor. `cron_execute` begins a walk and every
`Visit` runs one job, which may add or delete jobs. `At` is the iterator of
`cron_add_job`, which is not rewound between identifiers. A deleted element leaves the
cursor dangling; to call `next` on it is undefined behaviour, and the model goes to
`undefined` and restarts. The minute stands for the five fields of a job; time is kept
relative to the last synchronisation.

**`HttpClient`** (client and reassembly of responses) and **`ClientContract`** (what its
users see: a client is absent, connecting, waiting, or mute after a request that found no
heap). State: status, table of associations, both timers and the SDK's connection per
client; the list of incomplete responses; history that says which client a piece answers.
Clients are addresses, given again after a client is deleted: the list identifies an
entry by that address alone. `FirstPiece` and `NextPiece` are `http_client_recv` with all
it calls. Users follow the example in `espbot_http_client.hpp`, as `ota.cpp` does: at the
callback they disconnect and delete. Servers give a `Content-Length`, and bodies do not
contain the text `HTTP`, by which the code tells a header. Pieces of an earlier client's
answer may have any length: a message that is completed with them may be short, exact or
past the end of its buffer, and writing past the end is undefined behaviour (a restart, or
an entry that never completes). Reading from a failed allocation is a restart: on this chip the
load faults and the watchdog restarts it.

**`HttpServer`** (reception of requests). State: per connection the request it carries (its
number, how many pieces, the piece its header ends in, the pieces received), and
`pending_requests`, whose entries hold an address, a length and pieces. `FirstPiece` and
`NextPiece` are `http_svr_recv` with `http_parse_request`, `http_check_pending_requests` and
`http_save_pending_request`; `http_svr_discon` only writes a log. `Message` is the branch on
what the parser found, common to a first piece and to a completed message. `h_content_len`
is initialised by no constructor and set only when the parser gets that far; otherwise the
code compares what the stack held, and `Unset` has every outcome. `broken` collects the
requests that met a fault, a cut header or another's entry.

**`Diagnostic`** (journal, LED, its file and the events answer) and **`EventLog`** (what
readers are promised: the last `Size` events, the newest first). The functions of the journal
call each other and `gpio_set`, which reports: they are operators on the state as a record,
with `down` when the recursion never ends. `Boot` is what a restart does up to
`dia_init_custom`: `esp_spiffs_mount` reports three events of a file system that is mounted, one
before them if it was formatted, or one or two of one that cannot be, and reading the configuration
reports up to three more; a start leaves three to six. `setDiagnosticCfg` includes `dia_cfg_save`, with its failures and a loss of
power before the file is cleared, after, and after the append. An answer is `count` events, of
which `transferred` were read by index so far; `getDiagnosticEvents_next` reads the next ones
from whatever the buffer holds then. The types of events stand for themselves; their codes,
values and times are left out.

**`Config`** (the seven configuration files). A behaviour is about one part of the program
(`subject`), since they do not touch each other's files: its settings in RAM, its file, and
one file whose name is longer and begins with the same letters. Each call of the file
system's wrapper (`Espfile`, `clear`, `n_append`, `Closed`, `remove`, `Sizes`) is an operator
from a record to the records it may leave, by failing or by a loss of power; the
`xxx_cfg_save` and `xxx_restore_cfg` are composed of them, and the routes that set, the start
and the routes of files are the actions. `promise` is what was saved last without a failure.

**`Clock`** (`espbot_timedate.cpp`). A tick of the RTC lasts any of `Periods`, and so does, independently,
what `system_rtc_clock_cali_proc` measures when the clock is read; both are fixed-point numbers
of `One` parts of a microsecond, as is the true time `now`. `pair` is what the RTC's memory
holds, `Since` the difference of two readings of a counter that turns over, `Micros` the code's
conversion of it with its two divisions, `Elapsed` what 32 bits keep of that. Every function
that reports an event reads the clock, and reading it saves the pair. `gap`, `ticks` and
`roundings` count what the bound of the error (`DriftBounded`) is made of: the ticks and the
readings since the time was known. It grows without end, as the code's error does: at 4096 and
1000 the three decimals alone may lose 5 parts of 4096 of a microsecond of every tick.

**`Queue`** and **`List`** (the two templates; every member function is an action) refine
**`Fifo`** and **`Deque`**. A place of the array that was never written holds anything; a list's
nodes are cells of a heap, and a deleted one may be given again. The other modules use
bounded sequences, which is what the refinements justify; `Cron` has its own cursor.

**`Json`**, **`JsonText`** and **`JsonRead`**. `Json` has the scanners (`SkipSpace`, `NameEnd`, `PairedEnd`,
...) on a text of characters, the two syntax checks and all getters of `JSONP` and
`JSONP_ARRAY`, whose state is a stretch of that text. `JsonText` tokenises a text and says
what a document is and what it means; `JsonRead` compares the two (`Accepted`, `ValueRead`).
One letter and two digits stand for all. The loops over pairs and elements are `Items`, what
they found after each turn, and the check of nested values is the function `Right` of the
brackets' places: no operator of `Json` is recursive, so that it can be proved about.

**`Gpio`** and **`PinMap`**: the words `gpio_cfg` as sets of pins, the routes with their
answers, and what the journal does to its LED; `PinMap` is a map from pins to modes.

**`Flash`** (`esp_spiffs_read`, `_write`, `_erase`). A byte is a bit; one step is one command to
the flash, which may fail with any part of it done. A behaviour is one call.

Modules named `MC...` instantiate these for TLC; `..._proofs` hold the theorems.
`HttpSend` and `Coordinator` each carry their own abstraction of the same event queue: the
other's signals appear as `other`.

Small modules are checked side by side with a large one: in `MCTransmission`
(`HttpSend`, `Queue`), `MCLive` (`HttpSend`, `List`), `MCAnswers` (`HttpClient`, `Json`),
`MCRequests` (`HttpServer`, `Config`, `Clock`), `MCTasks` (`Ota`, `Cron`) and `MCJournal`
(`Diagnostic`, `Gpio`, `Flash`) the variable `part`, chosen at the start, tells which of them
takes the steps of a behaviour. The states are the sum, not the product, of the parts', and
fairness is asked of an action only in the behaviours of its part. Where the program joins
two parts, the join is inside a module: `HttpSend` has the routes that drive it, `Diagnostic`
the pin and the file of the journal, `Cron` its list, `Ota` the client's contract.

## 3. Runs

Passing runs (distinct states; TLC completes each state space):

| run | instance | states | what it shows |
|---|---|---|---|
| `send_safety` | 2 connections, queues of 2, 2 messages of 1 or 3 pieces, 1 fault; ring buffer of 3 | 927,064 up to symmetry | flag, buffer and timer go together; one send at a time; every buffer owned once; pieces in order; whatever is queued has a wake-up; the ring buffer is a queue |
| `send_live` | 1 connection, `pending_send` and event queue of 1, 1 fault, late sent callbacks; list of 3 with 4 nodes | 148,978 | the queues drain; the list is a sequence |
| `coordinator` | 2 addresses, mDNS, event queue of 3, 1 request, and a reset asked for once more | 840,586 | `Settled`, `Announced`, `ReachableAsAp`, `Retrying`; `GetsServed`, `Restarts` |
| `tasks` | update: 2 connections, numbers 1 and 2, event queue of 2, 3 updates; cron: 2 jobs, 2 minutes, commands that add and delete, seconds around 0 and 30 | 409,968 | one answer per update, client and descriptor ownership, progress; every minute once by a timer that is late, no job twice in a walk, walks end |
| `http_client` | 3 clients, tables of 2, answers of 1 or 3 pieces, 2 faults; 7 documents and their damages | 125,983 | time-outs, associations, whole answers, refinement of `ClientContract`; what is accepted and what is read |
| `http_server` | 2 connections, requests of 1 or 3 pieces, header cut or not, list of 2, 4 requests, 1 fault; 2 values of a setting and a wrong one; an RTC of 7 ticks of two lengths | 1,510,356 up to symmetry | the routes get whole requests, each once, and every one that came whole; what was saved is restored, and no save loses a setting; the clock's error is bounded |
| `diagnostic` | buffer of 4, one event in a piece, reports as long as fewer than 5 events are counted since a restart, 1 fault in a behaviour; 2 pins; 2 sectors of 2 pages of 2 words of 2 bytes | 94,786 | LED, answer in pieces, refinement of `EventLog` and of `PinMap`; the flash changes in the range only |

Why the bounds are enough:

* `HttpSend`. Two messages of three pieces make each queue full while a send is under way,
  put two split contents behind each other, and let a piece of one message wait between
  pieces of the other. One fault per behaviour lets any single allocation, file read or
  `espconn_send` of a handler fail; two faults are only needed by `send_stall`. The liveness
  run makes `pending_send` and the event queue as short as they can be, so that every
  overflow path is taken, and lets the SDK call back a send that the 20 s timer gave up.
* `Queue`, `List`. Three places: an array empty, partly filled, full, and with its front in every
  place; a list with nothing, one element and one in the middle. Two contents tell an
  element from another. Four nodes let the heap give a deleted one again and have one to spare
  for the leak of a refused push.
* `Coordinator`. Three queue entries are filled by two disconnections' signals and one
  other, so every post can be lost; two addresses are what `old_ip` compares. A request
  (`MaxCommands`) is one call of a route; after the last one a reset under way may be asked for once more, so that
  each of its steps is done twice and its timer armed again.
* `Ota`. Three updates: one running, one that comes before the first engine signal was
  handled, one after. Fields 1 and 2 give all three results of the comparison.
* `Cron`. Two jobs and a list of at most two let a command delete its own job or the next
  one, and fill the list. The seconds are the two sides of the test `second < 30`. The timer is
  up to a second early or two late; `EveryMinute` judges the late ones (section 6).
* `HttpClient`. Three clients and tables of two: each table is full while a client asks.
  Three runs of the clients let an address be used again twice, so that its new client meets
  pieces of an old answer. Two faults are the two different failures of one response.
* `Json`. The documents have every kind of value, by name, in an array, and nested in each
  other twice; each is tried whole, cut at every length and with every other character in
  every place.
* `HttpServer`. Two connections interleave two requests in the list of two, which one
  unfinished request more fills. Four requests let an address be given again with pieces left
  behind while the other connection has a request of its own. The three shapes are a
  request in one piece, one in pieces, and one whose header is cut.
* `Config`. Nothing is bounded but the values: two that are accepted, one of them the default,
  and one that is not. There is no limit on failures and losses of power.
* `Clock`. Half a second is two microseconds, so that there is one below, on and above it; a
  microsecond has 4 parts and a factor one decimal, so that both divisions lose something
  (10 * 10 / 4 does not for 25, 11 * 10 / 4 does for 27.5). A tick lasts 2.5 or 2.75 microseconds and
  is measured as either. The counter of seven ticks turns over within the run's time of 72 parts,
  and six ticks, at 2.7, already exceed the 16 microseconds that are kept, as on the chip.
* `Diagnostic`. A buffer of four is turned over by a start that leaves five or six events, and
  by the second event after one that leaves three; an answer of three or four pieces has gaps
  for them, and a save without a file system turns it over at once. What reports nothing is not
  bounded, so that a buffer that was turned over is acknowledged and read, too. `error` is shown or not shown by the
  masks, `warn` is what `gpio_set` reports itself.
* `Gpio`, `Flash`. Two pins, one of them the LED's, are one bit beside another. Ranges begin at
  every byte, are empty, within a word, within a page and over three pages of three sectors,
  with memory on both sides of the file system's.

Deadlock is not checked where a part may have finished: messages, clients, requests, events,
the time and the single flash call are bounded. `coordinator`, `tasks` and the runs of their modules never
stop, and TLC checks that.

Runs in which TLC finds a statement of the sources violated by what the code does:

| run | statement | what happens |
|---|---|---|
| `send_stall` | "there will be no send, so trigger a check of pending send" (`espbot_http_routes.cpp:98`) | a continuation whose allocation fails only calls `http_response`; if that fails as well, nothing is sent and nothing posted, and the queues wait for an unrelated send |
| `ota_downgrade` | a device that is up to date is not updated (`espbot_api.yaml:903`) | digits are compared as text: 9 is newer than 10 |
| `cron_ids` | "find a free id" (`espbot_cron.cpp:312`) | the iterator is not rewound between identifiers, and two jobs get the same one |
| `server_reuse` | "the incomplete messages are queued and elaborated on completion" (`espbot_http.hpp:93-95`) | a connection ends in the middle of a request and leaves its pieces in the list; the next one at the same address has its pieces added to them, and its request is lost |
| `flash_read` | "discard initial bytes required by alignment (if any)" (`espbot_flash_functions.cpp:74-75`) | `buffer + align_bytes` counts words, not bytes: a read that begins inside a word returns other bytes, from beyond the buffer when it begins late in one |

The queue lengths and table sizes of all but the last are the code's own (16 entries in each send
queue, 8 signals in the event queue, 30 jobs, 4 pending requests), so none of them depends on
a small instance; `flash_read` needs no more than a page of two words. `Ota`'s `leaked`
and `twice`, `HttpClient`'s `spoiled` and `HttpServer`'s `broken` make the consequences of such
behaviour explicit, and the passing properties say what still holds. Other disagreements
between sources and code that were met on the way are told in section 6.

## 4. Fairness

Safety needs none. The liveness properties assume only what the SDK's loop does by itself:

* a posted signal is handled (`RunTask`, `ota_engine`), and an armed timer expires
  (`Timeout`, `ReconnectTimer`, `DelayTimer`, `graceful_reset`, `Timer`,
  `http_clt_connect_timeout`, `http_clt_send_req_timeout_function`);
* a handler that runs goes on (`Visit \/ EndWalk`: `cron_execute` is one call);
* `system_upgrade_start` calls back, since its own `check_times` limits it
  (`ota_completed_cb`); a connection attempt or a version request ends at the latest with
  the client's time-outs (`ConnectFails`, `NoVersion`), which `HttpClient` shows;
* a restart that was asked for comes (`Restart` in `Ota`).

Nothing obliges the SDK to call back a send, an access point to accept, a server to answer
or a route to be called. In `Coordinator` each fair action leaves the bound `commands` alone
so that fairness never depends on a request. All of it is weak fairness: these actions stay
enabled until they are taken. `Config`, `Clock`, the containers, `Json`, `Gpio` and `Flash` have safety
properties only: each of their actions is a call that returns.

`Drains` says: if from some time on no wake-up is lost, the queues empty again and again. A
wake-up is lost (`missed`) when `system_os_post` finds the event queue full, its result is
never tested, or by the paths of `send_stall`. `Answered` excludes in the same way an engine
whose own signal was lost, and names the cases.

## 5. Proofs

`tlapm` checks the theorems of eight modules, for every value of the constants that meets the
named assumption of its module (`SendConstants`, `CoordinatorConstants`, `OtaConstants`,
`CronConstants`, `ClockConstants`, `ClientConstants`, `ServerConstants`, `DiagnosticConstants`,
`QueueConstants`, `ListConstants`, `GpioConstants`, `ConfigConstants`: types and non-empty bounds; `NoX` is
none of the `X`; `FlashConstants`: the sizes of word, page and sector divide one another, and
the file system begins at a word's start, as `SYSTEM_PARTITION_DATA` does).
Each safety property is proved from an invariant that is preserved by every action; there is
one lemma or one step per action.

* **`HttpSend_proofs`**: `TypeCorrect`, `FlagCorrect`, `OneSendCorrect`, `WakeUpCorrect`,
  `OwnedCorrect`, `OrderCorrect`. Since
  handlers make several calls on the layer's state as a record, the invariant is a predicate of
  a record (`Good`), there is a lemma per operator (from a good record every record it may
  return is good and has as many messages as before), and the actions follow from them. The
  flag, the buffer and the timer are set and cleared together by every operator; a handler
  starts with the flag in any state. `OneSendCorrect` assumes `~LateSentCb`: if the SDK calls
  back a send it was thought to have forgotten, that callback clears the flag of the next send.
  `WakeUpCorrect` follows an alarm (a send outstanding, a check posted, or the mark of a lost
  one): `http_send_buffer` always leaves one, and a handler that took the last one off the event
  queue either finds nothing queued or ends in an operator that leaves one.
  `OwnedCorrect` and `OrderCorrect` share a second invariant (`State`), about one entry and
  another. The pieces of a message are in order (`Ord`): what was sent comes before what waits in
  `pending_send`, which is in order itself, and that before what the message's entry of
  `pending_split_send` will still cut (`Behind`); a message has one such entry at most. So no two
  entries can name one buffer. A buffer of the heap is in a queue, is being sent, leaked, or is
  in the hands of the running handler (`Mem`, with the set `H`, empty between handlers). While
  `send_remaining_msg` works, the entry at the head, which the caller takes off afterwards, does
  not count (`d` is 1) and its message is `Open` from the order of the next piece on.
* **`Coordinator_proofs`**: all five invariants, and `AnnouncedCorrect`. What is inductive is not that flags agree
  but that the last signal in the queue that speaks of the connection brings them into
  agreement: `UpOnTheWay`, `DownOnTheWay` and `ApOnTheWay` state it for the last such signal, and
  `Linked` ties it to the station. When the queue holds none, this is `Settled` and
  `ReachableAsAp`. `NewsOnTheWay` does the same for renewals and the address of mDNS: one that outlived its
  connection is about to be stopped (`StopOnTheWay`), one with another address to be stopped or
  started anew, and `untold` excuses only what no signal tells of. Signals
  that were lost are excluded through the history variables the properties name.
  `ResetCorrect`: a reset that was asked for keeps its timer armed and goes on from step to step
  to the restart.
* **`Ota_proofs`**: all four invariants. The engine has no object per update, so answers are
  counted: the answers given and the calls that may still give one (`Tokens`: signals in the
  queue, a client, a download) are together at most the updates accepted. `Owned` gives who
  owns client and descriptor in each status, until a second engine runs. `FlashCorrect`, which stands
  beside the update's proofs, shows `FlashExact`: its invariant (`Progress`) says how far a call has come,
  that the bytes written are the first ones, the sectors erased are those up to the current one,
  and what was read is what memory held. It rests on facts about quotients (`Division`,
  `Quotient`, `Below`, `Rounded`), stated for all sizes.
* **`Time_proofs`**: of `Cron`, `TypeCorrect`, `TimerCorrect`, `MinuteCorrect` and
  `NoRerunCorrect`; of `Clock`, `DriftCorrect`. The invariant `NextMinute`: after a
  timer on time the clock's second is below 30 and the armed period is 60 minus it, so that
  a timer late by less than 30 s is in the first half of the next minute. No job is run twice
  since the cursor stands on the current job and the jobs that ran are at earlier places of
  the list, whatever a command deletes; the search for a free identifier, which moves the same
  cursor, leaves it on the last job (`SearchEnds`). So every step of a walk that goes on leads to a
  later one of `MaxJobs` places (`WalkCorrect`). Of the clock the saved pair
  is followed (`Offset`). Between two readings its error falls by `Shortest` to `Longest` for
  every tick; a reading adds what it measures the counted ticks to, which is at most `Longest`
  each and at least `Shortest` less `Cut` (`MicrosIs`, `MeasuredIs`), and half a second; the count is
  right over one turn of the counter (`Since`). All this for every calibration, every size of
  the counter, of the 32 bits, of a second and of the fixed-point numbers: in the code's sizes,
  too, which TLC's integers cannot hold.
* **`HttpClient_proofs`**: all five invariants and `ContractCorrect`, the refinement of
  `ClientContract`. `ClientInv` joins types, timers, tables and connections. The list needs an invariant of
  its own (`Lists`): in every entry the pieces are in order (`Ordered`); a client that is not `spoiled`
  and has begun but not finished its answer has exactly one entry, which misses no piece
  (`AllKept`); entries of clients that have not begun are an earlier client's (`Fresh`). `http_client_recv` takes the first entry
  of an address, which the proof names as a minimum (`WFMin`).
  The second part is about `Json`, and every text. `InsideCorrect`: what a getter hands over,
  for any name or index, is a stretch inside the text, of the type and room asked for, or
  nothing. It is the text, not the getter's own stretch: brackets are paired up to the text's
  end. `LoopsCorrect`: over a text that the syntax check lets through, each turn of a loop finds a value behind those of
  the turns before (`Walked`) and one of them finds no more, and each index below an array's count
  has an element. `RememberedCorrect`: the element an array remembers never
  shows in an answer. From the scanners up there is a lemma per operator (`SkipIs`, ...,
  `PairIs`): what it returns is behind where it began. A value whose bracket has no pair is the
  exception (`Closed`); the syntax check refuses it, which makes `Right` the hinge of the
  proof (`RightWalked`). That a loop ends follows from counting (`ItemsAre`, `ChainGrows`): the
  turns are places of a sequence, and `Turns` is more than the text has commas. The invariant
  (`JsonInv`) says of the array that its count is the text's and that the element kept is what a search
  from the start finds (`ArrayInv`).
* **`HttpServer_proofs`**: all four invariants. An entry of a request that is not `broken` is the only
  one of its connection, holds the pieces received on it in order, and its request was not
  elaborated; conversely a request that is under way in pieces has its entry (`Underway`).
  `ListCorrect` is the refinement of `Deque` by `List`, which holds the incomplete requests. The
  invariant says that some function numbers the nodes so that they are linked both ways
  (`Linked`) and that a cursor that may be used is on one of them (`Pointed`). The mapping follows
  `next` from `m_front`; that it finds this function and no other is shown by a least
  counterexample (`ChainIs`). A node leaves or comes in one of three ways (`OutLinked`, `InLinked`,
  `BehindLinked`), and each call is then the call of `Deque`.
* **`Diagnostic_proofs`**: the three invariants and `LogCorrect`, the refinement of `EventLog`.
  The invariant is again a predicate of the record (`Sound`). Its core is `Held`: the event
  read by index k has number `added` - k, or there is none; it makes the array, the cursor and
  its wrap-around disappear from every later argument. `Reports(d, e, k)` says that e is d
  after k events, by index; every operator is shown to report nothing, one or two events, or five,
  and two such steps compose (`ReportsTwice`). `Answers` is the invariant of an answer under
  way, kept because indices only shift towards older events. `PinsCorrect` is the refinement of
  `PinMap` by `Gpio`: the words of bits are a map, pin by pin (`Mode`, `Drives`).
* **`Storage_proofs`**: `OrderCorrect`, the refinement of `Fifo` by `Queue`. The elements are those at
  `front`, `front` + 1, ... modulo the size (`QFilled`), and the place behind them is where the next
  one goes. Of `Config`: `ConfigTypesCorrect`, `DurableCorrect` and `SavesCorrect`. A save is
  followed through its calls (`EspfileStep`, `ClearStep`, `AppendStep`, `ClosedStep`): what it may
  leave is the whole text, with no error, or the old file, or a part of the new one (`Saved`).
  What a start may leave is `RestoredFrom`. The invariant adds to the two properties that the
  promised settings are in the file and that Wi-Fi's channel is never out of range (`Kept`):
  a channel read from a file would otherwise be refused and not restored.

Some theorems state more than a run: `TimerAgrees` (the timer is armed exactly while cron
runs), `ServerAgrees` (outside a reset the coordinator's status is the server's) and the type
invariants.

Only model-checked:

* The liveness properties `Drains`, `GetsServed`, `Restarts`, `Answered`, `WalkEnds` and `CalledBack`:
  fairness and `ENABLED` are out of the prover's reach. What they rest on beyond fairness, that the step
  which is fair stays possible and leads on, is for the most part a theorem: `WakeUpCorrect` for `Drains`,
  `SettledCorrect` for `GetsServed`, `ResetCorrect` for `Restarts`, `GoesOnCorrect` for `Answered`,
  `WalkCorrect` for `WalkEnds`, `TimerCorrect` and `AssociatedCorrect` of `HttpClient` for `CalledBack`.
* `Accepted` and `ValueRead` of `JsonRead`: that what the scanners find is what the grammar of
  `JsonText` means is an induction over the text, and the grammar is recursive. What needs
  neither, where the answers lie, that loops end and that nothing stale is answered, is proved.

The counterexamples of section 3 are TLC's. Of each statement they refute a theorem says where
it does hold, so that the code to be repaired is known:

* ids of cron jobs (`cron_ids`): `IdsCorrect` of `Time_proofs`, no two jobs have the same id as
  long as no job is deleted but the last of the list (`KeepsPlaces`): ids are then the jobs'
  places (`InOrder`), which is what the search for a free id takes for granted.
* releases (`ota_downgrade`): `CheckedCorrect` of `Ota_proofs`, a release that the
  automatic check has chosen is no older than the running one if the two names can be compared.
* a queue without a wake-up (`send_stall`): `WakeUpCorrect`, only a post that was refused or the paths that
  mark `missed` leave one.
* requests in pieces (`server_reuse`): the properties of `HttpServer_proofs` leave out only requests
  that are `broken`, which is how pieces of an earlier request are met.
* reads of the flash (`flash_read`): `FlashCorrect`, what is read is right if its address is aligned.

## 6. What is not modelled

Left out of the modelled parts:

* Dereferencing NULL where the code goes on after a failed allocation: `http_response` takes
  the length of a header `http_format_header` could not allocate, and `new Http_clt` is used
  unchecked. The chip faults and restarts.
* `http_response` with `free_msg` false tests `msg_header.ref` instead of `msg_short.ref`
  after copying (`espbot_http.cpp:438`): the modelled callers give ownership. The text of a
  short answer is allocated first in the model, also where the route sends a literal.
* `clean_pending_send` and `clean_pending_responses` are never called; nothing ever clears
  `pending_requests` but completion.
* `/wifi/disconnect` only changes the mode to station and access point, and is that action.
  Signals handled
  during a reset may start the server again before `system_restart`, against the comment at
  `espbot.cpp:289-295`; `ServerAgrees` stops at the reset.
* Wi-Fi: the scan for access points and its list. `Respond` in `HttpSend` has its delayed answer. A
  second scan overwrites the first one's callback and requester, and when the list finds
  no heap the count of access points is kept with a NULL list (`espbot_wifi.cpp:316-331`).
* `Ota`: data a server sends unasked; the user binary in use is a constant; a
  release without separators is `NoRelease`.
* `Cron`: a command that adds a job
  moves the cursor, and the jobs between are skipped in that walk: `NoRerun`
  says no job is run twice, not that each is run.
* `HttpClient`: `espconn_disconnect` ends the callbacks of a connection at once. The incomplete
  answer of a client that gave up stays in `pending_responses` until pieces of a later client
  at the same address complete it exactly; after `MaxPending` such entries no answer in
  pieces can be received. The model has both, and the properties name them.
* `HttpServer`: a method or header name cut inside its first bytes, a piece of content that
  begins with the name of a method (the code takes it for a new request), and requests sent
  before the answer to the last one.
* `Diagnostic`: the length of the events answer, which is computed at its start from events
  that may be others when their text is written; the unset bytes of a fresh buffer whose end
  `getDiagnosticEvents_next` looks for with `os_strlen`; the old value of the bit rate that
  `dia_set_uart_0_bitrate` compares with before it is set. The destructor of `Cfgfile` frees a text
  in flash after a failed allocation, which the heap ignores or not. The LED is lit too long in
  two cases: with the mask set to nothing it stays as it is, and setting a mask lights it for
  events that were acknowledged (`espbot_diagnostic.cpp:176-182`).
* `Config`: the text of a file beyond which settings it has; SPIFFS' own recovery after a loss of
  power: a call that was interrupted was done or not done.
* `Clock`: a time of zero that is set by hand within a second of SNTP's start. SNTP's time is taken
  for the true one, and the RTC's ticks for all of the same length between two steps of a
  behaviour.
* `Json`: escapes (the code has none), and numbers beyond their digits.
* `Gpio`: the branches for types and levels that no caller asks for.
* `Flash`: `espbot_zalloc` failing, after which the code writes to NULL and the chip restarts. The
  boundary checks round address and length down, so that a range may pass the end of
  the file system by a few bytes; the model has them as they are.

What the sources say, and a few steps of the code do not keep, without a run of its own:

* "msg must be allocated on heap" (`espbot_http.hpp:161`): the last piece of the events answer
  is stored with the literal `""` (`espbot_http_routes.cpp:704`), to which clearing the queues
  applies `delete[]`. `OwnedOnce` is about heap buffers.
* "checkout if the IP address changed", "informing everybody that the IP address changed"
  (`espbot_wifi.cpp:103-105`): the address is compared with `old_ip`, which no renewal updates, so that
  after a, b, a nobody is informed of the second change and the mDNS responder keeps b. `untold`
  marks it, and `Announced` is silent about it.
* "you are early -> next minute period in (60 + (60 - timestamp)) seconds" (`espbot_cron.cpp:271`): a
  timer that fires before the full minute is armed past the coming minute, but `cron_execute`
  compares the jobs with the clock, which still shows the old one: the old minute's jobs run
  twice, the coming minute's never. The model has early timers, and `EveryMinute` counts only
  walks on time, from a timer that is late.
* "start_upgrade called while OTA in progress" (`espbot_ota.cpp:488`): two requests before the
  first engine signal both pass the test for idle, and a second client, then a second download
  is started over the first. `leaked` and `twice` mark it.
* The API may make the LED's pin an input although `espbot_diagnostic.hpp:32` takes it as an
  output; an event shown on the LED then calls `gpio_set`, which reports a warning, and so on
  until the stack overflows. `Diagnostic` restarts there.

Met in passing, where the sources promise nothing:

* A save clears the file and appends to it: a loss of power between the two loses the old
  settings and the new ones (`espbot_cron.cpp:535` and the six others). `Durable` is about saves
  that ended. The routes answer 200 without looking at what the save returned, and a failed
  close in a destructor is seen by nobody.
* mDNS that is enabled through its route while there is no network is started with 0.0.0.0 and
  counts as running, so that `mdns_start` does nothing when the station gets its address
  (`espbot_mdns.cpp:134`, `espbot.cpp:85`): it announces 0.0.0.0 until it is started anew. `untold`
  marks it, and `Announced` is silent about it.
* When two ask for an update, the second requester replaces the first, who is never answered
  (`espbot_http_routes.cpp:1273`); a version request that finds no heap has no time-out
  (`espbot_http_client.cpp:346`), and a signal that finds the event queue full or a download that the SDK
  refuses ends the engine's work where it stands (`espbot.cpp:342`, `espbot_ota.cpp:418`). `Answered` and `GoesOn`
  name these cases. A Wi-Fi signal that is lost in the same way leaves server and services as they are
  (`lost`).
* A sent callback that came after the 20 s timer would take the flag of the next send for its
  own. Whether the SDK does this is not documented; one send at a time is checked and proved for
  an SDK that does not.
* `Espfile::size` matches by prefix (`espbot_spiffs.cpp:480`), and a file system that does not
  mount for any reason but two is formatted. A short configuration beside a longer-named file is
  read as far as that one's size, which `Durable` exempts.
* A `wifi.cfg` with `ap_pwd` and without `ap_channel` loses the former; `setWifiApCfg` saves the
  station's credentials as they are in RAM, tried or not.
* A `gpio` route may answer 500 after it changed the pin. `Queue::next` returns a pointer that was never
  set beyond the elements of a queue that was never full, and `List`'s push on a full list without
  override leaks its node; no caller does either.
* A text that begins with an empty object is accepted by the syntax check without a look
  at what follows (`Accepted` names it).

Parts left aside: UART and timer drivers (direct register access, one step); flash strings
and utilities (sequential text, the modelled parts use only their results); SPIFFS itself,
which is vendored, and the check of the file system, which is its; memory monitor and
profiler (counters nobody reads back); the heartbeat; the sample application and the SDK,
except as the modelled parts call it, which `PROJECT.json` marks external.

## 7. Plan

Written, in this order: `HttpSend`, `Coordinator`, `Ota`, `Cron`, `HttpClient` with
`ClientContract`, `HttpServer`, `Diagnostic` with `EventLog`, `Config`, `Clock`, `Queue` with `Fifo`, `List`
with `Deque`, `Json` with `JsonText`, `Gpio` with `PinMap`, `Flash`; the proofs of section 5. What is left:

1. The scan for access points, with overlapping requests.
2. A composition of `Config` with a model of SPIFFS' pages, to justify that an interrupted call
   was done or not done.
