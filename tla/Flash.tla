--------------------------------- MODULE Flash ---------------------------------
(***************************************************************************)
(* The functions of espbot_flash_functions.cpp that the file system reads, *)
(* writes and erases the flash memory with: any range of bytes, although   *)
(* the SDK's own functions want aligned addresses and whole sectors.       *)
(*                                                                         *)
(* A byte is one bit: writing can only clear it, erasing sets it.  One     *)
(* step is one command to the flash: it may fail, or the power may go off, *)
(* when part of it is done.  What a call does depends on nothing but what  *)
(* it finds in memory, so that a behaviour is one call.  The buffer is     *)
(* there: without heap the device restarts before any command.             *)
(***************************************************************************)
EXTENDS Integers, Sequences

CONSTANTS
  LOG_PAGE_SIZE, FLASH_SECT_SIZE,
  FS_ALIGN_BYTES,       \* and the size of a uint32
  FS_START, FS_END,     \* the file system's part of the memory
  FlashTop,             \* bound: where the memory ends
  Images,               \* what may be in memory
  Sources,              \* what may be written: functions from places to bits
  Lengths               \* bytes asked for

ASSUME FlashConstants ==
  /\ {LOG_PAGE_SIZE, FLASH_SECT_SIZE, FS_ALIGN_BYTES} \subseteq Nat \ {0}
  /\ LOG_PAGE_SIZE % FS_ALIGN_BYTES = 0 /\ FLASH_SECT_SIZE % LOG_PAGE_SIZE = 0
  /\ FS_START \in Nat /\ FS_START % FS_ALIGN_BYTES = 0
  /\ FS_END \in Nat /\ Lengths \subseteq Nat
  /\ FS_END + 2 * FLASH_SECT_SIZE <= FlashTop

Memory == 0..(FlashTop - 1)

VARIABLES
  flash,        \* the bit of each byte
  asked,        \* the call: what, t_addr, t_size and the bytes to write
  job,          \* its variables: start_addr, align_bytes, the bytes left, and those read
  returned,     \* what it returned; "busy" while it runs
  before        \* history: the memory when it began

flashVars == <<flash, asked, job, returned, before>>

Bytes(a, n) == a..(a + n - 1)
Cleared(old, new) == IF old = 1 THEN new ELSE 0

\* The bytes that are read, but for those beyond the buffer, which are anything.
Copy(from, n) == [k \in 1..n |-> IF from + k <= LOG_PAGE_SIZE
                                 THEN flash[job.start + from + k - 1] ELSE "wild"]

-----------------------------------------------------------------------------
\* start_addr and the boundary checks, the same in all three.
Aligned(a) == (a \div FS_ALIGN_BYTES) * FS_ALIGN_BYTES
OutOfBoundary(a, n) == \/ Aligned(a) < FS_START \/ Aligned(a) >= FS_END
                       \/ Aligned(a) + Aligned(n) > FS_END

FlashInit ==
  /\ flash \in Images /\ before = flash /\ returned = "nothing"
  /\ asked = [op |-> "none"] /\ job = [left |-> 0]

\* The file system calls one of the three.
Call(op, a, n, src) ==
  /\ returned = "nothing"
  /\ asked' = [op |-> op, addr |-> a, len |-> n, src |-> src]
  /\ LET u == IF op = "erase" THEN FLASH_SECT_SIZE ELSE FS_ALIGN_BYTES
     IN  job' = [start |-> (a \div u) * u, skip |-> a % u, left |-> n, dst |-> <<>>]
  /\ returned' = IF OutOfBoundary(a, n) THEN "boundary error" ELSE "busy"
  /\ UNCHANGED <<flash, before>>

FlashCalls == \E op \in {"read", "write", "erase"}, a \in Memory, n \in Lengths, src \in Sources :
           a + n <= FS_END + FS_ALIGN_BYTES /\ Call(op, a, n, src)

\* What is left after a page, or a sector, of u bytes.
Here(u) == IF job.left > u - job.skip THEN u - job.skip ELSE job.left

Onward_Skipping(u, more) ==      \* mutant: align_bytes stays for the next page
  job' = [job EXCEPT !.left = @ - Here(u), !.start = @ + u, !.dst = @ \o more]

Onward(u, more) ==
  job' = [job EXCEPT !.left = @ - Here(u), !.start = @ + u, !.skip = 0, !.dst = @ \o more]

Stops == returned' \in {"error", "timeout", "off"} /\ UNCHANGED job

\* A command that fails has reached its first k bytes, a failed read has changed nothing.
Command(u, new) ==
  \/ /\ Onward(u, <<>>) /\ UNCHANGED returned
     /\ flash' = [a \in Memory |-> IF a \in Bytes(job.start, u) THEN new[a] ELSE flash[a]]
  \/ /\ Stops
     /\ \E k \in 0..u :
          flash' = [a \in Memory |-> IF a \in Bytes(job.start, k) THEN new[a] ELSE flash[a]]

Running(op) == /\ asked.op = op /\ returned = "busy" /\ job.left > 0
               /\ UNCHANGED <<asked, before>>

\* buffer + align_bytes: buffer points to words, not to bytes.
esp_spiffs_read ==
  /\ Running("read") /\ UNCHANGED flash
  /\ \/ /\ Onward(LOG_PAGE_SIZE, Copy(FS_ALIGN_BYTES * job.skip, Here(LOG_PAGE_SIZE)))
        /\ UNCHANGED returned
     \/ Stops

\* A page is read, changed from align_bytes on, and written back.
Done == asked.len - job.left
esp_spiffs_write ==
  /\ Running("write")
  /\ LET from == job.start + job.skip
         new(a) == asked.src[Done + a - from + 1]
     IN  Command(LOG_PAGE_SIZE,
                 [a \in Memory |-> IF a \in Bytes(from, Here(LOG_PAGE_SIZE))
                                   THEN Cleared(flash[a], new(a)) ELSE flash[a]])

esp_spiffs_erase == /\ Running("erase")
                    /\ Command(FLASH_SECT_SIZE, [a \in Memory |-> 1])

\* The bytes are all read, written or erased.
Returned == /\ returned = "busy" /\ job.left = 0 /\ returned' = "ok"
            /\ UNCHANGED <<flash, asked, job, before>>

FlashNext == FlashCalls \/ esp_spiffs_read \/ esp_spiffs_write \/ esp_spiffs_erase \/ Returned
FlashSpec == FlashInit /\ [][FlashNext]_flashVars

-----------------------------------------------------------------------------
Range == Bytes(asked.addr, asked.len)
Inside == asked.addr \in FS_START..(FS_END - 1) /\ asked.addr + asked.len <= FS_END
TheBytes == [k \in 1..asked.len |-> before[asked.addr + k - 1]]

\* The sectors that erasing a range must take with it.
Sectors == {a \in Memory : \E b \in Range : a \div FLASH_SECT_SIZE = b \div FLASH_SECT_SIZE}

\* Whatever the alignment, the length and the pages a range falls in, and wherever a
\* command fails or the power goes off: only bytes of the range that were to be written
\* are cleared, only the sectors of the range are erased, a call that returned well has
\* done all of it, an aligned range is read as it is, and none of the file system's own
\* ranges is refused.
FlashExact == returned # "nothing" =>
  /\ Inside => returned # "boundary error"
  /\ \A a \in Memory :
       CASE asked.op = "write" /\ a \in Range ->
              LET new == Cleared(before[a], asked.src[a - asked.addr + 1])
              IN  flash[a] = new \/ (flash[a] = before[a] /\ returned # "ok")
         [] asked.op = "erase" /\ a \in Sectors ->
              flash[a] = 1 \/ (flash[a] = before[a] /\ returned # "ok")
         [] OTHER -> flash[a] = before[a]
  /\ asked.op = "read" /\ returned = "ok" /\ asked.addr % FS_ALIGN_BYTES = 0
       => job.dst = TheBytes

\* A promise the code does not keep.

\* "discard initial bytes required by alignment (if any) and copy to destination": what
\* is read are the bytes that were asked for.
ReadExact == asked.op = "read" /\ returned = "ok" /\ Inside => job.dst = TheBytes
================================================================================
