------------------------------ MODULE Ota_proofs ------------------------------
(***************************************************************************)
(* Theorems about Ota for every number of connections, every length of the *)
(* task queue and every set of releases, and about Flash for every size of *)
(* words, pages and sectors, every range and every content.                *)
(***************************************************************************)
EXTENDS Ota, Flash, TLAPS

-----------------------------------------------------------------------------
(***************************************************************************)
(* Quotients.                                                              *)
(***************************************************************************)
LEMMA Division ==
  ASSUME NEW u \in Nat \ {0}, NEW a \in Nat
  PROVE  /\ a \div u \in Nat /\ a % u \in 0..(u - 1)
         /\ a = (a \div u) * u + (a % u)
OBVIOUS

LEMMA Quotient ==
  ASSUME NEW u \in Nat \ {0}, NEW m \in Nat, NEW a \in Nat
  PROVE  a \div u = m <=> m * u <= a /\ a < m * u + u
OBVIOUS

LEMMA Below ==
  ASSUME NEW u \in Nat \ {0}, NEW m \in Nat, NEW a \in Nat
  PROVE  a \div u < m <=> a < m * u
OBVIOUS

LEMMA Rounded ==
  ASSUME NEW u \in Nat \ {0}, NEW a \in Nat
  PROVE  (a \div u) * u \in Nat /\ (a \div u) * u <= a
OBVIOUS

LEMMA Rounding ==
  ASSUME NEW u \in Nat \ {0}, NEW a \in Nat, NEW b \in Nat, a <= b
  PROVE  (a \div u) * u <= (b \div u) * u
OBVIOUS

LEMMA Multiple ==
  ASSUME NEW u \in Nat \ {0}, NEW w \in Nat \ {0}, w % u = 0
  PROVE  u <= w
OBVIOUS

LEMMA Sizes ==
  /\ LOG_PAGE_SIZE \in Nat \ {0} /\ FLASH_SECT_SIZE \in Nat \ {0}
  /\ FS_ALIGN_BYTES \in Nat \ {0}
  /\ FS_ALIGN_BYTES <= LOG_PAGE_SIZE /\ LOG_PAGE_SIZE <= FLASH_SECT_SIZE
  /\ FS_START \in Nat /\ FS_END \in Nat
<1>1. /\ LOG_PAGE_SIZE \in Nat \ {0} /\ FLASH_SECT_SIZE \in Nat \ {0}
      /\ FS_ALIGN_BYTES \in Nat \ {0}
      /\ LOG_PAGE_SIZE % FS_ALIGN_BYTES = 0 /\ FLASH_SECT_SIZE % LOG_PAGE_SIZE = 0
      /\ FS_START \in Nat /\ FS_END \in Nat
  BY FlashConstants
<1> QED BY <1>1, Multiple

-----------------------------------------------------------------------------
(***************************************************************************)
(* What a call has done when job.left bytes are left.                      *)
(***************************************************************************)
Unit == IF asked.op = "erase" THEN FLASH_SECT_SIZE ELSE LOG_PAGE_SIZE

Called ==
  /\ asked.op \in {"read", "write", "erase"}
  /\ asked.addr \in Nat /\ asked.len \in Nat

Placed ==
  /\ job = [start |-> job.start, skip |-> job.skip, left |-> job.left, dst |-> job.dst]
  /\ job.left \in 0..asked.len /\ job.start \in Nat /\ job.skip \in 0..(Unit - 1)
  /\ job.left > 0 => job.start + job.skip = asked.addr + Done
  /\ returned = "ok" => job.left = 0

\* Bytes are written from the front on, sectors erased up to job.start, whole ones, and
\* the bytes read from the front on are in dst.
WrittenSoFar ==
  \A a \in Memory : flash[a] = IF a \in Bytes(asked.addr, Done)
                               THEN Cleared(before[a], asked.src[a - asked.addr + 1])
                               ELSE before[a]
ErasedSoFar ==
  /\ \E m \in Nat : job.start = m * FLASH_SECT_SIZE
  /\ \A a \in Memory : flash[a] = IF a \in Sectors /\ a < job.start THEN 1 ELSE before[a]
  /\ job.left = 0 => \A b \in Range : b < job.start
ReadSoFar ==
  /\ flash = before
  /\ asked.addr % FS_ALIGN_BYTES = 0 =>
       job.skip = 0 /\ job.dst = [k \in 1..Done |-> before[asked.addr + k - 1]]

Progress ==
  /\ Placed
  /\ asked.op = "write" => WrittenSoFar
  /\ asked.op = "erase" => ErasedSoFar
  /\ asked.op = "read" => ReadSoFar

FlashInv ==
  /\ returned = "nothing" => flash = before
  /\ returned # "nothing" => Called
  /\ IF returned \in {"busy", "ok"} THEN Progress ELSE FlashExact

-----------------------------------------------------------------------------
\* A call that goes well, up to here or to its end.
LEMMA ProgressExact ==
  ASSUME Called, Progress, returned \in {"busy", "ok"}
  PROVE  FlashExact
<1>1. Done \in Nat /\ Done <= asked.len /\ (returned = "ok" => Done = asked.len)
  BY DEF Progress, Placed, Called, Done
<1>2. ASSUME NEW a \in Memory, asked.op = "write", a \in Range
      PROVE  LET new == Cleared(before[a], asked.src[a - asked.addr + 1])
             IN  flash[a] = new \/ (flash[a] = before[a] /\ returned # "ok")
  <2>1. returned = "ok" => a \in Bytes(asked.addr, Done)
    BY <1>1, <1>2 DEF Range
  <2> QED BY <1>2, <2>1 DEF Progress, WrittenSoFar
<1>3. ASSUME NEW a \in Memory, asked.op = "erase", a \in Sectors
      PROVE  flash[a] = 1 \/ (flash[a] = before[a] /\ returned # "ok")
  <2>1. CASE a < job.start
    BY <1>3, <2>1 DEF Progress, ErasedSoFar
  <2>2. CASE ~(a < job.start) /\ returned # "ok"
    BY <1>3, <2>2 DEF Progress, ErasedSoFar
  <2>3. CASE ~(a < job.start) /\ returned = "ok"
    <3>1. PICK b \in Range : a \div FLASH_SECT_SIZE = b \div FLASH_SECT_SIZE
      BY <1>3 DEF Sectors
    <3>2. PICK m \in Nat : job.start = m * FLASH_SECT_SIZE
      BY <1>3 DEF Progress, ErasedSoFar
    <3>3. b < job.start
      BY <1>3, <2>3 DEF Progress, ErasedSoFar, Placed
    <3>4. a \in Nat /\ b \in Nat
      BY Sizes, <3>1 DEF Memory, Range, Bytes, Called
    <3>5. b \div FLASH_SECT_SIZE < m
      BY Sizes, <3>2, <3>3, <3>4, Below
    <3>6. a < m * FLASH_SECT_SIZE
      BY Sizes, <3>1, <3>4, <3>5, Below
    <3> QED BY <2>3, <3>2, <3>6
  <2> QED BY <2>1, <2>2, <2>3
<1>4. ASSUME NEW a \in Memory, ~(asked.op = "write" /\ a \in Range),
             ~(asked.op = "erase" /\ a \in Sectors)
      PROVE  flash[a] = before[a]
  <2>1. CASE asked.op = "write"
    <3>1. a \notin Bytes(asked.addr, Done)
      BY <1>1, <1>4, <2>1 DEF Range, Bytes, Memory, Called
    <3> QED BY <2>1, <3>1 DEF Progress, WrittenSoFar
  <2>2. CASE asked.op = "erase"
    BY <1>4, <2>2 DEF Progress, ErasedSoFar
  <2>3. CASE asked.op = "read"
    BY <2>3 DEF Progress, ReadSoFar
  <2> QED BY <2>1, <2>2, <2>3 DEF Called
<1>5. asked.op = "read" /\ returned = "ok" /\ asked.addr % FS_ALIGN_BYTES = 0 => job.dst = TheBytes
  BY <1>1 DEF Progress, ReadSoFar, TheBytes
<1> QED BY <1>2, <1>3, <1>4, <1>5 DEF FlashExact

-----------------------------------------------------------------------------
\* The call begins.
LEMMA CallInv ==
  ASSUME FlashInv, NEW op \in {"read", "write", "erase"}, NEW a \in Memory,
         NEW n \in Lengths, NEW src, Call(op, a, n, src)
  PROVE  FlashInv'
<1> DEFINE u == IF op = "erase" THEN FLASH_SECT_SIZE ELSE FS_ALIGN_BYTES
<1>1. a \in Nat /\ n \in Nat /\ u \in Nat \ {0}
  BY Sizes, FlashConstants DEF Memory
<1>2. /\ asked' = [op |-> op, addr |-> a, len |-> n, src |-> src]
      /\ job' = [start |-> (a \div u) * u, skip |-> a % u, left |-> n, dst |-> <<>>]
      /\ returned' = IF OutOfBoundary(a, n) THEN "boundary error" ELSE "busy"
      /\ flash' = flash /\ before' = before /\ flash = before
  BY DEF Call, FlashInv
<1>3. /\ asked'.op = op /\ asked'.addr = a /\ asked'.len = n
      /\ job'.skip = a % u /\ job'.left = n /\ job'.dst = <<>>
  BY <1>2
<1>4. Called'
  BY <1>1, <1>3 DEF Called
<1> DEFINE q == a \div u
<1>5. /\ a % u \in 0..(u - 1) /\ a = q * u + (a % u) /\ q \in Nat
      /\ job'.start = q * u
  BY <1>1, <1>2, Division
<1>6. q * u \in Nat
  BY <1>1, Rounded
<1>7. Inside' => ~OutOfBoundary(a, n)
  <2> SUFFICES ASSUME Inside' PROVE ~OutOfBoundary(a, n)
    OBVIOUS
  <2>1. a \in FS_START..(FS_END - 1) /\ a + n <= FS_END
    BY <1>3 DEF Inside
  <2>2. Aligned(a) \in Nat /\ Aligned(n) \in Nat /\ Aligned(a) <= a /\ Aligned(n) <= n
    BY <1>1, Sizes, Rounded DEF Aligned
  <2>3. FS_START <= Aligned(a)
    <3>1. FS_START = (FS_START \div FS_ALIGN_BYTES) * FS_ALIGN_BYTES
      BY Sizes, Division, FlashConstants
    <3> QED BY <1>1, <2>1, <3>1, Sizes, Rounding DEF Aligned
  <2> QED BY <1>1, <2>1, <2>2, <2>3, Sizes DEF OutOfBoundary
<1> HIDE DEF u, q
<1>8. Placed'
  <2>1. u <= Unit' /\ Unit' \in Nat
    BY <1>3, Sizes DEF Unit, u
  <2>2. Done' = 0
    BY <1>1, <1>3 DEF Done
  <2>3. job' = [start |-> job'.start, skip |-> job'.skip, left |-> job'.left, dst |-> job'.dst]
    BY <1>2
  <2>4. job'.start + job'.skip = a
    BY <1>1, <1>3, <1>5, <1>6
  <2>5. returned' # "ok"
    BY <1>2
  <2>6. job'.skip \in 0..(Unit' - 1)
    BY <1>1, <1>3, <1>5, <2>1
  <2>7. job'.left \in 0..asked'.len /\ job'.start \in Nat
    BY <1>1, <1>3, <1>5, <1>6
  <2>8. asked'.addr + Done' = a
    BY <1>1, <1>3, <2>2
  <2> HIDE DEF u, q
  <2> QED BY <2>3, <2>4, <2>5, <2>6, <2>7, <2>8 DEF Placed
<1>9. Progress'
  <2>1. Done' = 0
    BY <1>1, <1>3 DEF Done
  <2>2. WrittenSoFar'
    <3>1. \A x : x \notin Bytes(asked'.addr, Done')
      BY <1>1, <1>3, <2>1 DEF Bytes
    <3> QED BY <1>2, <3>1 DEF WrittenSoFar
  <2>3. ASSUME op = "erase" PROVE ErasedSoFar'
    <3>1. u = FLASH_SECT_SIZE
      BY <2>3 DEF u
    <3>2. \E m \in Nat : job'.start = m * FLASH_SECT_SIZE
      BY <1>5, <3>1
    <3>3. \A x \in Memory : x \in Sectors' => ~(x < job'.start)
      <4> SUFFICES ASSUME NEW x \in Memory, NEW b \in Range',
                          x \div FLASH_SECT_SIZE = b \div FLASH_SECT_SIZE
                   PROVE  ~(x < q * u)
        BY <1>5 DEF Sectors
      <4>1. b \in Nat /\ a <= b /\ x \in Nat
        BY <1>1, <1>3 DEF Range, Bytes, Memory
      <4>2. q * u <= (b \div FLASH_SECT_SIZE) * FLASH_SECT_SIZE
        BY <1>1, <3>1, <4>1, Rounding, Sizes DEF q
      <4>3. (x \div FLASH_SECT_SIZE) * FLASH_SECT_SIZE \in Nat
            /\ (x \div FLASH_SECT_SIZE) * FLASH_SECT_SIZE <= x
        BY <4>1, Rounded, Sizes
      <4> DEFINE y == (x \div FLASH_SECT_SIZE) * FLASH_SECT_SIZE
                 z == q * u
      <4>4. z <= y /\ y \in Nat /\ y <= x /\ z \in Nat
        BY <1>6, <4>2, <4>3
      <4> HIDE DEF y, z
      <4>5. ~(x < z)
        BY <4>1, <4>4
      <4> QED BY <4>5 DEF z
    <3>4. job'.left = 0 => Range' = {}
      BY <1>1, <1>3 DEF Range, Bytes
    <3> QED BY <1>2, <3>2, <3>3, <3>4 DEF ErasedSoFar
  <2>4. ASSUME op = "read" PROVE ReadSoFar'
    <3>1. u = FS_ALIGN_BYTES
      BY <2>4 DEF u
    <3>2. job'.dst = [k \in 1..Done' |-> before'[asked'.addr + k - 1]]
      BY <1>3, <2>1
    <3> QED BY <1>2, <1>3, <3>1, <3>2 DEF ReadSoFar
  <2> QED BY <1>3, <1>8, <2>2, <2>3, <2>4 DEF Progress
<1>10. returned' = "boundary error" => FlashExact'
  BY <1>2, <1>7 DEF FlashExact
<1> QED BY <1>2, <1>4, <1>9, <1>10 DEF FlashInv

-----------------------------------------------------------------------------
\* A page, or a sector, more.
LEMMA OnwardPlaced ==
  ASSUME Called, Placed, returned = "busy", job.left > 0, NEW more, Onward(Unit, more),
         UNCHANGED <<asked, returned>>
  PROVE  /\ Placed' /\ Called' /\ Unit \in Nat \ {0}
         /\ Here(Unit) \in 1..(Unit - job.skip) /\ Here(Unit) <= job.left
         /\ Done \in Nat /\ Done' = Done + Here(Unit) /\ Done' <= asked.len
         /\ job'.start = job.start + Unit /\ job'.skip = 0 /\ job'.dst = job.dst \o more
         /\ job'.left = job.left - Here(Unit)
         /\ job'.left > 0 => Here(Unit) = Unit - job.skip
<1>1. Unit \in Nat \ {0} /\ Unit' = Unit
  BY Sizes DEF Unit
<1>2. /\ job.left \in Nat /\ job.left <= asked.len /\ job.start \in Nat /\ job.skip \in Nat
      /\ job.skip < Unit /\ job.start + job.skip = asked.addr + Done
      /\ asked.len \in Nat /\ asked.addr \in Nat
  BY <1>1 DEF Placed, Called
<1> DEFINE h == Here(Unit)
<1>3. /\ h \in 1..(Unit - job.skip) /\ h <= job.left
      /\ job.left - h > 0 => h = Unit - job.skip
  BY <1>1, <1>2 DEF Here
<1>4. job' = [start |-> job.start + Unit, skip |-> 0, left |-> job.left - h, dst |-> job.dst \o more]
  <2>1. job = [start |-> job.start, skip |-> job.skip, left |-> job.left, dst |-> job.dst]
    BY DEF Placed
  <2>2. job' = [job EXCEPT !.left = @ - h, !.start = @ + Unit, !.skip = 0, !.dst = @ \o more]
    BY DEF Onward
  <2> HIDE DEF h
  <2> QED BY <2>1, <2>2
<1>5. /\ job'.start = job.start + Unit /\ job'.skip = 0 /\ job'.left = job.left - h
      /\ job'.dst = job.dst \o more
      /\ job' = [start |-> job'.start, skip |-> job'.skip, left |-> job'.left, dst |-> job'.dst]
  BY <1>4
<1> HIDE DEF h
<1>6. Done \in Nat /\ Done' = Done + h /\ Done' <= asked.len
  BY <1>2, <1>3, <1>5 DEF Done
<1>7. Placed'
  <2>1. job'.left > 0 => job'.start + job'.skip = asked'.addr + Done'
    <3>1. job'.left > 0 => h = Unit - job.skip
      BY <1>3, <1>5
    <3>2. job'.start + job'.skip = job.start + Unit /\ asked'.addr + Done' = asked.addr + Done + h
      BY <1>1, <1>2, <1>3, <1>5, <1>6
    <3>3. Unit \in Nat /\ job.start \in Nat /\ job.skip \in Nat /\ asked.addr \in Nat /\ Done \in Nat
      BY <1>1, <1>2, <1>6
    <3> QED BY <1>2, <3>1, <3>2, <3>3
  <2>2. job'.left \in 0..asked'.len /\ job'.start \in Nat /\ job'.skip \in 0..(Unit' - 1)
    BY <1>1, <1>2, <1>3, <1>5
  <2> QED BY <1>5, <2>1, <2>2 DEF Placed
<1>8. Called'
  BY DEF Called
<1> QED BY <1>1, <1>3, <1>5, <1>6, <1>7, <1>8 DEF h

LEMMA ReadInv ==
  ASSUME FlashInv, esp_spiffs_read
  PROVE  FlashInv'
<1>1. /\ asked.op = "read" /\ returned = "busy" /\ job.left > 0 /\ flash' = flash
      /\ asked' = asked /\ before' = before
      /\ Called /\ Placed /\ flash = before
  BY DEF FlashInv, esp_spiffs_read, Running, Progress, ReadSoFar
<1>2. Called'
  BY <1>1 DEF Called
<1>3. CASE Stops
  <2>1. FlashExact'
    BY <1>1, <1>3 DEF Stops, FlashExact, Called
  <2> QED BY <1>2, <1>3, <2>1 DEF FlashInv, Stops
<1> DEFINE n == Here(LOG_PAGE_SIZE)
           more == Copy(FS_ALIGN_BYTES * job.skip, n)
<1>4. CASE Onward(LOG_PAGE_SIZE, more) /\ returned' = returned
  <2>1. Unit = LOG_PAGE_SIZE
    BY <1>1 DEF Unit
  <2>2. /\ Placed' /\ Unit \in Nat \ {0}
        /\ n \in 1..(Unit - job.skip)
        /\ Done \in Nat /\ Done' = Done + n
        /\ job'.skip = 0 /\ job'.dst = job.dst \o more
    BY <1>1, <1>4, <2>1, OnwardPlaced
  <2>3. ASSUME asked.addr % FS_ALIGN_BYTES = 0
        PROVE  job'.dst = [k \in 1..Done' |-> before[asked.addr + k - 1]]
    <3>1. job.skip = 0 /\ job.dst = [k \in 1..Done |-> before[asked.addr + k - 1]]
      BY <1>1, <2>3 DEF FlashInv, Progress, ReadSoFar
    <3>2. job.start = asked.addr + Done
      BY <1>1, <3>1 DEF Placed
    <3>3. FS_ALIGN_BYTES * job.skip = 0
      BY <3>1, Sizes
    <3>4. \A k \in 1..n : 0 + k <= LOG_PAGE_SIZE
      BY <2>1, <2>2, <3>1
    <3>5. more = [k \in 1..n |-> flash[job.start + 0 + k - 1]]
      BY <3>3, <3>4 DEF Copy
    <3>6. \A k \in 1..n : job.start + 0 + k - 1 = asked.addr + (Done + k) - 1
      BY <1>1, <2>2, <3>2 DEF Called
    <3> DEFINE x == [k \in 1..Done |-> before[asked.addr + k - 1]]
               y == [k \in 1..n |-> before[asked.addr + (Done + k) - 1]]
               z == [k \in 1..Done' |-> before[asked.addr + k - 1]]
               S == {before[a] : a \in Int}
    <3>7. more = y
      BY <1>1, <3>5, <3>6
    <3>8. asked.addr \in Nat /\ n \in Nat
      BY <1>1, <2>2 DEF Called
    <3> HIDE DEF n, more
    <3>9. x \in Seq(S) /\ y \in Seq(S) /\ Len(x) = Done /\ Len(y) = n
      BY <2>2, <3>8
    <3>10. x \o y = z
      <4>1. x \o y \in Seq(S) /\ Len(x \o y) = Done'
        BY <2>2, <3>9
      <4>2. z \in Seq(S) /\ Len(z) = Done'
        BY <2>2, <3>8
      <4>3. ASSUME NEW k \in 1..Done' PROVE (x \o y)[k] = z[k]
        <5>1. CASE k <= Done
          BY <2>2, <3>8, <3>9, <5>1
        <5>2. CASE k > Done
          <6>1. (x \o y)[k] = y[k - Done]
            BY <2>2, <3>8, <3>9, <5>2
          <6>2. k - Done \in 1..n /\ Done + (k - Done) = k
            BY <2>2, <3>8, <5>2
          <6> QED BY <6>1, <6>2
        <5> QED BY <2>2, <5>1, <5>2
      <4> HIDE DEF x, y, z, S
      <4> QED BY <2>2, <4>1, <4>2, <4>3
    <3> QED BY <2>2, <3>1, <3>7, <3>10
  <2>4. Progress'
    BY <1>1, <2>2, <2>3 DEF Progress, ReadSoFar
  <2> QED BY <1>1, <1>2, <1>4, <2>4 DEF FlashInv
<1> QED BY <1>3, <1>4 DEF esp_spiffs_read

LEMMA WriteInv ==
  ASSUME FlashInv, esp_spiffs_write
  PROVE  FlashInv'
<1> DEFINE u == LOG_PAGE_SIZE
           from == job.start + job.skip
           byte(a) == asked.src[Done + a - from + 1]
           new == [a \in Memory |-> IF a \in Bytes(from, Here(u))
                                    THEN Cleared(flash[a], byte(a)) ELSE flash[a]]
           what(a) == Cleared(before[a], asked.src[a - asked.addr + 1])
<1>1. /\ asked.op = "write" /\ returned = "busy" /\ job.left > 0
      /\ asked' = asked /\ before' = before /\ Command(u, new)
      /\ Called /\ Placed /\ WrittenSoFar
  BY DEF FlashInv, esp_spiffs_write, Running, Progress
<1>2. Called'
  BY <1>1 DEF Called
<1>3. /\ Unit = u /\ u \in Nat /\ job.start \in Nat /\ job.skip \in Nat /\ job.skip < u
      /\ from = asked.addr + Done /\ asked.addr \in Nat /\ asked.len \in Nat
      /\ Done \in Nat /\ Done + job.left = asked.len /\ job.left \in Nat
      /\ Here(u) \in 1..(u - job.skip) /\ Here(u) <= job.left
  <2>1. Unit = u /\ u \in Nat \ {0}
    BY <1>1, Sizes DEF Unit
  <2>2. /\ job.start \in Nat /\ job.skip \in Nat /\ job.skip < u
        /\ asked.addr \in Nat /\ asked.len \in Nat /\ job.left \in 0..asked.len
        /\ from = asked.addr + Done
    BY <1>1, <2>1 DEF Placed, Called
  <2> QED BY <1>1, <2>1, <2>2 DEF Done, Here
<1> HIDE DEF u, from
\* The bytes the first k of the page may become.
<1>4. ASSUME NEW k \in 0..u, NEW a \in Memory,
             flash'[a] = IF a \in Bytes(job.start, k) THEN new[a] ELSE flash[a]
      PROVE  /\ a \in Bytes(asked.addr, Done) => flash'[a] = what(a)
             /\ a \in Bytes(from, Here(u)) /\ k = u => flash'[a] = what(a)
             /\ a \in Bytes(from, Here(u)) => flash'[a] = what(a) \/ flash'[a] = before[a]
             /\ a \notin Bytes(asked.addr, Done) /\ a \notin Bytes(from, Here(u))
                  => flash'[a] = before[a]
  <2>1. a \in Int
    BY DEF Memory
  <2>2. flash[a] = IF a \in Bytes(asked.addr, Done) THEN what(a) ELSE before[a]
    BY <1>1 DEF WrittenSoFar
  <2>3. ~(a \in Bytes(asked.addr, Done) /\ a \in Bytes(from, Here(u)))
    BY <1>3, <2>1 DEF Bytes
  <2>4. a \in Bytes(from, Here(u)) => a \in Bytes(job.start, u)
    BY <1>3, <2>1 DEF Bytes, from
  <2>5. Done + a - from + 1 = a - asked.addr + 1
    BY <1>3, <2>1
  <2>6. new[a] = IF a \in Bytes(from, Here(u)) THEN Cleared(flash[a], byte(a)) ELSE flash[a]
    OBVIOUS
  <2>7. a \in Bytes(from, Here(u)) => new[a] = what(a)
    BY <2>2, <2>3, <2>5, <2>6
  <2> HIDE DEF new, what, byte
  <2> QED BY <1>4, <2>2, <2>3, <2>4, <2>6, <2>7
<1>5. CASE Stops
  <2>1. PICK k \in 0..u : flash' = [a \in Memory |-> IF a \in Bytes(job.start, k) THEN new[a] ELSE flash[a]]
    BY <1>1, <1>5 DEF Command, Stops
  <2> HIDE DEF new, what
  <2>2. ASSUME NEW a \in Memory
        PROVE  /\ flash'[a] = what(a) \/ flash'[a] = before[a]
               /\ a \notin Range => flash'[a] = before[a]
    <3>1. flash'[a] = IF a \in Bytes(job.start, k) THEN new[a] ELSE flash[a]
      BY <2>1
    <3>2. /\ a \in Bytes(asked.addr, Done) => a \in Range
          /\ a \in Bytes(from, Here(u)) => a \in Range
      BY <1>3 DEF Bytes, Range, Memory
    <3> QED BY <1>4, <3>1, <3>2
  <2>3. FlashExact'
    BY <1>1, <1>5, <2>2 DEF FlashExact, Stops, Range, what
  <2> QED BY <1>2, <1>5, <2>3 DEF FlashInv, Stops
<1>6. CASE ~Stops
  <2>1. /\ Onward(u, <<>>) /\ returned' = returned
        /\ flash' = [a \in Memory |-> IF a \in Bytes(job.start, u) THEN new[a] ELSE flash[a]]
    BY <1>1, <1>6 DEF Command, Stops
  <2>2. Placed' /\ Done' = Done + Here(u)
    BY <1>1, <1>3, <2>1, OnwardPlaced
  <2> HIDE DEF new, what
  <2>3. ASSUME NEW a \in Memory
        PROVE  flash'[a] = IF a \in Bytes(asked.addr, Done') THEN what(a) ELSE before[a]
    <3>1. flash'[a] = IF a \in Bytes(job.start, u) THEN new[a] ELSE flash[a]
      BY <2>1
    <3>2. a \in Bytes(asked.addr, Done') <=> a \in Bytes(asked.addr, Done) \/ a \in Bytes(from, Here(u))
      BY <1>3, <2>2 DEF Bytes, Memory
    <3>3. u \in 0..u
      BY <1>3
    <3> QED BY <1>4, <3>1, <3>2, <3>3
  <2>4. WrittenSoFar'
    BY <1>1, <2>3 DEF WrittenSoFar, what
  <2>5. Progress'
    BY <1>1, <2>2, <2>4 DEF Progress
  <2> QED BY <1>1, <1>2, <2>1, <2>5 DEF FlashInv
<1> QED BY <1>5, <1>6


LEMMA EraseInv ==
  ASSUME FlashInv, esp_spiffs_erase
  PROVE  FlashInv'
<1> DEFINE u == FLASH_SECT_SIZE
           new == [a \in Memory |-> 1]
<1>1. /\ asked.op = "erase" /\ returned = "busy" /\ job.left > 0
      /\ asked' = asked /\ before' = before /\ Command(u, new)
      /\ Called /\ Placed /\ ErasedSoFar
  BY DEF FlashInv, esp_spiffs_erase, Running, Progress
<1>2. Called' /\ Sectors' = Sectors /\ Range' = Range
  BY <1>1 DEF Called, Sectors, Range
<1>3. /\ Unit = u /\ u \in Nat \ {0} /\ job.start \in Nat /\ job.skip \in Nat /\ job.skip < u
      /\ job.start + job.skip = asked.addr + Done /\ asked.addr \in Nat /\ asked.len \in Nat
      /\ Done \in Nat /\ Done + job.left = asked.len /\ job.left \in Nat
  <2>1. Unit = u /\ u \in Nat \ {0}
    BY <1>1, Sizes DEF Unit
  <2>2. /\ job.start \in Nat /\ job.skip \in Nat /\ job.skip < u
        /\ asked.addr \in Nat /\ asked.len \in Nat /\ job.left \in 0..asked.len
        /\ job.start + job.skip = asked.addr + Done
    BY <1>1, <2>1 DEF Placed, Called
  <2> QED BY <1>1, <2>1, <2>2 DEF Done
<1>4. PICK m \in Nat : job.start = m * u
  BY <1>1 DEF ErasedSoFar
<1> DEFINE b == job.start + job.skip
<1>5. b \in Range /\ b \in Nat
  BY <1>1, <1>3 DEF Range, Bytes
<1>6. b \div u = m
  BY <1>3, <1>4, <1>5, Quotient
<1>7. ASSUME NEW a \in Memory, a \in Bytes(job.start, u)
      PROVE  a \in Sectors
  <2>1. a \in Nat /\ job.start <= a /\ a < job.start + u
    BY <1>3, <1>7 DEF Memory, Bytes
  <2>2. m * u <= a /\ a < m * u + u
    BY <1>4, <2>1
  <2>3. a \div u = m
    BY <1>3, <2>1, <2>2, Quotient
  <2> QED BY <1>5, <1>6, <2>3 DEF Sectors
<1> HIDE DEF u, b
<1>8. CASE Stops
  <2>1. PICK k \in 0..u : flash' = [a \in Memory |-> IF a \in Bytes(job.start, k) THEN new[a] ELSE flash[a]]
    BY <1>1, <1>8 DEF Command, Stops
  <2>2. ASSUME NEW a \in Memory
        PROVE  /\ flash'[a] = 1 \/ flash'[a] = before[a]
               /\ a \notin Sectors => flash'[a] = before[a]
    <3>1. flash'[a] = IF a \in Bytes(job.start, k) THEN 1 ELSE flash[a]
      BY <2>1
    <3>2. a \in Bytes(job.start, k) => a \in Sectors
      <4>1. a \in Bytes(job.start, k) => a \in Bytes(job.start, u)
        BY <1>3 DEF Bytes, Memory
      <4> QED BY <1>7, <4>1
    <3>3. flash[a] = IF a \in Sectors /\ a < job.start THEN 1 ELSE before[a]
      BY <1>1 DEF ErasedSoFar
    <3> QED BY <3>1, <3>2, <3>3
  <2>3. FlashExact'
    BY <1>1, <1>2, <1>8, <2>2 DEF FlashExact, Stops
  <2> QED BY <1>2, <1>8, <2>3 DEF FlashInv, Stops
<1>9. CASE ~Stops
  <2>1. /\ Onward(u, <<>>) /\ returned' = returned
        /\ flash' = [a \in Memory |-> IF a \in Bytes(job.start, u) THEN new[a] ELSE flash[a]]
    BY <1>1, <1>9 DEF Command, Stops
  <2>2. /\ Placed' /\ Done' = Done + Here(u) /\ job'.start = job.start + u
        /\ Here(u) <= job.left /\ Here(u) \in 1..(u - job.skip)
        /\ job'.left = job.left - Here(u)
    BY <1>1, <1>3, <2>1, OnwardPlaced
  <2>3. \E i \in Nat : job'.start = i * FLASH_SECT_SIZE
    <3>1. m * u + u = (m + 1) * u /\ m + 1 \in Nat
      BY <1>3
    <3> QED BY <1>4, <2>2, <3>1 DEF u
  <2>4. ASSUME NEW a \in Memory
        PROVE  flash'[a] = IF a \in Sectors /\ a < job'.start THEN 1 ELSE before[a]
    <3>1. flash'[a] = IF a \in Bytes(job.start, u) THEN 1 ELSE flash[a]
      BY <2>1
    <3>2. flash[a] = IF a \in Sectors /\ a < job.start THEN 1 ELSE before[a]
      BY <1>1 DEF ErasedSoFar
    <3>3. a < job'.start <=> a < job.start \/ a \in Bytes(job.start, u)
      BY <1>3, <2>2 DEF Bytes, Memory
    <3>4. a \in Bytes(job.start, u) => ~(a < job.start)
      BY <1>3 DEF Bytes, Memory
    <3> QED BY <1>7, <3>1, <3>2, <3>3, <3>4
  <2>5. job'.left = 0 => \A x \in Range : x < job'.start
    <3> SUFFICES ASSUME job'.left = 0, NEW x \in Range PROVE x < job'.start
      OBVIOUS
    <3>1. x \in Int /\ x < asked.addr + asked.len
      BY <1>3 DEF Range, Bytes
    <3> DEFINE h == Here(u)
    <3>2. /\ h \in Int /\ h <= u - job.skip /\ job'.left = job.left - h
          /\ job'.start = job.start + u
      BY <1>3, <2>2
    <3> HIDE DEF h
    <3>3. h = job.left
      <4>1. job.left \in Int /\ h \in Int /\ job.left - h = 0
        BY <1>3, <3>2
      <4> DEFINE l == job.left
      <4>2. l \in Int /\ l - h = 0
        BY <4>1
      <4> HIDE DEF l
      <4>3. h = l
        BY <4>1, <4>2
      <4> QED BY <4>3 DEF l
    <3> QED BY <1>3, <3>1, <3>2, <3>3
  <2>6. ErasedSoFar'
    BY <1>1, <1>2, <2>3, <2>4, <2>5 DEF ErasedSoFar
  <2>7. Progress'
    BY <1>1, <2>2, <2>6 DEF Progress
  <2> QED BY <1>1, <1>2, <2>1, <2>7 DEF FlashInv
<1> QED BY <1>8, <1>9

LEMMA ReturnedInv ==
  ASSUME FlashInv, Returned
  PROVE  FlashInv'
<1>1. /\ returned = "busy" /\ returned' = "ok" /\ job.left = 0
      /\ UNCHANGED <<flash, asked, job, before>> /\ Called /\ Progress
  BY DEF FlashInv, Returned
<1>2. Called' /\ Done' = Done /\ Unit' = Unit /\ Sectors' = Sectors /\ Range' = Range
  BY <1>1 DEF Called, Done, Unit, Sectors, Range
<1>3. Placed'
  BY <1>1, <1>2 DEF Progress, Placed
<1>4. Progress'
  BY <1>1, <1>2, <1>3 DEF Progress, WrittenSoFar, ErasedSoFar, ReadSoFar
<1> QED BY <1>1, <1>2, <1>4 DEF FlashInv

LEMMA NextFlashInv == FlashInv /\ [FlashNext]_flashVars => FlashInv'
<1> SUFFICES ASSUME FlashInv, [FlashNext]_flashVars PROVE FlashInv'
  OBVIOUS
<1>1. CASE FlashCalls
  BY <1>1, CallInv DEF FlashCalls
<1>2. CASE UNCHANGED flashVars
  <2>1. UNCHANGED <<flash, asked, job, returned, before>>
    BY <1>2 DEF flashVars
  <2> QED BY <2>1 DEF FlashInv, Called, Progress, Placed, Unit, Done, WrittenSoFar, ErasedSoFar,
                     ReadSoFar, Sectors, Range, FlashExact, Inside, TheBytes
<1> QED BY <1>1, <1>2, ReadInv, WriteInv, EraseInv, ReturnedInv DEF FlashNext

LEMMA InitFlashInv == FlashInit => FlashInv
BY DEF FlashInit, FlashInv, FlashExact

\* Whatever the sizes of words, pages and sectors, the address, the length and what is in
\* memory, and wherever a command fails: only the bytes asked for are written, only their
\* sectors erased, an aligned range is read as it is, and none is refused.
THEOREM FlashCorrect == FlashSpec => []FlashExact
<1>1. FlashInv => FlashExact
  BY ProgressExact DEF FlashInv, FlashExact
<1> QED BY InitFlashInv, NextFlashInv, <1>1, PTL DEF FlashSpec

-----------------------------------------------------------------------------
(***************************************************************************)
(* The update.                                                             *)
(***************************************************************************)
USE OtaConstants

\* What next_function does to the queue: one signal more, or it is lost.
LEMMA NextFunction ==
  ASSUME NEW left \in 0..TaskQueueLen, next_function(left), lost \in BOOLEAN
  PROVE  /\ engine' \in 0..TaskQueueLen /\ lost' \in BOOLEAN
         /\ engine' = left \/ engine' = left + 1
         /\ lost => lost'
         /\ lost' \/ engine' > 0
<1>1. CASE left < TaskQueueLen /\ engine' = left + 1 /\ UNCHANGED lost
  <2>1. engine' \in 0..TaskQueueLen /\ engine' = left + 1 /\ engine' > 0
    BY <1>1
  <2>2. lost' = lost
    BY <1>1
  <2> QED
    BY <2>1, <2>2
<1>2. CASE engine' = left /\ lost' = TRUE
  BY <1>2
<1> QED
  BY <1>1, <1>2 DEF next_function

\* The counters are numbers.
LEMMA Numbers == TypeOK => engine \in Nat /\ accepted \in Nat /\ answers \in Nat
  BY DEF TypeOK

\* release_cmp returns one of the three values the engine tells apart.
LEMMA ReleaseCmp ==
  ASSUME NEW cur_rel, NEW avail_rel
  PROVE  release_cmp(cur_rel, avail_rel) \in {-1, 0, 1}
<1> DEFINE differ == {i \in 1..3 : os_strcmp(cur_rel[i], avail_rel[i]) # 0}
           first  == CHOOSE i \in differ : \A j \in differ : i <= j
<1>1. os_strcmp(cur_rel[first], avail_rel[first]) \in {-1, 0, 1}
  BY DEF os_strcmp
<1>2. release_cmp(cur_rel, avail_rel) \in {0, os_strcmp(cur_rel[first], avail_rel[first])}
  BY DEF release_cmp
<1> QED
  BY <1>1, <1>2

-----------------------------------------------------------------------------
\* Until a download is started over another one, client, download and descriptor go
\* with the engine's status.
Owned ==
  ~twice => /\ ~leaked
            /\ (ota_client # "none") <=> status = "version_checking"
            /\ sdk = "running" => status = "upgrading"
            /\ upgrade_svr = "in_use" => sdk = "running"

Inv == TypeOK /\ NoSpareAnswers /\ Owned /\ GoesOn

LEMMA InvInit == Init => Inv
<1> SUFFICES ASSUME Init PROVE Inv
  OBVIOUS
<1>1. TypeOK
  <2>1. engine \in 0..TaskQueueLen /\ accepted \in 0..MaxRequests /\ answers \in Nat
        /\ rel_cmp_result \in {-1, 0, 1}
    BY DEF Init
  <2>2. waiting \subseteq Conn
    BY DEF Init
  <2>3. status \in Statuses /\ last_result \in {"idle"} \cup Final
        /\ requester \in Conn \cup {NoConn} /\ checked \in Release \cup {NoRelease}
    BY DEF Init, Statuses
  <2>4. check_version \in BOOLEAN /\ reboot_on_completion \in BOOLEAN /\ rebooting \in BOOLEAN
        /\ lost \in BOOLEAN /\ refused \in BOOLEAN /\ twice \in BOOLEAN /\ leaked \in BOOLEAN
    BY DEF Init
  <2> QED
    BY <2>1, <2>2, <2>3, <2>4 DEF Init, TypeOK
<1>2. NoSpareAnswers
  BY DEF Init, NoSpareAnswers, Tokens
<1>3. Owned /\ GoesOn
  BY DEF Init, Owned, GoesOn, Final
<1> QED
  BY <1>1, <1>2, <1>3 DEF Inv

LEMMA RestartInv == Inv /\ Restart => Inv'
<1> SUFFICES ASSUME Inv, Restart PROVE Inv'
  OBVIOUS
<1>1. TypeOK'
  <2>1. /\ engine' \in 0..TaskQueueLen /\ accepted' \in 0..MaxRequests /\ answers' \in Nat
        /\ rel_cmp_result' \in {-1, 0, 1}
    BY DEF Restart
  <2>2. waiting' \subseteq Conn
    BY DEF Restart
  <2>3. /\ status' \in Statuses /\ last_result' \in {"idle"} \cup Final
        /\ requester' \in Conn \cup {NoConn} /\ checked' \in Release \cup {NoRelease}
    BY DEF Restart, Statuses
  <2>4. /\ check_version' \in BOOLEAN /\ reboot_on_completion' \in BOOLEAN
        /\ rebooting' \in BOOLEAN /\ lost' \in BOOLEAN /\ refused' \in BOOLEAN
        /\ twice' \in BOOLEAN /\ leaked' \in BOOLEAN
    BY DEF Restart, cfg, Inv, TypeOK
  <2> QED
    BY <2>1, <2>2, <2>3, <2>4 DEF Restart, TypeOK
<1>2. NoSpareAnswers'
  BY DEF Restart, NoSpareAnswers, Tokens
<1>3. Owned' /\ GoesOn'
  BY DEF Restart, Owned, GoesOn, Final
<1> QED
  BY <1>1, <1>2, <1>3 DEF Inv

\* The routes: a request starts the engine only in a state where nothing else runs.
LEMMA RoutesInv == Inv /\ Routes => Inv'
<1> SUFFICES ASSUME Inv, Routes PROVE Inv'
  OBVIOUS
<1> USE DEF Inv, state, cfg, history
<1>1. ASSUME NEW c \in Conn, startOTA(c) PROVE Inv'
  <2>1. CASE status \in {"idle", "already_to_the_lastest", "failed"}
    <3>1. next_function(engine) /\ status' = "idle" /\ accepted' = accepted + 1
          /\ refused' = FALSE
      BY <1>1, <2>1 DEF startOTA
    <3>2. /\ engine' \in 0..TaskQueueLen /\ lost' \in BOOLEAN
          /\ engine' = engine \/ engine' = engine + 1
      BY <3>1, NextFunction DEF TypeOK
    <3>3. accepted' \in 0..MaxRequests
      BY <1>1, <3>1 DEF startOTA, TypeOK
    <3>4. TypeOK'
      <4>1. waiting' \subseteq Conn /\ requester' \in Conn \cup {NoConn}
        BY <1>1 DEF startOTA, TypeOK
      <4>2. status' \in Statuses /\ refused' \in BOOLEAN
        BY <3>1 DEF Statuses
      <4>3. UNCHANGED <<last_result, rel_cmp_result, check_version, reboot_on_completion,
                        ota_client, upgrade_svr, sdk, rebooting, checked, answers, twice, leaked>>
        BY <1>1 DEF startOTA
      <4> QED
        BY <3>2, <3>3, <4>1, <4>2, <4>3 DEF TypeOK
    <3>5. NoSpareAnswers'
      BY <1>1, <3>1, <3>2, Numbers DEF startOTA, NoSpareAnswers, Tokens
    <3>6. Owned'
      BY <1>1, <2>1, <3>1 DEF startOTA, Owned
    <3>7. GoesOn'
      BY <3>1 DEF GoesOn, Final
    <3> QED
      BY <3>4, <3>5, <3>6, <3>7
  <2>2. CASE status \notin {"idle", "already_to_the_lastest", "failed"}
    <3>1. UNCHANGED <<status, engine, lost, accepted, refused>>
      BY <1>1, <2>2 DEF startOTA
    <3> QED
      BY <1>1, <3>1 DEF startOTA, TypeOK, NoSpareAnswers, Tokens, Owned, GoesOn
  <2> QED
    BY <2>1, <2>2
<1>2. ASSUME NEW c \in Conn, Close(c) PROVE Inv'
  BY <1>2 DEF Close, TypeOK, NoSpareAnswers, Tokens, Owned, GoesOn
<1>3. ASSUME NEW check \in BOOLEAN, NEW reboot \in BOOLEAN, setOtaCfg(check, reboot) PROVE Inv'
  BY <1>3 DEF setOtaCfg, TypeOK, NoSpareAnswers, Tokens, Owned, GoesOn
<1>4. CASE Reboot
  BY <1>4 DEF Reboot, TypeOK, NoSpareAnswers, Tokens, Owned, GoesOn
<1> QED
  BY <1>1, <1>2, <1>3, <1>4 DEF Routes

-----------------------------------------------------------------------------
\* The engine: a step takes one signal and hands on at most one token.
LEMMA EngineInv == Inv /\ ~leaked /\ ota_engine => Inv'
<1> SUFFICES ASSUME Inv, ~leaked, ota_engine PROVE Inv'
  OBVIOUS
<1> USE DEF Inv, state, cfg, history
<1>0. engine > 0 => engine - 1 \in 0..TaskQueueLen
  BY DEF TypeOK
<1>1. CASE EngineIdle
  <2>0. engine > 0 /\ status = "idle"
    BY <1>1 DEF EngineIdle, EngineIs
  <2>1. \/ /\ status' = "version_checking" /\ ota_client' = "connecting"
           /\ engine' = engine - 1 /\ UNCHANGED lost
           /\ leaked' = (ota_client # "none")
        \/ /\ status' = "failed" /\ ota_client' = "none" /\ next_function(engine - 1)
           /\ leaked' = (ota_client # "none")
        \/ /\ status' = "upgrading" /\ next_function(engine - 1)
           /\ UNCHANGED <<ota_client, leaked>>
    BY <1>1 DEF EngineIdle
  <2>2. /\ engine' \in 0..TaskQueueLen /\ lost' \in BOOLEAN
        /\ engine' = engine - 1 \/ engine' = engine
        /\ lost => lost'
        /\ status' # "version_checking" => lost' \/ engine' > 0
    <3>1. CASE next_function(engine - 1)
      BY <1>0, <2>0, <3>1, NextFunction DEF TypeOK
    <3>2. CASE status' = "version_checking" /\ engine' = engine - 1 /\ UNCHANGED lost
      BY <1>0, <2>0, <3>2 DEF TypeOK
    <3> QED
      BY <2>1, <3>1, <3>2
  <2>3. UNCHANGED <<rel_cmp_result, requester, check_version, reboot_on_completion, upgrade_svr,
                    sdk, rebooting, waiting, accepted, answers, refused, twice>>
    BY <1>1 DEF EngineIdle
  <2>4. TypeOK'
    <3>1. last_result' = "idle" /\ checked' = NoRelease
      BY <1>1 DEF EngineIdle
    <3>2. leaked' \in BOOLEAN /\ status' \in Statuses
          /\ ota_client' \in {"none", "connecting", "waiting", "mute"}
      BY <2>1 DEF TypeOK, Statuses, Final
    <3> QED
      BY <2>2, <2>3, <3>1, <3>2 DEF TypeOK
  <2>5. NoSpareAnswers'
    <3>1. CASE status' = "version_checking"
      BY <2>0, <2>1, <2>3, <3>1 DEF TypeOK, NoSpareAnswers, Tokens
    <3>2. CASE status' # "version_checking"
      BY <2>0, <2>1, <2>2, <2>3, <3>2, Numbers DEF NoSpareAnswers, Tokens
    <3> QED
      BY <3>1, <3>2
  <2>6. Owned'
    BY <2>0, <2>1, <2>3 DEF Owned
  <2>7. GoesOn'
    BY <2>1, <2>2, <2>3 DEF GoesOn, Final
  <2> QED
    BY <2>4, <2>5, <2>6, <2>7
<1>2. CASE EngineVersionChecked
  <2>1. /\ engine > 0 /\ status = "version_checked"
        /\ status' \in {"upgrading", "already_to_the_lastest"}
        /\ next_function(engine - 1)
    BY <1>2 DEF EngineVersionChecked, EngineIs
  <2>2. /\ engine' \in 0..TaskQueueLen /\ lost' \in BOOLEAN
        /\ engine' = engine - 1 \/ engine' = engine
        /\ lost' \/ engine' > 0
    BY <1>0, <2>1, NextFunction DEF TypeOK
  <2>3. UNCHANGED <<last_result, rel_cmp_result, requester, cfg, ota_client, upgrade_svr, sdk,
                    rebooting, waiting, history>>
    BY <1>2 DEF EngineVersionChecked
  <2>4. TypeOK'
    BY <2>1, <2>2, <2>3 DEF TypeOK, Statuses, Final
  <2>5. NoSpareAnswers'
    BY <2>2, <2>3, Numbers DEF NoSpareAnswers, Tokens
  <2>6. Owned'
    BY <2>1, <2>3 DEF Owned
  <2>7. GoesOn'
    BY <2>1, <2>2, <2>3 DEF GoesOn, Final
  <2> QED
    BY <2>4, <2>5, <2>6, <2>7
<1>3. CASE EngineUpgrading
  <2>0. engine > 0 /\ status = "upgrading"
    BY <1>3 DEF EngineUpgrading, EngineIs
  <2>1. twice' = (twice \/ sdk = "running")
    BY <1>3 DEF EngineUpgrading
  <2>2. UNCHANGED <<last_result, rel_cmp_result, requester, cfg, ota_client, rebooting, waiting,
                    checked, accepted, answers, leaked>>
    BY <1>3 DEF EngineUpgrading
  <2>3. \/ /\ status' = "failed" /\ next_function(engine - 1)
           /\ upgrade_svr' \in {"null", "own"}
           /\ UNCHANGED <<sdk, refused>>
        \/ /\ sdk = "idle" /\ sdk' = "running" /\ upgrade_svr' = "in_use"
           /\ engine' = engine - 1
           /\ UNCHANGED <<status, lost, refused>>
        \/ /\ status' = "failed" /\ upgrade_svr' = "own" /\ refused' = TRUE
           /\ engine' = engine - 1
           /\ UNCHANGED <<sdk, lost>>
    BY <1>3 DEF EngineUpgrading
  <2>4. /\ engine' \in 0..TaskQueueLen /\ lost' \in BOOLEAN
        /\ engine' = engine - 1 \/ (engine' = engine /\ sdk' = sdk)
        /\ lost' \/ engine' > 0 \/ sdk' = "running" \/ refused'
    <3>1. CASE next_function(engine - 1) /\ sdk' = sdk
      BY <1>0, <2>0, <3>1, NextFunction DEF TypeOK
    <3>2. CASE engine' = engine - 1 /\ UNCHANGED lost /\ (sdk' = "running" \/ refused')
      BY <1>0, <2>0, <3>2 DEF TypeOK
    <3> QED
      BY <2>3, <3>1, <3>2
  <2>5. TypeOK'
    <3>1. /\ status' \in Statuses /\ sdk' \in {"idle", "running"}
          /\ upgrade_svr' \in {"null", "own", "in_use"} /\ refused' \in BOOLEAN
      BY <2>3 DEF TypeOK, Statuses, Final
    <3> QED
      BY <2>1, <2>2, <2>4, <3>1 DEF TypeOK
  <2>6. NoSpareAnswers'
    <3>1. ota_client' = ota_client /\ answers' = answers /\ accepted' = accepted
      BY <2>2
    <3> QED
      BY <2>3, <2>4, <3>1, Numbers DEF NoSpareAnswers, Tokens
  <2>7. Owned'
    BY <2>0, <2>1, <2>2, <2>3 DEF TypeOK, Owned
  <2>8. GoesOn'
    <3>1. CASE status' = "failed"
      <4>1. lost' \/ engine' > 0 \/ refused' \/ twice'
        BY <2>1, <2>3, <2>4, <3>1, NextFunction, <1>0, <2>0 DEF TypeOK
      <4> QED
        BY <3>1, <4>1 DEF GoesOn, Final
    <3>2. CASE status' # "failed"
      BY <2>0, <2>3, <3>2 DEF GoesOn, Final
    <3> QED
      BY <3>1, <3>2
  <2> QED
    BY <2>5, <2>6, <2>7, <2>8
<1>4. CASE EngineFinal
  <2>1. engine > 0 /\ status \in Final /\ status' = "idle" /\ engine' = engine - 1
        /\ answers' = answers + 1 /\ upgrade_svr' = "null" /\ last_result' = status
    BY <1>4 DEF EngineFinal
  <2>2. UNCHANGED <<ota_client, sdk, accepted, lost, twice, leaked>>
    BY <1>4 DEF EngineFinal
  <2>3. TypeOK'
    BY <1>0, <1>4, <2>1 DEF EngineFinal, TypeOK, Statuses
  <2>4. NoSpareAnswers'
    BY <2>1, <2>2 DEF TypeOK, NoSpareAnswers, Tokens
  <2>5. Owned'
    BY <2>1, <2>2 DEF Owned, Final
  <2>6. GoesOn'
    BY <2>1 DEF GoesOn, Final
  <2> QED
    BY <2>3, <2>4, <2>5, <2>6
<1>5. CASE EngineChecking
  <2>1. engine > 0 /\ status = "version_checking" /\ engine' = engine - 1
    BY <1>5 DEF EngineChecking, EngineIs
  <2>2. UNCHANGED <<state, cfg, lost, ota_client, upgrade_svr, sdk, rebooting, waiting, history>>
    BY <1>5 DEF EngineChecking
  <2>3. TypeOK'
    BY <1>0, <2>1, <2>2 DEF TypeOK
  <2> QED
    BY <2>1, <2>2, <2>3 DEF TypeOK, NoSpareAnswers, Tokens, Owned, GoesOn, Final
<1> QED
  BY <1>1, <1>2, <1>3, <1>4, <1>5 DEF ota_engine

-----------------------------------------------------------------------------
\* The check ends: the client's token becomes a signal, or is lost.
LEMMA CheckEndsInv ==
  ASSUME Inv, ota_client # "none",
         NEW new_status \in {"failed", "version_checked"}, CheckEnds(new_status),
         rel_cmp_result' \in {-1, 0, 1}, checked' \in Release \cup {NoRelease},
         UNCHANGED <<last_result, requester, cfg, upgrade_svr, sdk, rebooting, waiting,
                     accepted, answers, refused, twice, leaked>>
  PROVE  Inv'
<1> USE DEF Inv, cfg
<1>1. next_function(engine) /\ status' = new_status /\ ota_client' = "none"
  BY DEF CheckEnds
<1>2. /\ engine' \in 0..TaskQueueLen /\ lost' \in BOOLEAN
      /\ engine' = engine \/ engine' = engine + 1
      /\ lost' \/ engine' > 0
  BY <1>1, NextFunction DEF TypeOK
<1>3. TypeOK'
  BY <1>1, <1>2 DEF TypeOK, Statuses, Final
<1>4. NoSpareAnswers'
  BY <1>1, <1>2, Numbers DEF NoSpareAnswers, Tokens
<1>5. Owned'
  BY <1>1 DEF Owned
<1>6. GoesOn'
  BY <1>1, <1>2 DEF GoesOn, Final
<1> QED
  BY <1>3, <1>4, <1>5, <1>6

LEMMA ClientInv == Inv /\ ~leaked /\ Client => Inv'
<1> SUFFICES ASSUME Inv, ~leaked, Client PROVE Inv'
  OBVIOUS
<1>1. ASSUME NEW client \in {"connecting", "waiting"}, CheckFails(client) PROVE Inv'
  <2>1. ota_client # "none" /\ CheckEnds("failed")
    BY <1>1 DEF CheckFails
  <2>2. rel_cmp_result' \in {-1, 0, 1} /\ checked' \in Release \cup {NoRelease}
    BY <1>1 DEF CheckFails, history, Inv, TypeOK
  <2> QED
    BY <1>1, <2>1, <2>2, CheckEndsInv DEF CheckFails, history
<1>2. CASE ota_ask_version
  <2>1. ota_client = "connecting" /\ ota_client' \in {"waiting", "mute"}
    BY <1>2 DEF ota_ask_version
  <2>2. UNCHANGED <<status, last_result, rel_cmp_result, requester, check_version,
                    reboot_on_completion, engine, lost, upgrade_svr, sdk, rebooting, waiting,
                    checked, accepted, answers, refused, twice, leaked>>
    BY <1>2 DEF ota_ask_version, state, cfg, history
  <2>3. TypeOK' /\ NoSpareAnswers' /\ Owned' /\ GoesOn'
    BY <2>1, <2>2 DEF Inv, TypeOK, NoSpareAnswers, Tokens, Owned, GoesOn
  <2> QED
    BY <2>3 DEF Inv
<1>3. ASSUME NEW r \in Release \cup {NoRelease}, Version(r) PROVE Inv'
  <2>1. ota_client # "none" /\ CheckEnds("version_checked")
    BY <1>3 DEF Version
  <2>2. rel_cmp_result' \in {-1, 0, 1}
    BY <1>3, ReleaseCmp DEF Version
  <2>3. checked' \in Release \cup {NoRelease}
    BY <1>3 DEF Version
  <2> QED
    BY <1>3, <2>1, <2>2, <2>3, CheckEndsInv DEF Version
<1> QED
  BY <1>1, <1>2, <1>3 DEF Client, ConnectFails, NoVersion

LEMMA CompletedInv == Inv /\ ota_completed_cb => Inv'
<1> SUFFICES ASSUME Inv, ota_completed_cb PROVE Inv'
  OBVIOUS
<1> USE DEF Inv, cfg, history
<1>1. /\ sdk = "running" /\ sdk' = "idle" /\ status' \in {"success", "failed"}
      /\ upgrade_svr' = (IF upgrade_svr = "in_use" THEN "own" ELSE upgrade_svr)
      /\ next_function(engine)
  BY DEF ota_completed_cb
<1>2. /\ engine' \in 0..TaskQueueLen /\ lost' \in BOOLEAN
      /\ engine' = engine \/ engine' = engine + 1
      /\ lost' \/ engine' > 0
  BY <1>1, NextFunction DEF TypeOK
<1>3. UNCHANGED <<last_result, rel_cmp_result, requester, cfg, ota_client, rebooting, waiting,
                  history>>
  BY DEF ota_completed_cb
<1>4. TypeOK'
  BY <1>1, <1>2, <1>3 DEF TypeOK, Statuses, Final
<1>5. NoSpareAnswers'
  BY <1>1, <1>2, <1>3, Numbers DEF NoSpareAnswers, Tokens
<1>6. Owned'
  BY <1>1, <1>3 DEF Owned, TypeOK
<1>7. GoesOn'
  BY <1>1, <1>2 DEF GoesOn, Final
<1> QED
  BY <1>4, <1>5, <1>6, <1>7

LEMMA InvNext == Inv /\ [Next]_vars => Inv'
<1> SUFFICES ASSUME Inv, [Next]_vars PROVE Inv'
  OBVIOUS
<1>1. CASE UNCHANGED vars
  BY <1>1 DEF vars, state, cfg, history, Inv, TypeOK, NoSpareAnswers, Tokens, Owned, GoesOn
<1> QED
  BY <1>1, RestartInv, RoutesInv, EngineInv, ClientInv, CompletedInv DEF Next

THEOREM InvCorrect == Spec => []Inv
  BY InvInit, InvNext, PTL DEF Spec

-----------------------------------------------------------------------------
\* The variables keep their types: the task queue never holds more than its length.
THEOREM TypeCorrect == Spec => []TypeOK
<1>1. Inv => TypeOK
  BY DEF Inv
<1> QED
  BY <1>1, InvCorrect, PTL

\* An accepted update is answered at most once: signals, client and download are
\* tokens, and an answer consumes one.
THEOREM AnswersCorrect == Spec => []NoSpareAnswers
<1>1. Inv => NoSpareAnswers
  BY DEF Inv
<1> QED
  BY <1>1, InvCorrect, PTL

\* Until two downloads overlap, the check's client and the engine's status go together
\* and ota_cleanup never frees the descriptor of a running download.
THEOREM OwnedCorrect == Spec => []UpdateOwned
<1>1. Inv => UpdateOwned
  <2>1. Inv /\ ~twice => ClientOwned
    BY DEF Inv, Owned, ClientOwned
  <2>2. Inv /\ ~twice => DescriptorKept
    BY DEF Inv, Owned, DescriptorKept, Final
  <2> QED
    BY <2>1, <2>2 DEF UpdateOwned
<1> QED
  BY <1>1, InvCorrect, PTL

\* An update never rests half-way unless a signal is lost or the SDK refuses.
THEOREM GoesOnCorrect == Spec => []GoesOn
<1>1. Inv => GoesOn
  BY DEF Inv
<1> QED
  BY <1>1, InvCorrect, PTL

-----------------------------------------------------------------------------
(***************************************************************************)
(* The version check.                                                      *)
(***************************************************************************)
\* The numbers of r have as many digits as those of the running release.
Comparable(r) == \A i \in 1..3 : r[i] < 10 <=> CurrentField < 10

\* Two numbers of as many digits are in the order of their digits.
LEMMA StrcmpIs ==
  ASSUME NEW m \in 0..99, NEW n \in 0..99, m < 10 <=> n < 10
  PROVE  /\ os_strcmp(m, n) < 0 <=> m < n
         /\ os_strcmp(m, n) = 0 <=> m = n
<1> DEFINE Before(s, t) ==
             \/ Len(s) < Len(t) /\ \A i \in DOMAIN s : s[i] = t[i]
             \/ \E i \in DOMAIN s \cap DOMAIN t :
                  s[i] < t[i] /\ \A j \in 1..(i - 1) : s[j] = t[j]
<1>1. ASSUME NEW a \in 0..99, NEW b \in 0..99, a < 10, b < 10
      PROVE  Before(Digits(a), Digits(b)) <=> a < b
  <2>1. Digits(a) = <<a>> /\ Digits(b) = <<b>>
    BY <1>1 DEF Digits
  <2>2. Before(<<a>>, <<b>>) <=> a < b
    <3> DEFINE s == <<a>>
               t == <<b>>
    <3>1. Len(s) = 1 /\ Len(t) = 1 /\ DOMAIN s \cap DOMAIN t = {1} /\ s[1] = a /\ t[1] = b
      OBVIOUS
    <3> HIDE DEF s, t
    <3>2. Before(s, t) <=> s[1] < t[1] /\ \A j \in 1..(1 - 1) : s[j] = t[j]
      BY <3>1
    <3>3. 1..(1 - 1) = {}
      OBVIOUS
    <3> QED BY <3>1, <3>2, <3>3 DEF s, t
  <2> HIDE DEF Before
  <2> QED BY <2>1, <2>2
<1>2. ASSUME NEW a \in 0..99, NEW b \in 0..99, ~(a < 10), ~(b < 10)
      PROVE  Before(Digits(a), Digits(b)) <=> a < b
  <2> DEFINE a1 == a \div 10
             a2 == a % 10
             b1 == b \div 10
             b2 == b % 10
  <2>1. Digits(a) = <<a1, a2>> /\ Digits(b) = <<b1, b2>>
    BY <1>2 DEF Digits
  <2>2. /\ a1 \in Nat /\ a2 \in 0..9 /\ a = 10 * a1 + a2
        /\ b1 \in Nat /\ b2 \in 0..9 /\ b = 10 * b1 + b2
    OBVIOUS
  <2> HIDE DEF a1, a2, b1, b2
  <2>3. Before(<<a1, a2>>, <<b1, b2>>) <=> a1 < b1 \/ (a1 = b1 /\ a2 < b2)
    <3> DEFINE s == <<a1, a2>>
               t == <<b1, b2>>
    <3>1. /\ Len(s) = 2 /\ Len(t) = 2 /\ DOMAIN s \cap DOMAIN t = {1, 2}
          /\ s[1] = a1 /\ s[2] = a2 /\ t[1] = b1 /\ t[2] = b2
      OBVIOUS
    <3> HIDE DEF s, t
    <3>2. Before(s, t) <=> \E i \in {1, 2} : s[i] < t[i] /\ \A j \in 1..(i - 1) : s[j] = t[j]
      BY <3>1
    <3>3. 1..(1 - 1) = {} /\ 1..(2 - 1) = {1}
      OBVIOUS
    <3>4. Before(s, t) <=> s[1] < t[1] \/ (s[2] < t[2] /\ s[1] = t[1])
      BY <3>2, <3>3
    <3> QED BY <2>2, <3>1, <3>4 DEF s, t
  <2>4. a < b <=> a1 < b1 \/ (a1 = b1 /\ a2 < b2)
    BY <2>2
  <2> HIDE DEF Before
  <2> QED BY <2>1, <2>3, <2>4
<1>3. os_strcmp(m, n) = IF Before(Digits(m), Digits(n)) THEN -1
                        ELSE IF Before(Digits(n), Digits(m)) THEN 1 ELSE 0
  BY DEF os_strcmp
<1>4. (Before(Digits(m), Digits(n)) <=> m < n) /\ (Before(Digits(n), Digits(m)) <=> n < m)
  BY <1>1, <1>2
<1> HIDE DEF Before
<1> QED BY <1>3, <1>4

\* A release that compares as newer is newer.
LEMMA OlderIs ==
  ASSUME NEW r \in Release, Comparable(r), release_cmp(Current, r) < 0
  PROVE  Older(Current, r)
<1> DEFINE differ == {i \in 1..3 : os_strcmp(Current[i], r[i]) # 0}
           first  == CHOOSE i \in differ : \A j \in differ : i <= j
<1>1. \A i \in 1..3 : Current[i] \in 0..99 /\ r[i] \in 0..99 /\ (Current[i] < 10 <=> r[i] < 10)
  <2>1. \A i \in 1..3 : Current[i] = CurrentField /\ r[i] \in Fields
    BY DEF Current, Release
  <2> QED BY <2>1 DEF Comparable
<1>2. \A i \in 1..3 : /\ os_strcmp(Current[i], r[i]) < 0 <=> Current[i] < r[i]
                      /\ os_strcmp(Current[i], r[i]) = 0 <=> Current[i] = r[i]
  BY <1>1, StrcmpIs
<1>3. release_cmp(Current, r) = IF differ = {} THEN 0 ELSE os_strcmp(Current[first], r[first])
  BY DEF release_cmp
<1>4. differ # {} /\ os_strcmp(Current[first], r[first]) < 0
  BY <1>3
<1>5. \E i \in differ : \A j \in differ : i <= j
  <2>1. differ \subseteq {1, 2, 3} /\ differ # {}
    BY <1>4
  <2> HIDE DEF differ
  <2>2. CASE 1 \in differ
    BY <2>1, <2>2
  <2>3. CASE 1 \notin differ /\ 2 \in differ
    BY <2>1, <2>3
  <2>4. CASE 1 \notin differ /\ 2 \notin differ
    <3>1. differ = {3}
      BY <2>1, <2>4
    <3> QED BY <3>1
  <2> QED BY <2>2, <2>3, <2>4
<1>6. first \in differ /\ \A j \in differ : first <= j
  BY <1>5
<1> HIDE DEF first
<1>7. first \in 1..3 /\ Current[first] < r[first]
  BY <1>2, <1>4, <1>6
<1>8. \A j \in 1..(first - 1) : Current[j] = r[j]
  <2> TAKE j \in 1..(first - 1)
  <2>1. j \in 1..3 /\ ~(first <= j)
    BY <1>7
  <2>2. j \notin differ
    BY <1>6, <2>1
  <2> QED BY <1>2, <2>1, <2>2
<1> QED BY <1>7, <1>8 DEF Older

\* The result of the comparison is that of the release read, and no update goes on that
\* compared as not newer.
Judged ==
  checked # NoRelease => /\ rel_cmp_result = release_cmp(Current, checked)
                         /\ status = "upgrading" => rel_cmp_result < 0

LEMMA JudgedStep ==
  ASSUME Judged, [Next]_vars
  PROVE  Judged'
<1>1. CASE UNCHANGED <<checked, rel_cmp_result>> /\ (status' = "upgrading" => status = "upgrading")
  BY <1>1 DEF Judged
<1>2. CASE checked' = NoRelease
  BY <1>2 DEF Judged
<1>3. CASE \E r \in Release \cup {NoRelease} : Version(r)
  BY <1>3 DEF Version, CheckEnds, Judged
<1>4. CASE EngineVersionChecked
  BY <1>4 DEF EngineVersionChecked, history, Judged
<1>5. CASE Routes
  BY <1>1, <1>5 DEF Routes, Reboot, startOTA, Close, setOtaCfg, state, history
<1>6. CASE ConnectFails \/ NoVersion \/ ota_ask_version \/ ota_completed_cb
  BY <1>1, <1>6 DEF ConnectFails, NoVersion, CheckFails, CheckEnds, ota_ask_version,
                    ota_completed_cb, state, history
<1>7. CASE EngineIdle \/ Restart
  BY <1>2, <1>7 DEF EngineIdle, Restart
<1>8. CASE EngineUpgrading \/ EngineFinal \/ EngineChecking
  BY <1>1, <1>8 DEF EngineUpgrading, EngineFinal, EngineChecking, EngineIs, state, history
<1>9. CASE UNCHANGED vars
  BY <1>1, <1>9 DEF vars, state, history
<1> QED BY <1>3, <1>4, <1>5, <1>6, <1>7, <1>8, <1>9 DEF Next, Client, ota_engine

\* With the version check on, the device is only updated to a newer release (NotDowngraded)
\* as long as no number of the release has more or fewer digits than its own: digits that
\* are compared as text are in the order of the numbers when there are as many of them.
THEOREM CheckedCorrect ==
  Spec => [](checked # NoRelease /\ Comparable(checked) => NotDowngraded)
<1>1. Init => Judged
  BY DEF Init, Judged
<1>2. Judged /\ [Next]_vars => Judged'
  BY JudgedStep
<1>3. TypeOK /\ Judged => (checked # NoRelease /\ Comparable(checked) => NotDowngraded)
  BY OlderIs DEF TypeOK, Judged, NotDowngraded
<1> QED BY TypeCorrect, <1>1, <1>2, <1>3, PTL DEF Spec
===============================================================================
