--------------------------- MODULE HttpServer_proofs ---------------------------
(***************************************************************************)
(* Theorems about HttpServer, and about the List that its incomplete       *)
(* requests are kept in.                                                   *)
(*                                                                         *)
(* To the server that list is a sequence, but its entries are told apart   *)
(* by the request that began them: the invariant speaks of the set of      *)
(* entries (Ents).  The entry of a request that met no fault is the only   *)
(* one of its connection, waits for the request's own length and holds its *)
(* pieces in order (Good); and a request that met no fault and is not      *)
(* whole has an entry (Underway).                                          *)
(***************************************************************************)
EXTENDS HttpServer, List, SequenceTheorems, WellFoundedInduction, TLAPS

EntrySet == [conn : Conns, total : Nat, parts : Seq(Piece)]
Ents(L) == {L[k] : k \in 1..Len(L)}
Single(L) == \A j, k \in 1..Len(L) : L[j] = L[k] => j = k

\* The request that began an entry.
Owner(e) == e.parts[1][1]

-----------------------------------------------------------------------------
(***************************************************************************)
(* What is done to the list, as what it does to the set of its entries.    *)
(***************************************************************************)

\* Position i of the list is taken out: element k of what is left stood here before.
Stood(k, i) == IF k < i THEN k ELSE k + 1

LEMMA Removed ==
  ASSUME NEW S, NEW L \in Seq(S), NEW i \in 1..Len(L)
  PROVE  /\ RemoveAt(L, i) \in Seq(S) /\ Len(RemoveAt(L, i)) = Len(L) - 1
         /\ \A k \in 1..(Len(L) - 1) : RemoveAt(L, i)[k] = L[Stood(k, i)]
<1> DEFINE front == SubSeq(L, 1, i - 1)
           back  == SubSeq(L, i + 1, Len(L))
<1>1. Len(L) \in Nat
  OBVIOUS
<1>2. /\ front \in Seq(S) /\ Len(front) = i - 1
      /\ \A k \in 1..(i - 1) : front[k] = L[k]
  <2>1. \A k \in 1..(i - 1) : L[k] \in S
    BY <1>1
  <2> QED
    BY <1>1, <2>1, SubSeqProperties
<1>3. /\ back \in Seq(S) /\ Len(back) = Len(L) - i
      /\ \A k \in 1..(Len(L) - i) : back[k] = L[i + k]
  <2>1. \A k \in (i + 1)..Len(L) : L[k] \in S
    BY <1>1
  <2> QED
    BY <1>1, <2>1, SubSeqProperties
<1> HIDE DEF front, back
<1>4. front \o back \in Seq(S) /\ Len(front \o back) = Len(L) - 1
  BY <1>1, <1>2, <1>3
<1>5. ASSUME NEW k \in 1..(Len(L) - 1)
      PROVE  (front \o back)[k] = L[Stood(k, i)]
  <2>1. (front \o back)[k] = IF k <= i - 1 THEN front[k] ELSE back[k - (i - 1)]
    BY <1>1, <1>2, <1>3, ConcatProperties
  <2>2. CASE k < i
    BY <1>1, <1>2, <2>1, <2>2 DEF Stood
  <2>3. CASE ~(k < i)
    <3>1. k - (i - 1) \in 1..(Len(L) - i) /\ i + (k - (i - 1)) = k + 1 /\ ~(k <= i - 1)
      BY <1>1, <2>3
    <3> QED
      BY <1>3, <2>1, <2>3, <3>1 DEF Stood
  <2> QED
    BY <2>2, <2>3
<1> QED
  BY <1>4, <1>5 DEF RemoveAt, front, back

LEMMA RemovedEnts ==
  ASSUME NEW S, NEW L \in Seq(S), NEW i \in 1..Len(L), Single(L)
  PROVE  /\ RemoveAt(L, i) \in Seq(S) /\ Len(RemoveAt(L, i)) = Len(L) - 1
         /\ Single(RemoveAt(L, i)) /\ Ents(RemoveAt(L, i)) = Ents(L) \ {L[i]}
<1> DEFINE R == RemoveAt(L, i)
<1>0. Len(L) \in Nat
  OBVIOUS
<1>1. /\ R \in Seq(S) /\ Len(R) = Len(L) - 1 /\ Len(L) \in Nat
      /\ \A k \in 1..(Len(L) - 1) : R[k] = L[Stood(k, i)]
  BY <1>0, Removed
<1> HIDE DEF R
<1>2. ASSUME NEW j \in 1..(Len(L) - 1), NEW k \in 1..(Len(L) - 1)
      PROVE  /\ Stood(j, i) \in 1..Len(L) /\ Stood(j, i) # i
             /\ Stood(j, i) = Stood(k, i) => j = k
  BY <1>1 DEF Stood
<1>3. ASSUME NEW m \in 1..Len(L), m # i
      PROVE  \E k \in 1..(Len(L) - 1) : Stood(k, i) = m
  <2>1. CASE m < i
    <3>1. m \in 1..(Len(L) - 1) /\ Stood(m, i) = m
      BY <1>1, <2>1 DEF Stood
    <3> QED
      BY <3>1
  <2>2. CASE ~(m < i)
    <3>1. m - 1 \in 1..(Len(L) - 1) /\ Stood(m - 1, i) = m
      BY <1>1, <1>3, <2>2 DEF Stood
    <3> QED
      BY <3>1
  <2> QED
    BY <2>1, <2>2
<1>4. Single(R)
  <2> SUFFICES ASSUME NEW j \in 1..Len(R), NEW k \in 1..Len(R), R[j] = R[k] PROVE j = k
    BY DEF Single
  <2>1. L[Stood(j, i)] = L[Stood(k, i)]
    BY <1>1
  <2> QED
    BY <1>1, <1>2, <2>1 DEF Single
<1>5. ASSUME NEW e PROVE e \in Ents(R) <=> e \in Ents(L) \ {L[i]}
  <2>1. ASSUME e \in Ents(R) PROVE e \in Ents(L) \ {L[i]}
    <3>1. PICK k \in 1..(Len(L) - 1) : e = L[Stood(k, i)]
      BY <1>1, <2>1 DEF Ents
    <3>2. e # L[i]
      BY <1>2, <3>1 DEF Single
    <3> QED
      BY <1>2, <3>1, <3>2 DEF Ents
  <2>2. ASSUME e \in Ents(L) \ {L[i]} PROVE e \in Ents(R)
    <3>1. PICK m \in 1..Len(L) : e = L[m] /\ m # i
      BY <2>2 DEF Ents
    <3>2. PICK k \in 1..(Len(L) - 1) : Stood(k, i) = m
      BY <1>3, <3>1
    <3> QED
      BY <1>1, <3>1, <3>2 DEF Ents
  <2> QED
    BY <2>1, <2>2
<1>6. Ents(R) = Ents(L) \ {L[i]}
  BY <1>5
<1> QED
  BY <1>1, <1>4, <1>6 DEF R

LEMMA AppendedEnts ==
  ASSUME NEW S, NEW L \in Seq(S), NEW e \in S, Single(L), e \notin Ents(L)
  PROVE  /\ Append(L, e) \in Seq(S) /\ Len(Append(L, e)) = Len(L) + 1
         /\ Single(Append(L, e)) /\ Ents(Append(L, e)) = Ents(L) \cup {e}
         /\ \A k \in 1..Len(L) : Append(L, e)[k] = L[k]
<1> DEFINE A == Append(L, e)
<1>1. /\ A \in Seq(S) /\ Len(A) = Len(L) + 1 /\ Len(L) \in Nat
      /\ \A k \in 1..Len(L) : A[k] = L[k]
      /\ A[Len(L) + 1] = e
  BY AppendProperties
<1> HIDE DEF A
<1>2. Single(A)
  <2> SUFFICES ASSUME NEW j \in 1..Len(A), NEW k \in 1..Len(A), A[j] = A[k] PROVE j = k
    BY DEF Single
  <2>1. CASE j \in 1..Len(L) /\ k \in 1..Len(L)
    BY <1>1, <2>1 DEF Single
  <2>2. CASE j = Len(L) + 1 /\ k \in 1..Len(L)
    BY <1>1, <2>2 DEF Ents
  <2>3. CASE j \in 1..Len(L) /\ k = Len(L) + 1
    BY <1>1, <2>3 DEF Ents
  <2> QED
    BY <1>1, <2>1, <2>2, <2>3
<1>3. ASSUME NEW f PROVE f \in Ents(A) <=> f \in Ents(L) \cup {e}
  <2>1. ASSUME f \in Ents(A) PROVE f \in Ents(L) \cup {e}
    <3>1. PICK k \in 1..Len(A) : f = A[k]
      BY <2>1 DEF Ents
    <3>2. CASE k \in 1..Len(L)
      BY <1>1, <3>1, <3>2 DEF Ents
    <3>3. CASE k = Len(L) + 1
      BY <1>1, <3>1, <3>3
    <3> QED
      BY <1>1, <3>2, <3>3
  <2>2. ASSUME f \in Ents(L) PROVE f \in Ents(A)
    <3>1. PICK k \in 1..Len(L) : f = L[k]
      BY <2>2 DEF Ents
    <3>2. k \in 1..Len(A) /\ f = A[k]
      BY <1>1, <3>1
    <3> QED
      BY <3>2 DEF Ents
  <2>3. e \in Ents(A)
    <3>1. Len(L) + 1 \in 1..Len(A)
      BY <1>1
    <3> QED
      BY <1>1, <3>1 DEF Ents
  <2> QED
    BY <2>1, <2>2, <2>3
<1>4. Ents(A) = Ents(L) \cup {e}
  BY <1>3
<1> QED
  BY <1>1, <1>2, <1>4 DEF A

\* Position i of the list is replaced.
Changes(L, C, i, e) ==
  Len(C) = Len(L) /\ \A j \in 1..Len(L) : C[j] = IF j = i THEN e ELSE L[j]

LEMMA ChangedEnts ==
  ASSUME NEW L \in Seq(EntrySet), NEW i \in 1..Len(L), NEW e \in EntrySet, Single(L),
         e \notin Ents(L) \ {L[i]}, NEW C \in Seq(EntrySet), Changes(L, C, i, e)
  PROVE  Single(C) /\ Ents(C) = (Ents(L) \ {L[i]}) \cup {e}
<1>1. /\ Len(C) = Len(L) /\ Len(L) \in Nat
      /\ \A j \in 1..Len(L) : C[j] = IF j = i THEN e ELSE L[j]
  BY DEF Changes
<1>2. ASSUME NEW j \in 1..Len(L), j # i PROVE L[j] # e
  BY <1>2 DEF Ents, Single
<1>3. Single(C)
  BY <1>1, <1>2 DEF Single
<1>4. ASSUME NEW f PROVE f \in Ents(C) <=> f \in (Ents(L) \ {L[i]}) \cup {e}
  <2>1. ASSUME f \in Ents(C) PROVE f \in (Ents(L) \ {L[i]}) \cup {e}
    <3>1. PICK k \in 1..Len(L) : f = C[k]
      BY <1>1, <2>1 DEF Ents
    <3> QED
      BY <1>1, <3>1 DEF Ents, Single
  <2>2. ASSUME f \in Ents(L) \ {L[i]} PROVE f \in Ents(C)
    <3>1. PICK k \in 1..Len(L) : f = L[k] /\ k # i
      BY <2>2 DEF Ents
    <3> QED
      BY <1>1, <3>1 DEF Ents
  <2>3. e \in Ents(C)
    BY <1>1 DEF Ents
  <2> QED
    BY <2>1, <2>2, <2>3
<1>5. Ents(C) = (Ents(L) \ {L[i]}) \cup {e}
  BY <1>4
<1> QED
  BY <1>1, <1>3, <1>5

-----------------------------------------------------------------------------
\* The entry that a handled message leaves the list with, if it was in the list.
Gone(L, i) == IF i = 0 THEN {} ELSE {L[i]}

LEMMA WithoutEnts ==
  ASSUME NEW S, NEW L \in Seq(S), NEW i \in 0..Len(L), Single(L)
  PROVE  /\ Without(L, i) \in Seq(S) /\ Len(Without(L, i)) <= Len(L)
         /\ Single(Without(L, i)) /\ Ents(Without(L, i)) = Ents(L) \ Gone(L, i)
<1>1. Len(L) \in Nat
  OBVIOUS
<1>2. CASE i = 0
  BY <1>1, <1>2 DEF Without, Gone
<1>3. CASE i # 0
  <2>1. i \in 1..Len(L)
    BY <1>1, <1>3
  <2>2. Without(L, i) = RemoveAt(L, i) /\ Gone(L, i) = {L[i]}
    BY <1>3 DEF Without, Gone
  <2>3. /\ RemoveAt(L, i) \in Seq(S) /\ Len(RemoveAt(L, i)) = Len(L) - 1
        /\ Single(RemoveAt(L, i)) /\ Ents(RemoveAt(L, i)) = Ents(L) \ {L[i]}
    BY <2>1, RemovedEnts
  <2> QED
    BY <1>1, <2>2, <2>3
<1> QED
  BY <1>2, <1>3

LEMMA SavedEnts ==
  ASSUME NEW S, NEW L \in Seq(S), NEW i \in 0..Len(L), Single(L), NEW e \in S, e \notin Ents(L)
  PROVE  LET W == Without(Append(L, e), i)
         IN  /\ W \in Seq(S) /\ Len(W) <= Len(L) + 1
             /\ Single(W) /\ Ents(W) = (Ents(L) \ Gone(L, i)) \cup {e}
<1>1. /\ Append(L, e) \in Seq(S) /\ Len(Append(L, e)) = Len(L) + 1 /\ Len(L) \in Nat
      /\ Single(Append(L, e)) /\ Ents(Append(L, e)) = Ents(L) \cup {e}
      /\ \A k \in 1..Len(L) : Append(L, e)[k] = L[k]
  BY AppendedEnts
<1>2. i \in 0..Len(Append(L, e))
  BY <1>1
<1>3. Gone(Append(L, e), i) = Gone(L, i)
  <2>1. i = 0 \/ i \in 1..Len(L)
    BY <1>1
  <2> QED
    BY <1>1, <2>1 DEF Gone
<1>4. e \notin Gone(L, i)
  <2>1. i = 0 \/ L[i] \in Ents(L)
    BY <1>1 DEF Ents
  <2> QED
    BY <2>1 DEF Gone
<1> DEFINE A == Append(L, e)
<1> HIDE DEF A
<1>5. A \in Seq(S) /\ i \in 0..Len(A) /\ Single(A)
  BY <1>1, <1>2 DEF A
<1>6. /\ Without(A, i) \in Seq(S) /\ Len(Without(A, i)) <= Len(A)
      /\ Single(Without(A, i)) /\ Ents(Without(A, i)) = Ents(A) \ Gone(A, i)
  BY <1>5, WithoutEnts
<1> QED
  BY <1>1, <1>3, <1>4, <1>6 DEF A

-----------------------------------------------------------------------------
(***************************************************************************)
(* The invariant.                                                          *)
(***************************************************************************)
Entries == Ents(pending_requests)

Counted ==
  /\ \A c \in Conns : /\ req[c] <= requests /\ got[c] <= size[c]
                      /\ req[c] = 0 => size[c] = 0
  /\ broken \subseteq 1..requests /\ elaborated \subseteq 1..requests

\* No two entries were begun by the same request, and none by one the routes got.
Owners ==
  /\ Single(pending_requests)
  /\ \A e \in Entries : e.parts # <<>> /\ Owner(e) \in 1..requests /\ Owner(e) \notin elaborated
  /\ \A e, f \in Entries : Owner(e) = Owner(f) => e = f

Good(e) ==
  /\ req[e.conn] = Owner(e) /\ got[e.conn] = Len(e.parts)
  /\ size[e.conn] = e.total /\ got[e.conn] < size[e.conn] /\ header[e.conn] <= got[e.conn]
  /\ e.parts = Whole(Owner(e), Len(e.parts))

Sole ==
  \A e \in Entries : Owner(e) \notin broken =>
    Good(e) /\ \A f \in Entries : f.conn = e.conn => f = e

Underway ==
  \A c \in Conns : got[c] < size[c] /\ req[c] \notin broken =>
    \E e \in Entries : e.conn = c /\ Owner(e) = req[c]

ServerInv ==
  TypeOK /\ Counted /\ Owners /\ Sole /\ Underway /\ RequestWhole /\ Elaborated

\* What is known of the list and of the numbers whenever the invariant holds.
LEMMA Known ==
  ASSUME ServerInv
  PROVE  /\ pending_requests \in Seq(EntrySet) /\ Len(pending_requests) <= MaxPending
         /\ Len(pending_requests) \in Nat /\ MaxPending \in Nat /\ MaxRequests \in Nat
         /\ requests \in 0..MaxRequests /\ Single(pending_requests)
         /\ Entries \subseteq EntrySet
<1>1. pending_requests \in Seq(EntrySet) /\ Len(pending_requests) <= MaxPending
  BY DEF ServerInv, TypeOK, EntrySet
<1>2. Len(pending_requests) \in Nat
  BY <1>1
<1>3. requests \in 0..MaxRequests /\ Single(pending_requests)
  BY DEF ServerInv, TypeOK, Owners
<1>4. Entries \subseteq EntrySet
  BY <1>1, <1>2 DEF Entries, Ents
<1> QED
  BY <1>1, <1>2, <1>3, <1>4, ServerConstants

-----------------------------------------------------------------------------
(***************************************************************************)
(* One step on connection c, as the invariant sees it: how the connection  *)
(* moves, and how the list, the routes and the histories change when a     *)
(* message begun by request r is handled (entries gone, entries come).     *)
(***************************************************************************)
Moved(c) ==
  /\ c \in Conns
  /\ req' \in [Conns -> 0..MaxRequests] /\ size' \in [Conns -> Nat]
  /\ header' \in [Conns -> Nat] /\ got' \in [Conns -> Nat]
  /\ \A d \in Conns \ {c} : /\ req'[d] = req[d] /\ size'[d] = size[d]
                            /\ header'[d] = header[d] /\ got'[d] = got[d]
  /\ requests' \in 0..MaxRequests /\ requests <= requests' /\ faults' \in 0..MaxFaults
  /\ req'[c] \in 1..requests' /\ got'[c] <= size'[c]

ListIs(gone, come) ==
  /\ pending_requests' \in Seq(EntrySet) /\ Len(pending_requests') <= MaxPending
  /\ Single(pending_requests') /\ Entries' = (Entries \ gone) \cup come

RoutesGet(r) ==
  /\ routed' \in [req : 0..MaxRequests, size : Nat, parts : Seq(Piece)]
  /\ routed'.req = r /\ elaborated' = elaborated \cup {r}
  /\ r \notin broken' => routed'.parts = Whole(r, routed'.size)

Quiet == routed' = NotRouted /\ elaborated' = elaborated

\* The entries that stay are not r's, and those of its connection met a fault.
Stay(c, r, gone) ==
  \A e \in Entries \ gone : Owner(e) # r /\ (e.conn = c => Owner(e) \in broken)

Handles(c, r, gone, come) ==
  /\ ListIs(gone, come) /\ Stay(c, r, gone) /\ \A e \in gone : e.conn = c
  /\ r \in 1..requests' /\ r \notin elaborated
  /\ broken' \in {broken, broken \cup {r}}
  /\ \A e \in come : /\ e.conn = c /\ Owner(e) = r /\ e.parts # <<>>
                     /\ r \notin broken' => Good(e)' /\ \A f \in Entries \ gone : f.conn # c
  /\ \A e, f \in come : e = f
  /\ Quiet \/ (come = {} /\ RoutesGet(r))
  /\ got'[c] < size'[c] /\ req'[c] \notin broken' => come # {} /\ req'[c] = r
  /\ got'[c] = size'[c] => req'[c] \in elaborated' \cup broken'

\* Another connection's entries are as good as before.
LEMMA GoodElsewhere ==
  ASSUME NEW c, Moved(c), NEW e, e.conn \in Conns \ {c}, Good(e)
  PROVE  Good(e)'
BY DEF Moved, Good

LEMMA HandledKeeps ==
  ASSUME ServerInv, NEW c, NEW r, NEW gone, NEW come, Moved(c), Handles(c, r, gone, come)
  PROVE  ServerInv' /\ routed'.req \notin elaborated
<1>1. /\ Entries \subseteq EntrySet /\ requests \in Nat /\ requests' \in Nat
      /\ requests <= requests' /\ requests' <= MaxRequests /\ MaxRequests \in Nat
      /\ Entries' = (Entries \ gone) \cup come
  BY Known DEF Moved, Handles, ListIs
<1>2. /\ broken' \subseteq 1..requests' /\ elaborated' \subseteq 1..requests'
      /\ broken \subseteq broken' /\ broken' \subseteq broken \cup {r}
      /\ elaborated \subseteq elaborated' /\ r \in 1..requests' /\ r \notin elaborated
  <2>1. broken \subseteq 1..requests' /\ elaborated \subseteq 1..requests'
    BY <1>1 DEF ServerInv, Counted
  <2> QED
    BY <2>1 DEF Handles, Quiet, RoutesGet
<1>3. TypeOK'
  <2>1. pending_requests' \in Seq(EntrySet) /\ Len(pending_requests') <= MaxPending
    BY DEF Handles, ListIs
  <2>2. broken' \subseteq 1..MaxRequests /\ elaborated' \subseteq 1..MaxRequests
    BY <1>1, <1>2
  <2>3. routed' \in [req : 0..MaxRequests, size : Nat, parts : Seq(Piece)]
    <3>1. NotRouted \in [req : 0..MaxRequests, size : Nat, parts : Seq(Piece)]
      <4>1. <<>> \in Seq(Piece) /\ 0 \in 0..MaxRequests /\ 0 \in Nat
        BY <1>1
      <4> QED
        BY <4>1 DEF NotRouted
    <3> QED
      BY <3>1 DEF Handles, Quiet, RoutesGet
  <2> QED
    BY <2>1, <2>2, <2>3 DEF TypeOK, Moved, EntrySet
<1>4. Counted'
  <2> SUFFICES ASSUME NEW d \in Conns
               PROVE  /\ req'[d] <= requests' /\ got'[d] <= size'[d]
                      /\ req'[d] = 0 => size'[d] = 0
    BY <1>2 DEF Counted
  <2>1. CASE d = c
    BY <1>1, <2>1 DEF Moved
  <2>2. CASE d # c
    <3>1. req[d] <= requests /\ got[d] <= size[d] /\ (req[d] = 0 => size[d] = 0)
      BY DEF ServerInv, Counted
    <3>2. req'[d] = req[d] /\ size'[d] = size[d] /\ got'[d] = got[d] /\ req[d] \in Nat
      BY <1>1, <2>2 DEF Moved, ServerInv, TypeOK
    <3> QED
      BY <1>1, <3>1, <3>2
  <2> QED
    BY <2>1, <2>2
<1>5. Owners'
  <2>1. Single(pending_requests')
    BY DEF Handles, ListIs
  <2>2. ASSUME NEW e \in Entries'
        PROVE  e.parts # <<>> /\ Owner(e) \in 1..requests' /\ Owner(e) \notin elaborated'
    <3>1. CASE e \in Entries \ gone
      <4>1. e.parts # <<>> /\ Owner(e) \in 1..requests /\ Owner(e) \notin elaborated
        BY <3>1 DEF ServerInv, Owners
      <4>2. Owner(e) # r
        BY <3>1 DEF Handles, Stay
      <4> QED
        BY <1>1, <4>1, <4>2 DEF Handles, Quiet, RoutesGet
    <3>2. CASE e \in come
      <4>1. Owner(e) = r /\ e.parts # <<>> /\ elaborated' = elaborated
        BY <3>2 DEF Handles, Quiet
      <4> QED
        BY <1>2, <4>1
    <3> QED
      BY <1>1, <3>1, <3>2
  <2>3. ASSUME NEW e \in Entries', NEW f \in Entries', Owner(e) = Owner(f)
        PROVE  e = f
    <3>1. CASE e \in Entries \ gone /\ f \in Entries \ gone
      BY <2>3, <3>1 DEF ServerInv, Owners
    <3>2. CASE e \in come /\ f \in come
      BY <3>2 DEF Handles
    <3>3. ~(e \in come /\ f \in Entries \ gone) /\ ~(f \in come /\ e \in Entries \ gone)
      BY <2>3 DEF Handles, Stay
    <3> QED
      BY <1>1, <3>1, <3>2, <3>3
  <2> QED
    BY <2>1, <2>2, <2>3 DEF Owners
<1>6. Sole'
  <2> SUFFICES ASSUME NEW e \in Entries', Owner(e) \notin broken'
               PROVE  Good(e)' /\ \A f \in Entries' : f.conn = e.conn => f = e
    BY DEF Sole, Owner
  <2>1. CASE e \in Entries \ gone
    <3>1. Owner(e) \notin broken /\ e.conn # c
      BY <1>2, <2>1 DEF Handles, Stay
    <3>2. Good(e) /\ \A f \in Entries : f.conn = e.conn => f = e
      BY <2>1, <3>1 DEF ServerInv, Sole
    <3>3. e.conn \in Conns \ {c}
      BY <1>1, <2>1, <3>1 DEF EntrySet
    <3>4. Good(e)'
      BY <3>2, <3>3, GoodElsewhere
    <3>5. \A f \in come : f.conn # e.conn
      BY <3>1 DEF Handles
    <3> QED
      BY <1>1, <3>2, <3>4, <3>5
  <2>2. CASE e \in come
    <3>1. e.conn = c /\ Owner(e) = r
      BY <2>2 DEF Handles
    <3>2. Good(e)' /\ \A f \in Entries \ gone : f.conn # c
      BY <2>2, <3>1 DEF Handles
    <3>3. \A f \in come : f = e
      BY <2>2 DEF Handles
    <3> QED
      BY <1>1, <3>1, <3>2, <3>3
  <2> QED
    BY <1>1, <2>1, <2>2
<1>7. Underway'
  <2> SUFFICES ASSUME NEW d \in Conns, got'[d] < size'[d], req'[d] \notin broken'
               PROVE  \E e \in Entries' : e.conn = d /\ Owner(e) = req'[d]
    BY DEF Underway, Owner
  <2>1. CASE d = c
    <3>1. come # {} /\ req'[c] = r
      BY <2>1 DEF Handles
    <3>2. PICK e \in come : TRUE
      BY <3>1
    <3>3. e.conn = c /\ Owner(e) = r
      BY DEF Handles
    <3> QED
      BY <1>1, <2>1, <3>1, <3>3
  <2>2. CASE d # c
    <3>1. req'[d] = req[d] /\ size'[d] = size[d] /\ got'[d] = got[d]
      BY <2>2 DEF Moved
    <3>2. req[d] \notin broken
      BY <1>2, <3>1
    <3>3. PICK e \in Entries : e.conn = d /\ Owner(e) = req[d]
      BY <3>1, <3>2 DEF ServerInv, Underway
    <3>4. e \notin gone
      BY <2>2, <3>3 DEF Handles
    <3> QED
      BY <1>1, <3>1, <3>3, <3>4
  <2> QED
    BY <2>1, <2>2
<1>8. RequestWhole'
  BY DEF Handles, Quiet, RoutesGet, RequestWhole, NotRouted
<1>9. Elaborated'
  <2> SUFFICES ASSUME NEW d \in Conns, got'[d] = size'[d], req'[d] > 0
               PROVE  req'[d] \in elaborated' \cup broken'
    BY DEF Elaborated
  <2>1. CASE d = c
    BY <2>1 DEF Handles
  <2>2. CASE d # c
    BY <1>2, <2>2 DEF Moved, ServerInv, Elaborated
  <2> QED
    BY <2>1, <2>2
<1>10. routed'.req \notin elaborated
  <2>1. 0 \notin elaborated
    BY <1>1 DEF ServerInv, Counted
  <2> QED
    BY <1>2, <2>1 DEF Handles, Quiet, RoutesGet, NotRouted
<1> QED
  BY <1>3, <1>4, <1>5, <1>6, <1>7, <1>8, <1>9, <1>10 DEF ServerInv

-----------------------------------------------------------------------------
(***************************************************************************)
(* A message: parts, which came on c and are in entry i.  Either its       *)
(* request met a fault, or it is the connection's and in order.            *)
(***************************************************************************)
Begun(parts) == parts[1][1]

Context(c, n, h, parts, i) ==
  /\ Moved(c) /\ n \in Nat /\ h \in Nat /\ i \in 0..Len(pending_requests)
  /\ parts \in Seq(Piece) /\ parts # <<>>
  /\ \A e \in Gone(pending_requests, i) :
       e.conn = c /\ Owner(e) = Begun(parts) /\ Len(e.parts) # Len(parts)
  /\ Stay(c, Begun(parts), Gone(pending_requests, i))
  /\ Begun(parts) \in 1..requests' /\ Begun(parts) \notin elaborated
  /\ req'[c] = Begun(parts) \/ req'[c] \in broken
  /\ Begun(parts) \in broken
     \/ /\ n = size'[c] /\ h = header'[c] /\ req'[c] = Begun(parts)
        /\ got'[c] = Len(parts) /\ parts = Whole(Begun(parts), Len(parts))

Marks(r) == broken' \in {broken, broken \cup {r}}

LEMMA DroppedHandles ==
  ASSUME ServerInv, NEW c, NEW n, NEW h, NEW parts, NEW i, Context(c, n, h, parts, i),
         Dropped(i), Marks(Begun(parts)), Begun(parts) \in broken'
  PROVE  Handles(c, Begun(parts), Gone(pending_requests, i), {})
<1>1. ListIs(Gone(pending_requests, i), {})
  <2>1. pending_requests' = Without(pending_requests, i)
    BY DEF Dropped
  <2>2. /\ pending_requests \in Seq(EntrySet) /\ Len(pending_requests) <= MaxPending
        /\ Len(pending_requests) \in Nat /\ MaxPending \in Nat /\ Single(pending_requests)
    BY Known
  <2>3. /\ pending_requests' \in Seq(EntrySet) /\ Len(pending_requests') <= Len(pending_requests)
        /\ Single(pending_requests') /\ Entries' = Entries \ Gone(pending_requests, i)
    BY <2>1, <2>2, WithoutEnts DEF Context, Entries
  <2> QED
    BY <2>2, <2>3 DEF ListIs
<1>2. Quiet
  BY DEF Dropped, Quiet
<1>3. req'[c] \in broken'
  BY DEF Context, Marks
<1> QED
  BY <1>1, <1>2, <1>3 DEF Handles, Context, Marks

LEMMA RoutedHandles ==
  ASSUME ServerInv, NEW c, NEW n, NEW h, NEW parts, NEW i, Context(c, n, h, parts, i),
         Routed(n, parts, i), Marks(Begun(parts)), Begun(parts) \in broken' \/ Len(parts) = n
  PROVE  Handles(c, Begun(parts), Gone(pending_requests, i), {})
<1> DEFINE r == Begun(parts)
<1>1. ListIs(Gone(pending_requests, i), {})
  <2>1. pending_requests' = Without(pending_requests, i)
    BY DEF Routed
  <2>2. /\ pending_requests \in Seq(EntrySet) /\ Len(pending_requests) <= MaxPending
        /\ Len(pending_requests) \in Nat /\ MaxPending \in Nat /\ Single(pending_requests)
    BY Known
  <2>3. /\ pending_requests' \in Seq(EntrySet) /\ Len(pending_requests') <= Len(pending_requests)
        /\ Single(pending_requests') /\ Entries' = Entries \ Gone(pending_requests, i)
    BY <2>1, <2>2, WithoutEnts DEF Context, Entries
  <2> QED
    BY <2>2, <2>3 DEF ListIs
<1>2. /\ routed' = [req |-> r, size |-> n, parts |-> parts] /\ elaborated' = elaborated \cup {r}
      /\ r \in 1..requests' /\ requests' \in 0..MaxRequests /\ MaxRequests \in Nat
  BY ServerConstants DEF Routed, Context, Moved, Begun
<1>3. ASSUME r \notin broken'
      PROVE  /\ parts = Whole(r, n) /\ got'[c] = size'[c] /\ req'[c] = r
  BY <1>3 DEF Context, Marks
<1>4. RoutesGet(r)
  <2>1. routed' \in [req : 0..MaxRequests, size : Nat, parts : Seq(Piece)]
    BY <1>2 DEF Context
  <2> QED
    BY <1>2, <1>3, <2>1 DEF RoutesGet
<1>5. got'[c] < size'[c] => req'[c] \in broken'
  <2>1. got'[c] \in Nat /\ size'[c] \in Nat
    BY DEF Context, Moved
  <2>2. CASE r \in broken'
    BY <2>2 DEF Context, Marks
  <2>3. CASE r \notin broken'
    BY <1>3, <2>1, <2>3
  <2> QED
    BY <2>2, <2>3
<1>6. req'[c] \in elaborated' \cup broken'
  BY <1>2 DEF Context, Marks
<1> QED
  BY <1>1, <1>4, <1>5, <1>6 DEF Handles, Context, Marks

LEMMA BareHandles ==
  ASSUME ServerInv, NEW c, NEW n, NEW h, NEW parts, NEW i, Context(c, n, h, parts, i),
         RoutedBare(n, Begun(parts), i), Marks(Begun(parts)), Begun(parts) \in broken'
  PROVE  Handles(c, Begun(parts), Gone(pending_requests, i), {})
<1> DEFINE r == Begun(parts)
<1>1. ListIs(Gone(pending_requests, i), {})
  <2>1. pending_requests' = Without(pending_requests, i)
    BY DEF RoutedBare
  <2>2. /\ pending_requests \in Seq(EntrySet) /\ Len(pending_requests) <= MaxPending
        /\ Len(pending_requests) \in Nat /\ MaxPending \in Nat /\ Single(pending_requests)
    BY Known
  <2>3. /\ pending_requests' \in Seq(EntrySet) /\ Len(pending_requests') <= Len(pending_requests)
        /\ Single(pending_requests') /\ Entries' = Entries \ Gone(pending_requests, i)
    BY <2>1, <2>2, WithoutEnts DEF Context, Entries
  <2> QED
    BY <2>2, <2>3 DEF ListIs
<1>2. /\ routed' = [req |-> r, size |-> n, parts |-> <<>>] /\ elaborated' = elaborated \cup {r}
      /\ r \in 1..requests' /\ requests' \in 0..MaxRequests /\ MaxRequests \in Nat
  BY ServerConstants DEF RoutedBare, Context, Moved
<1>3. RoutesGet(r)
  <2>1. routed' \in [req : 0..MaxRequests, size : Nat, parts : Seq(Piece)]
    BY <1>2 DEF Context
  <2> QED
    BY <1>2, <2>1 DEF RoutesGet
<1>4. req'[c] \in broken'
  BY DEF Context, Marks
<1> QED
  BY <1>1, <1>3, <1>4 DEF Handles, Context, Marks

LEMMA SavedHandles ==
  ASSUME ServerInv, NEW c, NEW n, NEW h, NEW parts, NEW i, Context(c, n, h, parts, i),
         NEW total \in Nat, Saved(c, total, parts, i), Len(pending_requests) < MaxPending,
         Marks(Begun(parts)),
         \/ Begun(parts) \in broken'
         \/ h <= Len(parts) /\ Len(parts) < n /\ total = n /\ Mine(c) \subseteq {i}
  PROVE  Handles(c, Begun(parts), Gone(pending_requests, i), {Entry(c, total, parts)})
<1> DEFINE r == Begun(parts)
           E == Entry(c, total, parts)
           gone == Gone(pending_requests, i)
<1>1. E \in EntrySet /\ E.conn = c /\ E.total = total /\ E.parts = parts /\ Owner(E) = r
  BY DEF Context, Moved, Entry, EntrySet, Owner, Begun
<1>2. E \notin Entries
  <2>1. E \notin gone
    BY <1>1 DEF Context
  <2>2. E \notin Entries \ gone
    BY <1>1 DEF Context, Stay
  <2> QED
    BY <2>1, <2>2
<1> HIDE DEF E
<1>3. ListIs(gone, {E})
  <2>1. pending_requests' = Without(Append(pending_requests, E), i)
    BY DEF Saved, E
  <2>2. /\ pending_requests \in Seq(EntrySet)
        /\ Len(pending_requests) \in Nat /\ MaxPending \in Nat /\ Single(pending_requests)
    BY Known
  <2>3. i \in 0..Len(pending_requests) /\ E \notin Ents(pending_requests)
    BY <1>2 DEF Context, Entries
  <2>4. /\ pending_requests' \in Seq(EntrySet)
        /\ Len(pending_requests') <= Len(pending_requests) + 1
        /\ Single(pending_requests') /\ Entries' = (Entries \ gone) \cup {E}
    BY <1>1, <2>1, <2>2, <2>3, SavedEnts DEF Entries
  <2>5. Len(pending_requests') \in Nat
    BY <2>4
  <2> QED
    BY <2>2, <2>4, <2>5 DEF ListIs
<1>4. Quiet
  BY DEF Saved, Quiet
<1>5. ASSUME r \notin broken'
      PROVE  /\ Good(E)' /\ got'[c] < size'[c] /\ req'[c] = r
             /\ \A f \in Entries \ gone : f.conn # c
  <2>1. /\ h <= Len(parts) /\ Len(parts) < n /\ total = n /\ Mine(c) \subseteq {i}
        /\ n = size'[c] /\ h = header'[c] /\ req'[c] = r
        /\ got'[c] = Len(parts) /\ parts = Whole(r, Len(parts))
    BY <1>5 DEF Context, Marks
  <2>2. Good(E)'
    BY <1>1, <2>1 DEF Good, Owner
  <2>3. ASSUME NEW f \in Entries \ gone, f.conn = c PROVE FALSE
    <3>1. PICK k \in 1..Len(pending_requests) : f = pending_requests[k]
      BY DEF Entries, Ents
    <3>2. k \in Mine(c)
      <4>1. DOMAIN pending_requests = 1..Len(pending_requests)
        BY Known
      <4> QED
        BY <2>3, <3>1, <4>1 DEF Mine
    <3>3. k = i /\ i # 0
      BY <2>1, <3>2
    <3> QED
      BY <2>3, <3>1, <3>3 DEF Gone
  <2> QED
    BY <2>1, <2>2, <2>3
<1>6. req'[c] \in broken' \/ (req'[c] = r /\ (got'[c] < size'[c] \/ r \in broken'))
  BY <1>5 DEF Context, Marks
<1>7. got'[c] \in Nat /\ size'[c] \in Nat
  BY DEF Context, Moved
<1>8. parts # <<>>
  BY DEF Context
<1> QED
  <2>1. got'[c] < size'[c] /\ req'[c] \notin broken' => {E} # {} /\ req'[c] = r
    BY <1>6
  <2>2. got'[c] = size'[c] => req'[c] \in elaborated' \cup broken'
    BY <1>6, <1>7
  <2>3. \A e \in {E} : /\ e.conn = c /\ Owner(e) = r /\ e.parts # <<>>
                       /\ r \notin broken' => Good(e)' /\ \A f \in Entries \ gone : f.conn # c
    BY <1>1, <1>5, <1>8
  <2>4. /\ Stay(c, r, gone) /\ \A e \in gone : e.conn = c
        /\ r \in 1..requests' /\ r \notin elaborated
        /\ broken' \in {broken, broken \cup {r}}
    BY DEF Context, Marks
  <2>5. Handles(c, r, gone, {E})
    BY <1>3, <1>4, <2>1, <2>2, <2>3, <2>4 DEF Handles
  <2> QED
    BY <2>5 DEF E

-----------------------------------------------------------------------------
\* An allocation holds or fails within the bound.
LEMMA Faults == ASSUME faults \in 0..MaxFaults, HeapHolds \/ HeapFails
                PROVE  faults' \in 0..MaxFaults
BY ServerConstants DEF HeapHolds, HeapFails

LEMMA MessageFaults ==
  ASSUME NEW c, NEW n, NEW h, NEW parts, NEW i, Message(c, n, h, parts, i)
  PROVE  HeapHolds \/ HeapFails
BY DEF Message, http_save_pending_request

LEMMA UnsetKeeps ==
  ASSUME ServerInv, NEW c, NEW n, NEW h, NEW parts, NEW i, Context(c, n, h, parts, i),
         Unset(c, n, parts, i), Marks(Begun(parts)), Begun(parts) \in broken'
  PROVE  ServerInv' /\ routed'.req \notin elaborated
<1>1. Moved(c)
  BY DEF Context
<1>2. CASE Dropped(i)
  BY <1>1, <1>2, DroppedHandles, HandledKeeps
<1>3. CASE RoutedBare(n, parts[1][1], i)
  BY <1>1, <1>3, BareHandles, HandledKeeps DEF Begun
<1>4. CASE /\ Len(pending_requests) < MaxPending
           /\ \E total \in {Unreachable} \cup (Len(parts) + 1)..n : Saved(c, total, parts, i)
  <2>1. PICK total \in {Unreachable} \cup (Len(parts) + 1)..n : Saved(c, total, parts, i)
    BY <1>4
  <2>2. total \in Nat
    <3>1. Len(parts) \in Nat /\ n \in Nat
      BY DEF Context
    <3> QED
      BY <3>1 DEF Unreachable
  <2> QED
    BY <1>1, <1>4, <2>1, <2>2, SavedHandles, HandledKeeps
<1> QED
  BY <1>2, <1>3, <1>4 DEF Unset

LEMMA MessageKeeps ==
  ASSUME ServerInv, NEW c, NEW n, NEW h, NEW parts, NEW i, Context(c, n, h, parts, i),
         Message(c, n, h, parts, i)
  PROVE  ServerInv' /\ routed'.req \notin elaborated
<1> DEFINE r == Begun(parts)
<1>1. Moved(c) /\ n \in Nat /\ Len(parts) \in Nat
  BY DEF Context
<1>2. CASE /\ h <= Len(parts) /\ Len(parts) = n
           /\ HeapHolds /\ Routed(n, parts, i)
           /\ UNCHANGED broken
  BY <1>1, <1>2, RoutedHandles, HandledKeeps DEF Marks
<1>3. CASE /\ h <= Len(parts) /\ Len(parts) < n
           /\ http_save_pending_request(c, n, parts, i)
           /\ broken' = IF Len(pending_requests') = Len(Without(pending_requests, i)) + 1
                           /\ Mine(c) \subseteq {i}
                        THEN broken ELSE broken \cup {parts[1][1]}
  <2>1. Marks(r)
    BY <1>3 DEF Marks, Begun
  <2>2. CASE Len(pending_requests) < MaxPending /\ Saved(c, n, parts, i)
    <3>1. r \in broken' \/ Mine(c) \subseteq {i}
      BY <1>3 DEF Begun
    <3> QED
      BY <1>1, <1>3, <2>1, <2>2, <3>1, SavedHandles, HandledKeeps
  <2>3. CASE Dropped(i)
    <3>1. Len(Without(pending_requests, i)) \in Nat
      <4>1. Without(pending_requests, i) \in Seq(EntrySet)
        BY Known, WithoutEnts DEF Context
      <4> QED
        BY <4>1
    <3>2. r \in broken'
      BY <1>3, <2>3, <3>1 DEF Dropped, Begun
    <3> QED
      BY <1>1, <2>1, <2>3, <3>2, DroppedHandles, HandledKeeps
  <2> QED
    BY <1>3, <2>2, <2>3 DEF http_save_pending_request
<1>4. CASE /\ \/ Len(parts) < h /\ HeapHolds
              \/ HeapFails
           /\ Unset(c, n, parts, i)
           /\ broken' = broken \cup {parts[1][1]}
  BY <1>4, UnsetKeeps DEF Marks, Begun
<1>5. CASE /\ HeapFails /\ h <= Len(parts)
           /\ Routed(n, parts, i)
           /\ broken' = broken \cup {parts[1][1]}
  BY <1>1, <1>5, RoutedHandles, HandledKeeps DEF Marks, Begun
<1> QED
  BY <1>2, <1>3, <1>4, <1>5 DEF Message

-----------------------------------------------------------------------------
LEMMA FirstPieceKeeps ==
  ASSUME ServerInv, NEW c \in Conns, FirstPiece(c)
  PROVE  ServerInv' /\ routed'.req \notin elaborated
<1> DEFINE r == requests + 1
           parts == <<<<r, 1>>>>
<1>1. /\ got[c] = size[c] /\ requests < MaxRequests /\ requests' = r
      /\ req' = [req EXCEPT ![c] = r] /\ got' = [got EXCEPT ![c] = 1]
  BY DEF FirstPiece
<1>2. PICK s \in Shapes :
        /\ size' = [size EXCEPT ![c] = s[1]] /\ header' = [header EXCEPT ![c] = s[2]]
        /\ Message(c, s[1], s[2], parts, 0)
  BY DEF FirstPiece
<1>3. s[1] \in Nat /\ s[2] \in Nat /\ 1 <= s[1]
  BY ServerConstants
<1>4. /\ requests \in 0..MaxRequests /\ MaxRequests \in Nat /\ r \in 1..MaxRequests
      /\ Entries \subseteq EntrySet
  BY <1>1, Known
<1>5. /\ req \in [Conns -> 0..MaxRequests] /\ size \in [Conns -> Nat]
      /\ header \in [Conns -> Nat] /\ got \in [Conns -> Nat] /\ faults \in 0..MaxFaults
  BY DEF ServerInv, TypeOK
<1>6. Moved(c)
  <2>1. faults' \in 0..MaxFaults
    BY <1>2, <1>5, MessageFaults, Faults
  <2>2. req' \in [Conns -> 0..MaxRequests] /\ req'[c] = r
    BY <1>1, <1>4, <1>5
  <2>3. /\ size' \in [Conns -> Nat] /\ header' \in [Conns -> Nat] /\ got' \in [Conns -> Nat]
        /\ size'[c] = s[1] /\ header'[c] = s[2] /\ got'[c] = 1
    BY <1>1, <1>2, <1>3, <1>5
  <2>4. \A d \in Conns \ {c} : /\ req'[d] = req[d] /\ size'[d] = size[d]
                               /\ header'[d] = header[d] /\ got'[d] = got[d]
    BY <1>1, <1>2, <1>5
  <2> QED
    BY <1>1, <1>3, <1>4, <2>1, <2>2, <2>3, <2>4 DEF Moved
<1>7. parts \in Seq(Piece) /\ Len(parts) = 1 /\ Begun(parts) = r /\ parts = Whole(r, 1)
  <2>1. <<r, 1>> \in Piece
    BY <1>4 DEF Piece
  <2>2. parts \in Seq(Piece) /\ Len(parts) = 1 /\ Begun(parts) = r
    BY <2>1 DEF Begun
  <2>3. Whole(r, 1) = [k \in 1..1 |-> <<r, k>>]
    BY DEF Whole
  <2>4. parts = [k \in 1..1 |-> <<r, k>>]
    OBVIOUS
  <2> QED
    BY <2>2, <2>3, <2>4
<1>8. Context(c, s[1], s[2], parts, 0)
  <2>1. Stay(c, r, {})
    <3> SUFFICES ASSUME NEW e \in Entries
                 PROVE  Owner(e) # r /\ (e.conn = c => Owner(e) \in broken)
      BY DEF Stay
    <3>1. Owner(e) # r
      BY <1>4 DEF ServerInv, Owners
    <3>2. ASSUME e.conn = c, Owner(e) \notin broken PROVE FALSE
      <4>1. got[c] < size[c]
        BY <3>2 DEF ServerInv, Sole, Good
      <4> QED
        BY <1>1, <1>5, <4>1
    <3> QED
      BY <3>1, <3>2
  <2>2. r \notin elaborated /\ r \in 1..requests'
    BY <1>1, <1>4 DEF ServerInv, Counted
  <2>3. Gone(pending_requests, 0) = {} /\ 0 \in 0..Len(pending_requests)
    BY Known DEF Gone
  <2>4. req'[c] = r /\ got'[c] = 1 /\ size'[c] = s[1] /\ header'[c] = s[2]
    BY <1>1, <1>2, <1>5
  <2>5. parts # <<>>
    OBVIOUS
  <2> HIDE DEF parts
  <2>6. /\ s[1] = size'[c] /\ s[2] = header'[c] /\ req'[c] = Begun(parts)
        /\ got'[c] = Len(parts) /\ parts = Whole(Begun(parts), Len(parts))
    BY <1>7, <2>4
  <2>7. /\ \A e \in Gone(pending_requests, 0) :
             e.conn = c /\ Owner(e) = Begun(parts) /\ Len(e.parts) # Len(parts)
        /\ Stay(c, Begun(parts), Gone(pending_requests, 0))
        /\ Begun(parts) \in 1..requests' /\ Begun(parts) \notin elaborated
    BY <1>7, <2>1, <2>2, <2>3
  <2> QED
    BY <1>3, <1>6, <1>7, <2>3, <2>5, <2>6, <2>7 DEF Context
<1> HIDE DEF parts
<1> QED
  BY <1>2, <1>8, MessageKeeps

-----------------------------------------------------------------------------
\* The entry that http_check_pending_requests takes is the first of the list.
LEMMA FirstMine ==
  ASSUME NEW c, Mine(c) # {}, ServerInv
  PROVE  First(Mine(c)) \in Mine(c)
<1>1. Mine(c) \subseteq Nat
  BY Known DEF Mine
<1>2. PICK k \in Mine(c) : \A m \in Mine(c) : <<m, k>> \notin OpToRel(<, Nat)
  BY <1>1, WFMin, NatLessThanWellFounded, Zenon
<1>3. ASSUME NEW m \in Mine(c)
      PROVE  ~(m < k)
  BY <1>1, <1>2 DEF OpToRel
<1>4. \A m \in Mine(c) : k <= m
  BY <1>1, <1>3
<1> QED
  BY <1>4 DEF First

\* What is known of that entry when a piece comes on c.
LEMMA AtEntry ==
  ASSUME ServerInv, NEW c \in Conns, got[c] < size[c], Mine(c) # {}
  PROVE  LET i == First(Mine(c))
             e == pending_requests[i]
         IN  /\ i \in 1..Len(pending_requests) /\ e \in Entries /\ e \in EntrySet
             /\ e.conn = c /\ e.parts # <<>>
             /\ Owner(e) \in 1..requests /\ Owner(e) \notin elaborated /\ Stay(c, Owner(e), {e})
             /\ Owner(e) \notin broken => Good(e) /\ \A f \in Entries : f.conn = c => f = e
             /\ req[c] = Owner(e) \/ (req[c] \in broken /\ Owner(e) \in broken)
             /\ Owner(e) \in broken => req[c] \in broken
<1> DEFINE i == First(Mine(c))
           e == pending_requests[i]
<1>1. i \in 1..Len(pending_requests) /\ e.conn = c
  <2>1. i \in Mine(c)
    BY FirstMine
  <2>2. DOMAIN pending_requests = 1..Len(pending_requests)
    BY Known
  <2> QED
    BY <2>1, <2>2 DEF Mine
<1> HIDE DEF i
<1>2. e \in Entries /\ e \in EntrySet
  BY <1>1, Known DEF Entries, Ents
<1> HIDE DEF e
<1>3. e.parts # <<>> /\ Owner(e) \in 1..requests /\ Owner(e) \notin elaborated
  BY <1>2 DEF ServerInv, Owners
<1>4. Owner(e) \notin broken => Good(e) /\ \A f \in Entries : f.conn = c => f = e
  BY <1>1, <1>2 DEF ServerInv, Sole
<1>5. ASSUME NEW f \in Entries \ {e}
      PROVE  Owner(f) # Owner(e) /\ (f.conn = c => Owner(f) \in broken)
  BY <1>1, <1>2 DEF ServerInv, Owners, Sole
<1>6. ASSUME req[c] \notin broken PROVE req[c] = Owner(e) /\ Owner(e) \notin broken
  <2>1. PICK f \in Entries : f.conn = c /\ Owner(f) = req[c]
    BY <1>6 DEF ServerInv, Underway
  <2>2. f = e
    BY <1>1, <1>2, <1>6, <2>1 DEF ServerInv, Sole
  <2> QED
    BY <1>6, <2>1, <2>2
<1>7. Owner(e) \notin broken => req[c] = Owner(e)
  BY <1>1, <1>4 DEF Good
<1>8. Stay(c, Owner(e), {e})
  BY <1>5 DEF Stay
<1> QED
  BY <1>1, <1>2, <1>3, <1>4, <1>6, <1>7, <1>8 DEF i, e

\* The connection receives a piece.
LEMMA ReceivedMoves ==
  ASSUME ServerInv, NEW c \in Conns, got[c] < size[c], Received(c), faults' \in 0..MaxFaults
  PROVE  /\ Moved(c) /\ req'[c] = req[c] /\ size'[c] = size[c] /\ header'[c] = header[c]
         /\ got'[c] = got[c] + 1 /\ got[c] \in Nat /\ size[c] \in Nat /\ header[c] \in Nat
         /\ <<req[c], got[c] + 1>> \in Piece
<1>1. /\ req \in [Conns -> 0..MaxRequests] /\ size \in [Conns -> Nat]
      /\ header \in [Conns -> Nat] /\ got \in [Conns -> Nat]
      /\ requests \in 0..MaxRequests /\ MaxRequests \in Nat
  BY Known DEF ServerInv, TypeOK
<1>2. req[c] \in 1..requests /\ req[c] \in 1..MaxRequests
  BY <1>1 DEF ServerInv, Counted
<1>3. got' = [got EXCEPT ![c] = got[c] + 1] /\ UNCHANGED <<req, size, header, requests>>
  BY DEF Received
<1>4. got' \in [Conns -> Nat] /\ got'[c] = got[c] + 1 /\ got'[c] <= size'[c]
  BY <1>1, <1>3
<1>5. \A d \in Conns \ {c} : got'[d] = got[d]
  BY <1>1, <1>3
<1>6. Moved(c)
  BY <1>1, <1>2, <1>3, <1>4, <1>5 DEF Moved
<1> QED
  BY <1>1, <1>2, <1>3, <1>4, <1>6 DEF Piece

\* One more piece of the same request.
LEMMA WholeAppend ==
  ASSUME NEW r, NEW g \in Nat
  PROVE  Append(Whole(r, g), <<r, g + 1>>) = Whole(r, g + 1)
<1>1. Whole(r, g) = [k \in 1..g |-> <<r, k>>] /\ Whole(r, g + 1) = [k \in 1..(g + 1) |-> <<r, k>>]
  BY DEF Whole
<1> DEFINE S == {<<r, k>> : k \in Nat}
<1>2. Whole(r, g) \in [1..g -> S] /\ Whole(r, g + 1) \in [1..(g + 1) -> S] /\ <<r, g + 1>> \in S
  BY <1>1
<1>3. Whole(r, g) \in Seq(S) /\ Whole(r, g + 1) \in Seq(S)
  BY <1>2, SeqDef
<1>4. Len(Whole(r, g)) = g /\ Len(Whole(r, g + 1)) = g + 1
  <2>1. DOMAIN Whole(r, g) = 1..g /\ DOMAIN Whole(r, g + 1) = 1..(g + 1)
    BY <1>1
  <2>2. /\ DOMAIN Whole(r, g) = 1..Len(Whole(r, g)) /\ Len(Whole(r, g)) \in Nat
        /\ DOMAIN Whole(r, g + 1) = 1..Len(Whole(r, g + 1)) /\ Len(Whole(r, g + 1)) \in Nat
    BY <1>3, LenProperties
  <2>3. 1..g = 1..Len(Whole(r, g)) /\ 1..(g + 1) = 1..Len(Whole(r, g + 1))
    BY <2>1, <2>2, Zenon
  <2>4. \A a, b \in Nat : 1..a = 1..b => a = b
    OBVIOUS
  <2>5. g + 1 \in Nat
    OBVIOUS
  <2> HIDE DEF S
  <2> QED
    BY <2>2, <2>3, <2>4, <2>5, Zenon
<1> HIDE DEF S
<1>5. /\ Append(Whole(r, g), <<r, g + 1>>) \in Seq(S)
      /\ Len(Append(Whole(r, g), <<r, g + 1>>)) = g + 1
      /\ \A k \in 1..g : Append(Whole(r, g), <<r, g + 1>>)[k] = Whole(r, g)[k]
      /\ Append(Whole(r, g), <<r, g + 1>>)[g + 1] = <<r, g + 1>>
  BY <1>2, <1>3, <1>4, AppendProperties
<1>6. ASSUME NEW k \in 1..(g + 1)
      PROVE  Append(Whole(r, g), <<r, g + 1>>)[k] = Whole(r, g + 1)[k]
  <2>1. CASE k = g + 1
    BY <1>1, <1>5, <2>1
  <2>2. CASE k \in 1..g
    BY <1>1, <1>5, <2>2
  <2>3. k = g + 1 \/ k \in 1..g
    OBVIOUS
  <2> QED
    BY <2>1, <2>2, <2>3, Zenon
<1> QED
  BY <1>3, <1>4, <1>5, <1>6, SeqEqual

\* The entry is replaced: it stays good, or its request met a fault before.
LEMMA AddedKeeps ==
  ASSUME ServerInv, NEW c \in Conns, Moved(c), NEW i \in 1..Len(pending_requests),
         NEW e, e = pending_requests[i], NEW new \in EntrySet, Added(i, new),
         e.conn = c, Stay(c, Owner(e), {e}), Owner(e) \in 1..requests, Owner(e) \notin elaborated,
         new.conn = c, Owner(new) = Owner(e), new.parts # <<>>,
         \/ Owner(e) \in broken /\ req'[c] \in broken
         \/ /\ Good(new)' /\ req'[c] = Owner(e) /\ got'[c] < size'[c]
            /\ \A f \in Entries : f.conn = c => f = e
  PROVE  ServerInv' /\ routed'.req \notin elaborated
<1>1. /\ pending_requests' = [pending_requests EXCEPT ![i] = new]
      /\ routed' = NotRouted /\ elaborated' = elaborated /\ broken' = broken
  BY DEF Added
<1>2. new \notin Entries \ {e}
  BY DEF Stay
<1>3. ListIs({e}, {new})
  <2>1. /\ pending_requests \in Seq(EntrySet) /\ Len(pending_requests) <= MaxPending
        /\ Single(pending_requests)
    BY Known
  <2>2. new \notin Ents(pending_requests) \ {pending_requests[i]}
    BY <1>2 DEF Entries
  <2>3. /\ pending_requests' \in Seq(EntrySet) /\ Len(pending_requests') = Len(pending_requests)
        /\ Changes(pending_requests, pending_requests', i, new)
    BY <1>1, <2>1, ExceptSeq DEF Changes
  <2>4. Single(pending_requests') /\ Entries' = (Entries \ {e}) \cup {new}
    BY <2>1, <2>2, <2>3, ChangedEnts DEF Entries
  <2> QED
    BY <2>1, <2>3, <2>4 DEF ListIs
<1>4. Owner(e) \in 1..requests'
  BY Known DEF Moved
<1>5. got'[c] \in Nat /\ size'[c] \in Nat
  BY DEF Moved
<1>6. \A x \in {new} : /\ x.conn = c /\ Owner(x) = Owner(e) /\ x.parts # <<>>
                       /\ Owner(e) \notin broken' => Good(x)' /\ \A f \in Entries \ {e} : f.conn # c
  BY <1>1
<1>7. /\ got'[c] < size'[c] /\ req'[c] \notin broken' => {new} # {} /\ req'[c] = Owner(e)
      /\ got'[c] = size'[c] => req'[c] \in elaborated' \cup broken'
  BY <1>1, <1>5
<1>8. Handles(c, Owner(e), {e}, {new})
  BY <1>1, <1>3, <1>4, <1>6, <1>7 DEF Handles, Quiet
<1> QED
  BY <1>8, HandledKeeps

-----------------------------------------------------------------------------
\* A piece for an entry of the list, whoever began it.
LEMMA CheckFaults ==
  ASSUME NEW c, http_check_pending_requests(c)
  PROVE  HeapHolds \/ HeapFails
<1> DEFINE i     == First(Mine(c))
           e     == pending_requests[i]
           parts == Append(e.parts, <<req[c], got[c] + 1>>)
<1>1. CASE e.total = Unreachable /\ Added(i, e)
  BY <1>1 DEF Added
<1>2. CASE Added(i, [e EXCEPT !.parts = parts])
  BY <1>2 DEF Added
<1>3. CASE Message(c, size[c], header[c], parts, i)
  BY <1>3, MessageFaults
<1>4. CASE AddedToOther(c, i, e, parts)
  BY <1>4 DEF AddedToOther, Added
<1> HIDE DEF i, e, parts
<1> QED
  BY <1>1, <1>2, <1>3, <1>4 DEF http_check_pending_requests, i, e, parts

LEMMA CheckKeeps ==
  ASSUME ServerInv, NEW c \in Conns, got[c] < size[c], Mine(c) # {},
         http_check_pending_requests(c), Received(c)
  PROVE  ServerInv' /\ routed'.req \notin elaborated
<1> DEFINE i     == First(Mine(c))
           e     == pending_requests[i]
           piece == <<req[c], got[c] + 1>>
           parts == Append(e.parts, piece)
           r     == Owner(e)
<1>1. /\ i \in 1..Len(pending_requests) /\ e \in Entries /\ e \in EntrySet
      /\ e.conn = c /\ e.parts # <<>>
      /\ r \in 1..requests /\ r \notin elaborated /\ Stay(c, r, {e})
      /\ r \notin broken => Good(e) /\ \A f \in Entries : f.conn = c => f = e
      /\ req[c] = r \/ (req[c] \in broken /\ r \in broken)
      /\ r \in broken => req[c] \in broken
  BY AtEntry
<1>2. faults' \in 0..MaxFaults
  BY CheckFaults, Faults DEF ServerInv, TypeOK
<1>3. /\ Moved(c) /\ req'[c] = req[c] /\ size'[c] = size[c] /\ header'[c] = header[c]
      /\ got'[c] = got[c] + 1 /\ got[c] \in Nat /\ size[c] \in Nat /\ header[c] \in Nat
      /\ piece \in Piece
  BY <1>2, ReceivedMoves
<1>4. /\ \/ e.total = Unreachable /\ Added(i, e)
         \/ /\ e.total # Unreachable /\ r = req[c] /\ Len(parts) < e.total
            /\ Added(i, [e EXCEPT !.parts = parts])
         \/ /\ e.total # Unreachable /\ r = req[c] /\ Len(parts) = e.total
            /\ Message(c, size[c], header[c], parts, i)
         \/ e.total # Unreachable /\ r # req[c] /\ AddedToOther(c, i, e, parts)
  BY DEF http_check_pending_requests, Owner
<1> HIDE DEF i, piece
<1>5. /\ e.parts \in Seq(Piece) /\ e.total \in Nat
      /\ e = [conn |-> e.conn, total |-> e.total, parts |-> e.parts]
  BY <1>1 DEF EntrySet
<1>6. /\ parts \in Seq(Piece) /\ Len(parts) = Len(e.parts) + 1 /\ Len(e.parts) \in Nat
      /\ parts # <<>> /\ parts[1] = e.parts[1]
  <2>1. Len(e.parts) \in Nat /\ Len(e.parts) # 0
    BY <1>1, <1>5, EmptySeq
  <2> QED
    BY <1>3, <1>5, <2>1, AppendProperties
<1>7. Begun(parts) = r
  BY <1>6 DEF Begun, Owner
<1>8. r \notin broken => /\ e.total = size[c] /\ req[c] = r /\ got[c] = Len(e.parts)
                        /\ header[c] <= got[c] /\ got[c] < size[c]
                        /\ parts = Whole(r, Len(parts))
  <2> SUFFICES ASSUME r \notin broken
               PROVE  /\ e.total = size[c] /\ req[c] = r /\ got[c] = Len(e.parts)
                      /\ header[c] <= got[c] /\ got[c] < size[c]
                      /\ parts = Whole(r, Len(parts))
    OBVIOUS
  <2>1. /\ e.total = size[c] /\ req[c] = r /\ got[c] = Len(e.parts) /\ header[c] <= got[c]
        /\ e.parts = Whole(r, Len(e.parts)) /\ got[c] < size[c]
    BY <1>1 DEF Good
  <2>2. Append(Whole(r, Len(e.parts)), <<r, Len(e.parts) + 1>>) = Whole(r, Len(e.parts) + 1)
    BY <1>6, WholeAppend
  <2>3. piece = <<r, Len(e.parts) + 1>>
    BY <2>1 DEF piece
  <2>4. parts = Whole(r, Len(e.parts) + 1)
    BY <2>1, <2>2, <2>3, Zenon
  <2> QED
    BY <1>6, <2>1, <2>4
<1>9. Gone(pending_requests, i) = {e}
  BY <1>1 DEF Gone
<1> HIDE DEF e
<1>10. Context(c, size[c], header[c], parts, i)
  <2>1. \A f \in Gone(pending_requests, i) :
          f.conn = c /\ Owner(f) = Begun(parts) /\ Len(f.parts) # Len(parts)
    BY <1>1, <1>6, <1>7, <1>9
  <2>2. /\ Stay(c, Begun(parts), Gone(pending_requests, i))
        /\ Begun(parts) \in 1..requests' /\ Begun(parts) \notin elaborated
        /\ req'[c] = Begun(parts) \/ req'[c] \in broken
    BY <1>1, <1>3, <1>7, <1>9, Known DEF Received
  <2>3. Begun(parts) \in broken
        \/ /\ size[c] = size'[c] /\ header[c] = header'[c] /\ req'[c] = Begun(parts)
           /\ got'[c] = Len(parts) /\ parts = Whole(Begun(parts), Len(parts))
    BY <1>3, <1>6, <1>7, <1>8
  <2>4. i \in 0..Len(pending_requests)
    BY <1>1, Known
  <2> HIDE DEF parts
  <2> QED
    BY <1>3, <1>6, <2>1, <2>2, <2>3, <2>4 DEF Context
<1>11. CASE e.total = Unreachable /\ Added(i, e)
  <2>1. r \in broken
    <3>1. ~(got[c] < 0)
      BY <1>3
    <3> QED
      BY <1>8, <1>11, <3>1 DEF Unreachable
  <2> QED
    BY <1>1, <1>3, <1>11, <2>1, AddedKeeps DEF e
<1> DEFINE longer == [e EXCEPT !.parts = parts]
           lost   == [e EXCEPT !.total = Unreachable]
<1>12. /\ longer \in EntrySet /\ longer.conn = c /\ longer.parts = parts /\ longer.total = e.total
       /\ Owner(longer) = r
  BY <1>1, <1>5, <1>6 DEF EntrySet, Owner
<1>13. /\ lost \in EntrySet /\ lost.conn = c /\ lost.parts = e.parts /\ Owner(lost) = r
  BY <1>1, <1>5 DEF EntrySet, Owner, Unreachable
<1>14. CASE r = req[c] /\ Len(parts) < e.total /\ Added(i, longer)
  <2>1. PICK new \in EntrySet : new = longer
    BY <1>12
  <2>2. /\ new.conn = c /\ new.parts = parts /\ new.total = e.total /\ Owner(new) = r
        /\ Added(i, new)
    BY <1>12, <1>14, <2>1
  <2> HIDE DEF parts, longer
  <2>3. ASSUME r \notin broken
        PROVE  Good(new)' /\ got'[c] < size'[c]
    <3>1. /\ e.total = size'[c] /\ req'[c] = r /\ got'[c] = Len(parts) /\ header'[c] <= got'[c]
          /\ got'[c] < size'[c] /\ parts = Whole(r, Len(parts))
      BY <1>3, <1>6, <1>8, <1>14, <2>3
    <3> QED
      BY <2>2, <3>1 DEF Good
  <2>4. \/ r \in broken /\ req'[c] \in broken
        \/ /\ Good(new)' /\ req'[c] = r /\ got'[c] < size'[c]
           /\ \A f \in Entries : f.conn = c => f = e
    BY <1>1, <1>3, <1>8, <2>3
  <2> QED
    BY <1>1, <1>3, <1>6, <2>2, <2>4, AddedKeeps DEF e
<1>15. CASE r = req[c] /\ Message(c, size[c], header[c], parts, i)
  BY <1>10, <1>15, MessageKeeps
<1>16. CASE r # req[c] /\ AddedToOther(c, i, e, parts)
  <2>1. r \in broken /\ req'[c] \in broken
    BY <1>1, <1>3, <1>16
  <2>2. CASE Added(i, longer)
    <3> HIDE DEF parts, longer
    <3> QED
      BY <1>1, <1>3, <1>6, <1>12, <2>1, <2>2, AddedKeeps DEF e
  <2>3. CASE Added(i, lost)
    <3> HIDE DEF lost
    <3> QED
      BY <1>1, <1>3, <1>13, <2>1, <2>3, AddedKeeps DEF e
  <2>4. CASE HeapHolds /\ Routed(size[c], parts, i) /\ UNCHANGED broken
    BY <1>3, <1>7, <1>10, <2>1, <2>4, RoutedHandles, HandledKeeps DEF Marks
  <2>5. CASE (HeapHolds \/ HeapFails) /\ Unset(c, size[c], parts, i) /\ UNCHANGED broken
    BY <1>7, <1>10, <2>1, <2>5, UnsetKeeps DEF Marks
  <2> HIDE DEF parts
  <2> QED
    BY <1>16, <2>2, <2>3, <2>4, <2>5 DEF AddedToOther
<1> HIDE DEF parts, r
<1> QED
  BY <1>4, <1>11, <1>14, <1>15, <1>16

-----------------------------------------------------------------------------
LEMMA InitHolds == Init => ServerInv
<1> SUFFICES ASSUME Init PROVE ServerInv
  OBVIOUS
<1>1. MaxRequests \in Nat /\ MaxFaults \in Nat /\ MaxPending \in Nat
  BY ServerConstants
<1>2. TypeOK
  <2>1. req \in [Conns -> 0..MaxRequests]
    BY <1>1 DEF Init, Start
  <2>2. size \in [Conns -> Nat] /\ header \in [Conns -> Nat] /\ got \in [Conns -> Nat]
    BY DEF Init, Start
  <2>3. /\ pending_requests \in Seq([conn : Conns, total : Nat, parts : Seq(Piece)])
        /\ Len(pending_requests) <= MaxPending
    BY <1>1, EmptySeq DEF Init
  <2>4. routed \in [req : 0..MaxRequests, size : Nat, parts : Seq(Piece)]
    <3>1. <<>> \in Seq(Piece) /\ 0 \in 0..MaxRequests /\ 0 \in Nat
      BY <1>1
    <3> QED
      BY <3>1 DEF Init, NotRouted
  <2>5. requests \in 0..MaxRequests /\ faults \in 0..MaxFaults
    BY <1>1 DEF Init
  <2>6. broken \subseteq 1..MaxRequests /\ elaborated \subseteq 1..MaxRequests
    BY DEF Init
  <2> QED
    BY <2>1, <2>2, <2>3, <2>4, <2>5, <2>6 DEF TypeOK
<1>3. Len(pending_requests) = 0 /\ Entries = {}
  BY DEF Init, Entries, Ents
<1>4. \A c \in Conns : req[c] = 0 /\ size[c] = 0 /\ got[c] = 0
  BY DEF Init, Start
<1>5. Counted
  BY <1>4 DEF Init, Counted
<1>6. Owners
  BY <1>3 DEF Owners, Single
<1>7. Sole /\ Underway /\ Elaborated
  BY <1>3, <1>4 DEF Sole, Underway, Elaborated
<1>8. RequestWhole
  BY DEF Init, NotRouted, RequestWhole
<1> QED
  BY <1>2, <1>5, <1>6, <1>7, <1>8 DEF ServerInv

LEMMA RestartIsInit == Restart => Init'
BY DEF Restart, Init, Start, NotRouted

LEMMA NoneElaborated ==
  ASSUME ServerInv, routed' = NotRouted
  PROVE  routed'.req \notin elaborated
<1>1. 0 \notin elaborated
  BY Known DEF ServerInv, Counted
<1> QED
  BY <1>1 DEF NotRouted

LEMMA NextPieceKeeps ==
  ASSUME ServerInv, NEW c \in Conns, NextPiece(c)
  PROVE  ServerInv' /\ routed'.req \notin elaborated
<1>1. got[c] < size[c]
  BY DEF NextPiece
<1>2. CASE /\ Mine(c) = {}
           /\ HeapHolds \/ HeapFails
           /\ routed' = NotRouted
           /\ Received(c)
           /\ UNCHANGED <<pending_requests, broken, elaborated>>
  <2>1. faults' \in 0..MaxFaults
    BY <1>2, Faults DEF ServerInv, TypeOK
  <2>2. /\ Moved(c) /\ req'[c] = req[c] /\ size'[c] = size[c] /\ header'[c] = header[c]
        /\ got'[c] = got[c] + 1
    BY <1>1, <1>2, <2>1, ReceivedMoves
  <2>3. \A e \in Entries : e.conn # c
    <3>1. DOMAIN pending_requests = 1..Len(pending_requests)
      BY Known
    <3> QED
      BY <1>2, <3>1 DEF Mine, Entries, Ents
  <2>4. req[c] \in broken
    BY <1>1, <2>3 DEF ServerInv, Underway
  <2>5. ListIs({}, {})
    BY <1>2, Known DEF ListIs, Entries
  <2>6. Entries' = Entries
    BY <1>2 DEF Entries
  <2>7. TypeOK'
    <3>1. NotRouted \in [req : 0..MaxRequests, size : Nat, parts : Seq(Piece)]
      <4>1. <<>> \in Seq(Piece) /\ 0 \in 0..MaxRequests /\ 0 \in Nat
        BY ServerConstants
      <4> QED
        BY <4>1 DEF NotRouted
    <3> QED
      BY <1>2, <2>1, <2>2, <3>1 DEF ServerInv, TypeOK, Moved
  <2>8. Counted'
    <3>1. UNCHANGED <<req, size, header, requests>>
      BY <1>2 DEF Received
    <3>2. \A d \in Conns : got'[d] <= size'[d]
      BY <2>2 DEF ServerInv, Counted, Moved
    <3> QED
      BY <1>2, <3>1, <3>2 DEF ServerInv, Counted
  <2>9. Owners'
    <3>1. requests' = requests
      BY <1>2 DEF Received
    <3> QED
      BY <1>2, <2>6, <3>1 DEF ServerInv, Owners
  <2>10. Sole'
    <3> SUFFICES ASSUME NEW e \in Entries, Owner(e) \notin broken
                 PROVE  Good(e)' /\ \A f \in Entries : f.conn = e.conn => f = e
      BY <1>2, <2>6 DEF Sole, Owner
    <3>1. Good(e) /\ \A f \in Entries : f.conn = e.conn => f = e
      BY DEF ServerInv, Sole
    <3>2. e.conn \in Conns \ {c}
      BY <2>3, Known DEF EntrySet
    <3> QED
      BY <2>2, <3>1, <3>2, GoodElsewhere
  <2>11. Underway'
    <3> SUFFICES ASSUME NEW d \in Conns, got'[d] < size'[d], req'[d] \notin broken
                 PROVE  \E e \in Entries : e.conn = d /\ Owner(e) = req'[d]
      BY <1>2, <2>6 DEF Underway, Owner
    <3>1. d # c
      BY <2>2, <2>4
    <3>2. req'[d] = req[d] /\ size'[d] = size[d] /\ got'[d] = got[d]
      BY <2>2, <3>1 DEF Moved
    <3> QED
      BY <3>2 DEF ServerInv, Underway
  <2>12. Elaborated'
    <3> SUFFICES ASSUME NEW d \in Conns, got'[d] = size'[d], req'[d] > 0
                 PROVE  req'[d] \in elaborated \cup broken
      BY <1>2 DEF Elaborated
    <3>1. CASE d = c
      BY <2>2, <2>4, <3>1
    <3>2. CASE d # c
      BY <2>2, <3>2 DEF Moved, ServerInv, Elaborated
    <3> QED
      BY <3>1, <3>2
  <2>13. RequestWhole'
    BY <1>2 DEF RequestWhole, NotRouted
  <2>14. routed'.req \notin elaborated
    BY <1>2, NoneElaborated
  <2> QED
    BY <2>7, <2>8, <2>9, <2>10, <2>11, <2>12, <2>13, <2>14 DEF ServerInv
<1>3. CASE Mine(c) # {} /\ http_check_pending_requests(c) /\ Received(c)
  BY <1>1, <1>3, CheckKeeps
<1>4. CASE Restart
  <2>1. ServerInv'
    BY <1>4, RestartIsInit, InitHolds, PTL
  <2>2. routed' = NotRouted
    BY <1>4 DEF Restart
  <2> QED
    BY <2>1, <2>2, NoneElaborated
<1> QED
  BY <1>2, <1>3, <1>4 DEF NextPiece

LEMMA DisconKeeps ==
  ASSUME ServerInv, NEW c \in Conns, http_svr_discon(c)
  PROVE  ServerInv' /\ routed'.req \notin elaborated
<1>1. /\ got[c] < size[c]
      /\ size' = [size EXCEPT ![c] = 0] /\ header' = [header EXCEPT ![c] = 0]
      /\ got' = [got EXCEPT ![c] = 0] /\ broken' = broken \cup {req[c]}
      /\ routed' = NotRouted /\ UNCHANGED <<req, pending_requests, requests, faults, elaborated>>
  BY DEF http_svr_discon
<1>2. /\ req \in [Conns -> 0..MaxRequests] /\ size \in [Conns -> Nat]
      /\ header \in [Conns -> Nat] /\ got \in [Conns -> Nat]
      /\ requests \in 0..MaxRequests /\ MaxRequests \in Nat
  BY Known DEF ServerInv, TypeOK
<1>3. req[c] \in 1..requests
  BY <1>1, <1>2 DEF ServerInv, Counted
<1>4. Entries' = Entries
  BY <1>1 DEF Entries
<1>5. \A d \in Conns \ {c} : /\ req'[d] = req[d] /\ size'[d] = size[d]
                             /\ header'[d] = header[d] /\ got'[d] = got[d]
  BY <1>1, <1>2
<1>6. size'[c] = 0 /\ got'[c] = 0 /\ req'[c] = req[c] /\ req[c] \in broken'
  BY <1>1, <1>2
<1>7. TypeOK'
  <2>1. size' \in [Conns -> Nat] /\ header' \in [Conns -> Nat] /\ got' \in [Conns -> Nat]
    BY <1>1, <1>2
  <2>2. broken' \subseteq 1..MaxRequests
    <3>1. broken \subseteq 1..MaxRequests /\ req[c] \in 1..MaxRequests
      BY <1>2, <1>3 DEF ServerInv, TypeOK
    <3> QED
      BY <1>1, <3>1
  <2>3. NotRouted \in [req : 0..MaxRequests, size : Nat, parts : Seq(Piece)]
    <3>1. <<>> \in Seq(Piece) /\ 0 \in 0..MaxRequests /\ 0 \in Nat
      BY ServerConstants
    <3> QED
      BY <3>1 DEF NotRouted
  <2> QED
    BY <1>1, <2>1, <2>2, <2>3 DEF ServerInv, TypeOK
<1>8. Counted'
  <2>1. \A d \in Conns : /\ req'[d] <= requests' /\ got'[d] <= size'[d]
                         /\ req'[d] = 0 => size'[d] = 0
    BY <1>1, <1>3, <1>5, <1>6 DEF ServerInv, Counted
  <2> QED
    BY <1>1, <1>3, <2>1 DEF ServerInv, Counted
<1>9. Owners'
  BY <1>1, <1>4 DEF ServerInv, Owners
<1>10. Sole'
  <2> SUFFICES ASSUME NEW e \in Entries, Owner(e) \notin broken'
               PROVE  Good(e)' /\ \A f \in Entries : f.conn = e.conn => f = e
    BY <1>4 DEF Sole, Owner
  <2>1. Good(e) /\ \A f \in Entries : f.conn = e.conn => f = e
    BY <1>1 DEF ServerInv, Sole
  <2>2. e.conn \in Conns \ {c}
    <3>1. e.conn \in Conns
      BY Known DEF EntrySet
    <3>2. e.conn # c
      BY <1>6, <2>1 DEF Good
    <3> QED
      BY <3>1, <3>2
  <2>3. Good(e)'
    BY <1>5, <2>1, <2>2 DEF Good
  <2> QED
    BY <2>1, <2>3
<1>11. Underway'
  <2> SUFFICES ASSUME NEW d \in Conns, got'[d] < size'[d], req'[d] \notin broken'
               PROVE  \E e \in Entries : e.conn = d /\ Owner(e) = req'[d]
    BY <1>4 DEF Underway, Owner
  <2>1. d # c
    BY <1>6
  <2> QED
    BY <1>1, <1>5, <2>1 DEF ServerInv, Underway
<1>12. Elaborated'
  <2> SUFFICES ASSUME NEW d \in Conns, got'[d] = size'[d], req'[d] > 0
               PROVE  req'[d] \in elaborated' \cup broken'
    BY DEF Elaborated
  <2>1. CASE d = c
    BY <1>6, <2>1
  <2>2. CASE d # c
    BY <1>1, <1>5, <2>2 DEF ServerInv, Elaborated
  <2> QED
    BY <2>1, <2>2
<1>13. RequestWhole'
  BY <1>1 DEF RequestWhole, NotRouted
<1>14. routed'.req \notin elaborated
  BY <1>1, NoneElaborated
<1> QED
  BY <1>7, <1>8, <1>9, <1>10, <1>11, <1>12, <1>13, <1>14 DEF ServerInv

LEMMA StepKeeps ==
  ServerInv /\ [Next]_vars => ServerInv' /\ (vars' = vars \/ routed'.req \notin elaborated)
<1> SUFFICES ASSUME ServerInv, [Next]_vars
             PROVE  ServerInv' /\ (vars' = vars \/ routed'.req \notin elaborated)
  OBVIOUS
<1>1. CASE Next
  <2>1. PICK c \in Conns : FirstPiece(c) \/ NextPiece(c) \/ http_svr_discon(c)
    BY <1>1 DEF Next
  <2> QED
    BY <2>1, FirstPieceKeeps, NextPieceKeeps, DisconKeeps
<1>2. CASE UNCHANGED vars
  BY <1>2 DEF vars, conns, ServerInv, TypeOK, Counted, Owners, Sole, Good, Underway, Entries,
              RequestWhole, Elaborated
<1> QED
  BY <1>1, <1>2

LEMMA ServerCorrect == Spec => []ServerInv
BY InitHolds, StepKeeps, PTL DEF Spec

-----------------------------------------------------------------------------
\* The variables of the reception have their types, whatever the network makes of the
\* requests, and the list of incomplete ones never outgrows its capacity.
THEOREM TypeCorrect == Spec => []TypeOK
<1>1. ServerInv => TypeOK
  BY DEF ServerInv
<1> QED
  BY <1>1, ServerCorrect, PTL

\* The routes get whole requests: what http_check_pending_requests puts together is all
\* pieces of one request in order, unless that request met a fault.
THEOREM WholeCorrect == Spec => []RequestWhole
<1>1. ServerInv => RequestWhole
  BY DEF ServerInv
<1> QED
  BY <1>1, ServerCorrect, PTL

\* A request that came whole was given to the routes, unless it met a fault: no other
\* connection's pieces, disconnections or incomplete requests cost it its answer.
THEOREM ElaboratedCorrect == Spec => []Elaborated
<1>1. ServerInv => Elaborated
  BY DEF ServerInv
<1> QED
  BY <1>1, ServerCorrect, PTL

\* Whatever faults it met, no request is given to the routes twice.
THEOREM OnceCorrect == Spec => ElaboratedOnce
<1>1. ServerInv /\ [Next]_vars => [routed'.req \notin elaborated]_vars
  BY StepKeeps
<1> QED
  BY <1>1, ServerCorrect, PTL DEF Spec, ElaboratedOnce

-----------------------------------------------------------------------------
(***************************************************************************)
(* The List is a Deque.  Some function f numbers its nodes as they are     *)
(* linked, both ways (Linked), and the cursor that a caller may use is on  *)
(* one of them (Pointed): f is the only function that follows the links    *)
(* from m_front on, and so the Chain that the Deque's items come from.     *)
(***************************************************************************)
Links == Nodes \cup {0}
Cells == [used : BOOLEAN, content : ListElems \cup {"wild"}, next : Links, prev : Links]
Objects == [size : Nat, front : Links, back : Links, cursor : Links]

\* f numbers the nodes of the list m in the heap c.
Linked(f, m, c) ==
  /\ f \in [1..m.size -> Nodes]
  /\ \A i, j \in 1..m.size : f[i] = f[j] => i = j
  /\ m.front = IF m.size = 0 THEN 0 ELSE f[1]
  /\ m.back = IF m.size = 0 THEN 0 ELSE f[m.size]
  /\ \A i \in 1..m.size :
       /\ c[f[i]].used /\ c[f[i]].content \in ListElems
       /\ c[f[i]].next = IF i = m.size THEN 0 ELSE f[i + 1]
       /\ c[f[i]].prev = IF i = 1 THEN 0 ELSE f[i - 1]

\* The cursor is on one of them, if the caller may use it.
Pointed(f, m, r) == r \in BOOLEAN /\ (r => \E i \in 1..m.size : m.cursor = f[i])

ListInv ==
  /\ object \in Objects /\ cell \in [Nodes -> Cells] /\ object.size <= ListSize
  /\ \E f : Linked(f, object, cell) /\ Pointed(f, object, rewound)

\* Chain, LItems and LAt of any list.
ChainOf(m, c) ==
  LET node[i \in 1..m.size] == IF i = 1 THEN m.front ELSE c[node[i - 1]].next
  IN  node
ItemsOf(f, m, c) == [i \in 1..m.size |-> c[f[i]].content]
AtOf(f, m, r) ==
  LET places == {i \in 1..m.size : r /\ f[i] = m.cursor}
  IN  IF places = {} THEN 0 ELSE CHOOSE i \in places : TRUE

-----------------------------------------------------------------------------
\* Whatever numbers the nodes of a list is its chain.
LEMMA ChainIs ==
  ASSUME NEW m \in Objects, NEW c, NEW f, Linked(f, m, c)
  PROVE  ChainOf(m, c) = f
<1> DEFINE Follows(node) ==
      node = [i \in 1..m.size |-> IF i = 1 THEN m.front ELSE c[node[i - 1]].next]
<1>1. ChainOf(m, c) = CHOOSE node : Follows(node)
  BY DEF ChainOf
<1>2. m.size \in Nat
  BY DEF Objects
<1>3. Follows(f)
  <2>1. ASSUME NEW i \in 1..m.size
        PROVE  f[i] = IF i = 1 THEN m.front ELSE c[f[i - 1]].next
    <3>1. CASE i = 1
      BY <1>2, <3>1 DEF Linked
    <3>2. CASE i # 1
      <4>1. i - 1 \in 1..m.size /\ i - 1 # m.size /\ (i - 1) + 1 = i
        BY <1>2, <3>2
      <4> QED BY <3>2, <4>1 DEF Linked
    <3> QED BY <3>1, <3>2
  <2>2. f = [i \in 1..m.size |-> f[i]]
    BY DEF Linked
  <2> QED BY <2>1, <2>2
<1>4. ASSUME NEW node, Follows(node)
      PROVE  node = f
  <2> DEFINE Wrong == {i \in 1..m.size : node[i] # f[i]}
  <2>1. ASSUME Wrong # {} PROVE FALSE
    <3>1. Wrong \subseteq Nat
      BY <1>2
    <3>2. PICK k \in Wrong : \A j \in Wrong : <<j, k>> \notin OpToRel(<, Nat)
      BY <2>1, <3>1, WFMin, NatLessThanWellFounded, Zenon
    <3>3. k \in 1..m.size /\ node[k] # f[k]
      BY <3>2
    <3>4. node[k] = IF k = 1 THEN m.front ELSE c[node[k - 1]].next
      BY <1>4, <3>3
    <3>5. f[k] = IF k = 1 THEN m.front ELSE c[f[k - 1]].next
      BY <1>3, <3>3
    <3>6. k # 1 /\ node[k - 1] # f[k - 1]
      BY <3>3, <3>4, <3>5
    <3>7. k - 1 \in Wrong /\ k - 1 < k /\ k \in Nat /\ k - 1 \in Nat
      BY <1>2, <3>3, <3>6
    <3> QED BY <3>2, <3>7 DEF OpToRel
  <2>2. \A i \in 1..m.size : node[i] = f[i]
    BY <2>1
  <2>3. node = [i \in 1..m.size |-> node[i]] /\ f = [i \in 1..m.size |-> f[i]]
    BY <1>4 DEF Linked
  <2> QED BY <2>2, <2>3
<1> HIDE DEF Follows
<1> QED BY <1>1, <1>3, <1>4

LEMMA MappedFrom ==
  /\ LItems = ItemsOf(ChainOf(object, cell), object, cell)
  /\ LAt = AtOf(ChainOf(object, cell), object, rewound)
  /\ Chain = ChainOf(object, cell)
BY DEF LItems, LAt, ItemsOf, AtOf, Chain, ChainOf

LEMMA MappedTo ==
  /\ LItems' = ItemsOf(ChainOf(object', cell'), object', cell')
  /\ LAt' = AtOf(ChainOf(object', cell'), object', rewound')
BY DEF LItems, LAt, ItemsOf, AtOf, Chain, ChainOf

LEMMA AtIs ==
  ASSUME NEW m \in Objects, NEW c, NEW f, NEW r \in BOOLEAN, Linked(f, m, c)
  PROVE  /\ ~r => AtOf(f, m, r) = 0
         /\ \A i \in 1..m.size : r /\ m.cursor = f[i] => AtOf(f, m, r) = i
<1>1. ASSUME NEW i \in 1..m.size, r, m.cursor = f[i]
      PROVE  AtOf(f, m, r) = i
  <2>1. {j \in 1..m.size : r /\ f[j] = m.cursor} = {i}
    BY <1>1 DEF Linked
  <2> QED BY <2>1 DEF AtOf
<1>2. ~r => AtOf(f, m, r) = 0
  BY DEF AtOf
<1> QED BY <1>1, <1>2

LEMMA AtPlace ==
  ASSUME NEW m \in Objects, NEW c, NEW f, NEW r \in BOOLEAN, Linked(f, m, c), r,
         NEW i, i \in 1..m.size, m.cursor = f[i]
  PROVE  AtOf(f, m, r) = i
BY AtIs

-----------------------------------------------------------------------------
(***************************************************************************)
(* A node leaves a list, and one comes in front or at the end.             *)
(***************************************************************************)
Lacking(s, n, k) == [i \in 1..(n - 1) |-> IF i < k THEN s[i] ELSE s[i + 1]]
InFront(s, n, p) == [i \in 1..(n + 1) |-> IF i = 1 THEN p ELSE s[i - 1]]
AtEnd(s, n, p) == [i \in 1..(n + 1) |-> IF i = n + 1 THEN p ELSE s[i]]

\* What taking f[k] out makes of the list and of the heap.
Out(f, k, m, c, m2, c2) ==
  /\ m2 = [m EXCEPT !.size = m.size - 1,
                    !.front = IF k = 1 THEN c[f[k]].next ELSE m.front,
                    !.back = IF k = m.size THEN c[f[k]].prev ELSE m.back]
  /\ c2 \in [Nodes -> Cells]
  /\ \A q \in Nodes : c2[q] =
       IF q = f[k] THEN Freed
       ELSE IF q = c[f[k]].next THEN [c[q] EXCEPT !.prev = c[f[k]].prev]
       ELSE IF q = c[f[k]].prev THEN [c[q] EXCEPT !.next = c[f[k]].next]
       ELSE c[q]

LEMMA OutLinked ==
  ASSUME NEW m \in Objects, NEW c \in [Nodes -> Cells], NEW f, Linked(f, m, c),
         NEW k \in 1..m.size, NEW m2, NEW c2, Out(f, k, m, c, m2, c2)
  PROVE  /\ m2 \in Objects /\ m2.size = m.size - 1 /\ m2.cursor = m.cursor
         /\ Linked(Lacking(f, m.size, k), m2, c2)
         /\ ItemsOf(Lacking(f, m.size, k), m2, c2) = Lacking(ItemsOf(f, m, c), m.size, k)
<1> DEFINE n == m.size
           g == Lacking(f, n, k)
<1>1. n \in Nat /\ f \in [1..n -> Nodes] /\ n - 1 \in Nat /\ k \in 1..n
  BY DEF Objects, Linked
<1>2. c[f[k]].next \in Links /\ c[f[k]].prev \in Links
  BY <1>1 DEF Cells
<1>3. /\ m2 \in Objects /\ m2.size = n - 1 /\ m2.cursor = m.cursor
      /\ m2.front = IF k = 1 THEN c[f[k]].next ELSE m.front
      /\ m2.back = IF k = n THEN c[f[k]].prev ELSE m.back
  BY <1>1, <1>2 DEF Out, Objects
<1>4. g \in [1..(n - 1) -> Nodes] /\ \A i \in 1..(n - 1) : g[i] = IF i < k THEN f[i] ELSE f[i + 1]
  BY <1>1 DEF Lacking
<1>5. /\ c[f[k]].next = IF k = n THEN 0 ELSE f[k + 1]
      /\ c[f[k]].prev = IF k = 1 THEN 0 ELSE f[k - 1]
  BY <1>1 DEF Linked
<1>6. \A i, j \in 1..n : f[i] = f[j] => i = j
  BY DEF Linked
<1>7. /\ m.front = f[1] /\ m.back = f[n]
      /\ \A i \in 1..n : /\ c[f[i]].used /\ c[f[i]].content \in ListElems
                         /\ c[f[i]].next = IF i = n THEN 0 ELSE f[i + 1]
                         /\ c[f[i]].prev = IF i = 1 THEN 0 ELSE f[i - 1]
  BY <1>1 DEF Linked
<1>8. ASSUME NEW i \in 1..n, i # k
      PROVE  /\ c2[f[i]].used /\ c2[f[i]].content = c[f[i]].content
             /\ c2[f[i]].next = IF i + 1 = k THEN c[f[k]].next ELSE c[f[i]].next
             /\ c2[f[i]].prev = IF i = k + 1 THEN c[f[k]].prev ELSE c[f[i]].prev
  <2>1. f[i] \in Nodes /\ f[i] # f[k] /\ c[f[i]] \in Cells /\ f[i] # 0
    BY <1>1, <1>6, <1>8, ListConstants
  <2>2. f[i] = c[f[k]].next <=> i = k + 1
    BY <1>1, <1>5, <1>6, <2>1
  <2>3. f[i] = c[f[k]].prev <=> i + 1 = k
    BY <1>1, <1>5, <1>6, <2>1
  <2>4. c2[f[i]] = IF i = k + 1 THEN [c[f[i]] EXCEPT !.prev = c[f[k]].prev]
                   ELSE IF i + 1 = k THEN [c[f[i]] EXCEPT !.next = c[f[k]].next]
                   ELSE c[f[i]]
    BY <2>1, <2>2, <2>3 DEF Out
  <2> QED BY <1>1, <1>7, <2>1, <2>4 DEF Cells
<1> HIDE DEF g, n
<1>9. \A i, j \in 1..(n - 1) : g[i] = g[j] => i = j
  BY <1>1, <1>4, <1>6
<1>10. ASSUME NEW i \in 1..(n - 1)
       PROVE  /\ c2[g[i]].used /\ c2[g[i]].content \in ListElems
              /\ c2[g[i]].content = IF i < k THEN c[f[i]].content ELSE c[f[i + 1]].content
              /\ c2[g[i]].next = IF i = n - 1 THEN 0 ELSE g[i + 1]
              /\ c2[g[i]].prev = IF i = 1 THEN 0 ELSE g[i - 1]
  <2>1. CASE i < k
    <3>1. i \in 1..n /\ i # k /\ g[i] = f[i] /\ i # k + 1
      BY <1>1, <1>4, <2>1
    <3>2. /\ c2[f[i]].used /\ c2[f[i]].content = c[f[i]].content
          /\ c2[f[i]].next = IF i + 1 = k THEN c[f[k]].next ELSE c[f[i]].next
          /\ c2[f[i]].prev = c[f[i]].prev
      BY <1>8, <3>1
    <3>3. c2[f[i]].next = IF i = n - 1 THEN 0 ELSE g[i + 1]
      <4>1. c[f[i]].next = IF i = n THEN 0 ELSE f[i + 1]
        BY <1>7, <3>1
      <4>2. i # n - 1 => g[i + 1] = IF i + 1 < k THEN f[i + 1] ELSE f[(i + 1) + 1]
        BY <1>1, <1>4
      <4>3. i # n /\ (i + 1 = k => c[f[k]].next = IF i = n - 1 THEN 0 ELSE f[(i + 1) + 1])
        BY <1>1, <1>5
      <4>4. i + 1 # k => i + 1 < k /\ i # n - 1
        BY <1>1, <2>1
      <4>5. i + 1 = k => ~(i + 1 < k)
        BY <1>1
      <4> QED BY <3>2, <4>1, <4>2, <4>3, <4>4, <4>5
    <3>4. c2[f[i]].prev = IF i = 1 THEN 0 ELSE g[i - 1]
      <4>1. c[f[i]].prev = IF i = 1 THEN 0 ELSE f[i - 1]
        BY <1>7, <3>1
      <4>2. i # 1 => g[i - 1] = f[i - 1]
        BY <1>1, <1>4, <2>1
      <4> QED BY <3>2, <4>1, <4>2
    <3> QED BY <1>7, <2>1, <3>1, <3>2, <3>3, <3>4
  <2>2. CASE ~(i < k)
    <3> DEFINE j == i + 1
    <3>1. j \in 1..n /\ j # k /\ g[i] = f[j] /\ j + 1 # k /\ (j = k + 1 <=> i = k)
      BY <1>1, <1>4, <2>2
    <3>2. /\ c2[f[j]].used /\ c2[f[j]].content = c[f[j]].content
          /\ c2[f[j]].next = c[f[j]].next
          /\ c2[f[j]].prev = IF i = k THEN c[f[k]].prev ELSE c[f[j]].prev
      BY <1>8, <3>1
    <3>3. c2[f[j]].next = IF i = n - 1 THEN 0 ELSE g[i + 1]
      <4>1. c[f[j]].next = IF j = n THEN 0 ELSE f[j + 1]
        BY <1>7, <3>1
      <4>2. i # n - 1 => g[i + 1] = f[j + 1]
        BY <1>1, <1>4, <2>2
      <4>3. j = n <=> i = n - 1
        BY <1>1
      <4> QED BY <3>2, <4>1, <4>2, <4>3
    <3>4. c2[f[j]].prev = IF i = 1 THEN 0 ELSE g[i - 1]
      <4>1. c[f[j]].prev = f[i]
        <5>1. c[f[j]].prev = IF j = 1 THEN 0 ELSE f[j - 1]
          BY <1>7, <3>1
        <5>2. j # 1 /\ j - 1 = i
          BY <1>1
        <5> QED BY <5>1, <5>2
      <4>2. i # 1 => g[i - 1] = IF i - 1 < k THEN f[i - 1] ELSE f[i]
        <5>1. i # 1 => i - 1 \in 1..(n - 1) /\ (i - 1) + 1 = i
          BY <1>1
        <5> QED BY <1>4, <5>1
      <4>3. i # 1 => (i - 1 < k <=> i = k)
        BY <1>1, <2>2
      <4>4. i = 1 => i = k
        BY <1>1, <2>2
      <4> QED BY <1>5, <3>2, <4>1, <4>2, <4>3, <4>4
    <3> QED BY <1>7, <2>2, <3>1, <3>2, <3>3, <3>4
  <2> QED BY <2>1, <2>2
<1>11. /\ m2.front = IF n - 1 = 0 THEN 0 ELSE g[1]
       /\ m2.back = IF n - 1 = 0 THEN 0 ELSE g[n - 1]
  BY <1>1, <1>3, <1>4, <1>5, <1>7
<1>12. Linked(g, m2, c2)
  BY <1>3, <1>4, <1>9, <1>10, <1>11 DEF Linked
<1>13. ItemsOf(g, m2, c2) = Lacking(ItemsOf(f, m, c), n, k)
  <2>1. ItemsOf(g, m2, c2) = [i \in 1..(n - 1) |-> c2[g[i]].content]
    BY <1>3 DEF ItemsOf
  <2>2. ItemsOf(f, m, c) = [i \in 1..n |-> c[f[i]].content]
    BY DEF ItemsOf, n
  <2>3. ASSUME NEW i \in 1..(n - 1)
        PROVE  c2[g[i]].content = IF i < k THEN ItemsOf(f, m, c)[i] ELSE ItemsOf(f, m, c)[i + 1]
    <3>1. i \in 1..n /\ i + 1 \in 1..n
      BY <1>1
    <3>2. /\ ItemsOf(f, m, c)[i] = c[f[i]].content
          /\ ItemsOf(f, m, c)[i + 1] = c[f[i + 1]].content
      BY <2>2, <3>1
    <3> QED BY <1>10, <3>2
  <2> QED BY <2>1, <2>3 DEF Lacking
<1> QED BY <1>3, <1>12, <1>13 DEF g, n

\* What a new node p for x makes of the list in front, and of the heap.
In(p, x, m, c, m2, c2) ==
  /\ m2 = [m EXCEPT !.size = m.size + 1, !.front = p, !.back = IF m.back = 0 THEN p ELSE m.back]
  /\ c2 \in [Nodes -> Cells]
  /\ \A q \in Nodes : c2[q] =
       IF q = p THEN [used |-> TRUE, content |-> x, next |-> m.front, prev |-> 0]
       ELSE IF q = m.front THEN [c[q] EXCEPT !.prev = p] ELSE c[q]

LEMMA InLinked ==
  ASSUME NEW m \in Objects, NEW c \in [Nodes -> Cells], NEW f, Linked(f, m, c),
         NEW p \in Nodes, ~c[p].used, NEW x \in ListElems,
         NEW m2, NEW c2, In(p, x, m, c, m2, c2)
  PROVE  /\ m2 \in Objects /\ m2.size = m.size + 1 /\ m2.cursor = m.cursor
         /\ Linked(InFront(f, m.size, p), m2, c2)
         /\ ItemsOf(InFront(f, m.size, p), m2, c2) = InFront(ItemsOf(f, m, c), m.size, x)
<1> DEFINE n == m.size
           g == InFront(f, n, p)
<1>1. n \in Nat /\ f \in [1..n -> Nodes]
  BY DEF Objects, Linked
<1>2. p # 0 /\ \A i \in 1..n : f[i] \in Nodes /\ f[i] # 0
  BY <1>1, ListConstants
<1>3. /\ m.front = IF n = 0 THEN 0 ELSE f[1]
      /\ m.back = IF n = 0 THEN 0 ELSE f[n]
      /\ \A i, j \in 1..n : f[i] = f[j] => i = j
      /\ \A i \in 1..n : /\ c[f[i]].used /\ c[f[i]].content \in ListElems
                         /\ c[f[i]].next = IF i = n THEN 0 ELSE f[i + 1]
                         /\ c[f[i]].prev = IF i = 1 THEN 0 ELSE f[i - 1]
  BY DEF Linked
<1>4. \A i \in 1..n : f[i] # p
  BY <1>3
<1>5. /\ m2 \in Objects /\ m2.size = n + 1 /\ m2.cursor = m.cursor
      /\ m2.front = p /\ m2.back = IF m.back = 0 THEN p ELSE m.back
  <2> DEFINE e == IF m.back = 0 THEN p ELSE m.back
  <2>1. p \in Links /\ e \in Links /\ n + 1 \in Nat
    BY <1>1 DEF Links, Objects
  <2>2. m2 = [m EXCEPT !.size = n + 1, !.front = p, !.back = e]
    BY DEF In
  <2> HIDE DEF e, n
  <2>3. /\ m2 \in Objects /\ m2.size = n + 1 /\ m2.cursor = m.cursor
        /\ m2.front = p /\ m2.back = e
    BY <2>1, <2>2 DEF Objects
  <2> QED BY <2>3 DEF e
<1>6. g \in [1..(n + 1) -> Nodes] /\ \A i \in 1..(n + 1) : g[i] = IF i = 1 THEN p ELSE f[i - 1]
  BY <1>1 DEF InFront
<1>7. c2[p] = [used |-> TRUE, content |-> x, next |-> m.front, prev |-> 0]
  BY DEF In
<1>8. ASSUME NEW i \in 1..n
      PROVE  /\ c2[f[i]].used /\ c2[f[i]].content = c[f[i]].content
             /\ c2[f[i]].next = c[f[i]].next
             /\ c2[f[i]].prev = IF i = 1 THEN p ELSE c[f[i]].prev
  <2>1. f[i] \in Nodes /\ f[i] # p /\ c[f[i]] \in Cells
    BY <1>1, <1>4
  <2>2. f[i] = m.front <=> i = 1
    BY <1>1, <1>2, <1>3
  <2>3. c2[f[i]] = IF i = 1 THEN [c[f[i]] EXCEPT !.prev = p] ELSE c[f[i]]
    BY <2>1, <2>2 DEF In
  <2> QED BY <1>3, <2>1, <2>3 DEF Cells
<1> HIDE DEF g, n
<1>9. \A i, j \in 1..(n + 1) : g[i] = g[j] => i = j
  BY <1>1, <1>3, <1>4, <1>6
<1>10. ASSUME NEW i \in 1..(n + 1)
       PROVE  /\ c2[g[i]].used /\ c2[g[i]].content \in ListElems
              /\ c2[g[i]].content = IF i = 1 THEN x ELSE c[f[i - 1]].content
              /\ c2[g[i]].next = IF i = n + 1 THEN 0 ELSE g[i + 1]
              /\ c2[g[i]].prev = IF i = 1 THEN 0 ELSE g[i - 1]
  <2>1. CASE i = 1
    <3>1. g[i] = p /\ (n + 1 = i <=> n = 0)
      BY <1>1, <1>6, <2>1
    <3>2. m.front = IF i = n + 1 THEN 0 ELSE g[i + 1]
      BY <1>1, <1>3, <1>6, <2>1
    <3> QED BY <1>7, <2>1, <3>1, <3>2
  <2>2. CASE i # 1
    <3> DEFINE j == i - 1
    <3>1. j \in 1..n /\ g[i] = f[j] /\ (i = n + 1 <=> j = n)
      BY <1>1, <1>6, <2>2
    <3>2. /\ c2[f[j]].used /\ c2[f[j]].content = c[f[j]].content
          /\ c2[f[j]].next = c[f[j]].next
          /\ c2[f[j]].prev = IF j = 1 THEN p ELSE c[f[j]].prev
      BY <1>8, <3>1
    <3>3. c2[f[j]].next = IF i = n + 1 THEN 0 ELSE g[i + 1]
      BY <1>1, <1>3, <1>6, <2>2, <3>1, <3>2
    <3>4. c2[f[j]].prev = g[i - 1]
      BY <1>1, <1>3, <1>6, <2>2, <3>1, <3>2
    <3> QED BY <1>3, <2>2, <3>1, <3>2, <3>3, <3>4
  <2> QED BY <2>1, <2>2
<1>11. m2.front = g[1] /\ m2.back = g[n + 1] /\ n + 1 # 0
  BY <1>1, <1>2, <1>3, <1>5, <1>6
<1>12. Linked(g, m2, c2)
  BY <1>5, <1>6, <1>9, <1>10, <1>11 DEF Linked
<1>13. ItemsOf(g, m2, c2) = InFront(ItemsOf(f, m, c), n, x)
  <2>1. ItemsOf(g, m2, c2) = [i \in 1..(n + 1) |-> c2[g[i]].content]
    BY <1>5 DEF ItemsOf
  <2>2. ItemsOf(f, m, c) = [i \in 1..n |-> c[f[i]].content]
    BY DEF ItemsOf, n
  <2>3. ASSUME NEW i \in 1..(n + 1)
        PROVE  c2[g[i]].content = IF i = 1 THEN x ELSE ItemsOf(f, m, c)[i - 1]
    <3>1. i # 1 => i - 1 \in 1..n
      BY <1>1
    <3>2. i # 1 => ItemsOf(f, m, c)[i - 1] = c[f[i - 1]].content
      BY <2>2, <3>1
    <3> QED BY <1>10, <3>2
  <2> QED BY <2>1, <2>3 DEF InFront
<1> QED BY <1>5, <1>12, <1>13 DEF g, n

\* And at the end.
Behind(p, x, m, c, m2, c2) ==
  /\ m2 = [m EXCEPT !.size = m.size + 1, !.back = p, !.front = IF m.front = 0 THEN p ELSE m.front]
  /\ c2 \in [Nodes -> Cells]
  /\ \A q \in Nodes : c2[q] =
       IF q = p THEN [used |-> TRUE, content |-> x, next |-> 0, prev |-> m.back]
       ELSE IF q = m.back THEN [c[q] EXCEPT !.next = p] ELSE c[q]

LEMMA BehindLinked ==
  ASSUME NEW m \in Objects, NEW c \in [Nodes -> Cells], NEW f, Linked(f, m, c),
         NEW p \in Nodes, ~c[p].used, NEW x \in ListElems,
         NEW m2, NEW c2, Behind(p, x, m, c, m2, c2)
  PROVE  /\ m2 \in Objects /\ m2.size = m.size + 1 /\ m2.cursor = m.cursor
         /\ Linked(AtEnd(f, m.size, p), m2, c2)
         /\ ItemsOf(AtEnd(f, m.size, p), m2, c2) = AtEnd(ItemsOf(f, m, c), m.size, x)
<1> DEFINE n == m.size
           g == AtEnd(f, n, p)
<1>1. n \in Nat /\ f \in [1..n -> Nodes]
  BY DEF Objects, Linked
<1>2. p # 0 /\ \A i \in 1..n : f[i] \in Nodes /\ f[i] # 0
  BY <1>1, ListConstants
<1>3. /\ m.front = IF n = 0 THEN 0 ELSE f[1]
      /\ m.back = IF n = 0 THEN 0 ELSE f[n]
      /\ \A i, j \in 1..n : f[i] = f[j] => i = j
      /\ \A i \in 1..n : /\ c[f[i]].used /\ c[f[i]].content \in ListElems
                         /\ c[f[i]].next = IF i = n THEN 0 ELSE f[i + 1]
                         /\ c[f[i]].prev = IF i = 1 THEN 0 ELSE f[i - 1]
  BY DEF Linked
<1>4. \A i \in 1..n : f[i] # p
  BY <1>3
<1>5. /\ m2 \in Objects /\ m2.size = n + 1 /\ m2.cursor = m.cursor
      /\ m2.back = p /\ m2.front = IF m.front = 0 THEN p ELSE m.front
  <2> DEFINE e == IF m.front = 0 THEN p ELSE m.front
  <2>1. p \in Links /\ e \in Links /\ n + 1 \in Nat
    BY <1>1 DEF Links, Objects
  <2>2. m2 = [m EXCEPT !.size = n + 1, !.back = p, !.front = e]
    BY DEF Behind
  <2> HIDE DEF e, n
  <2>3. /\ m2 \in Objects /\ m2.size = n + 1 /\ m2.cursor = m.cursor
        /\ m2.back = p /\ m2.front = e
    BY <2>1, <2>2 DEF Objects
  <2> QED BY <2>3 DEF e
<1>6. g \in [1..(n + 1) -> Nodes] /\ \A i \in 1..(n + 1) : g[i] = IF i = n + 1 THEN p ELSE f[i]
  BY <1>1 DEF AtEnd
<1>7. c2[p] = [used |-> TRUE, content |-> x, next |-> 0, prev |-> m.back]
  BY DEF Behind
<1>8. ASSUME NEW i \in 1..n
      PROVE  /\ c2[f[i]].used /\ c2[f[i]].content = c[f[i]].content
             /\ c2[f[i]].prev = c[f[i]].prev
             /\ c2[f[i]].next = IF i = n THEN p ELSE c[f[i]].next
  <2>1. f[i] \in Nodes /\ f[i] # p /\ c[f[i]] \in Cells
    BY <1>1, <1>4
  <2>2. f[i] = m.back <=> i = n
    BY <1>1, <1>2, <1>3
  <2>3. c2[f[i]] = IF i = n THEN [c[f[i]] EXCEPT !.next = p] ELSE c[f[i]]
    BY <2>1, <2>2 DEF Behind
  <2> QED BY <1>3, <2>1, <2>3 DEF Cells
<1> HIDE DEF g, n
<1>9. \A i, j \in 1..(n + 1) : g[i] = g[j] => i = j
  BY <1>1, <1>3, <1>4, <1>6
<1>10. ASSUME NEW i \in 1..(n + 1)
       PROVE  /\ c2[g[i]].used /\ c2[g[i]].content \in ListElems
              /\ c2[g[i]].content = IF i = n + 1 THEN x ELSE c[f[i]].content
              /\ c2[g[i]].next = IF i = n + 1 THEN 0 ELSE g[i + 1]
              /\ c2[g[i]].prev = IF i = 1 THEN 0 ELSE g[i - 1]
  <2>1. CASE i = n + 1
    <3>1. g[i] = p /\ (i = 1 <=> n = 0)
      BY <1>1, <1>6, <2>1
    <3>2. m.back = IF i = 1 THEN 0 ELSE g[i - 1]
      BY <1>1, <1>3, <1>6, <2>1
    <3> QED BY <1>7, <2>1, <3>1, <3>2
  <2>2. CASE i # n + 1
    <3>1. i \in 1..n /\ g[i] = f[i]
      BY <1>1, <1>6, <2>2
    <3>2. /\ c2[f[i]].used /\ c2[f[i]].content = c[f[i]].content
          /\ c2[f[i]].prev = c[f[i]].prev
          /\ c2[f[i]].next = IF i = n THEN p ELSE c[f[i]].next
      BY <1>8, <3>1
    <3>3. c2[f[i]].next = g[i + 1]
      BY <1>1, <1>3, <1>6, <2>2, <3>1, <3>2
    <3>4. c2[f[i]].prev = IF i = 1 THEN 0 ELSE g[i - 1]
      BY <1>1, <1>3, <1>6, <2>2, <3>1, <3>2
    <3> QED BY <1>3, <2>2, <3>1, <3>2, <3>3, <3>4
  <2> QED BY <2>1, <2>2
<1>11. m2.front = g[1] /\ m2.back = g[n + 1] /\ n + 1 # 0
  BY <1>1, <1>2, <1>3, <1>5, <1>6
<1>12. Linked(g, m2, c2)
  BY <1>5, <1>6, <1>9, <1>10, <1>11 DEF Linked
<1>13. ItemsOf(g, m2, c2) = AtEnd(ItemsOf(f, m, c), n, x)
  <2>1. ItemsOf(g, m2, c2) = [i \in 1..(n + 1) |-> c2[g[i]].content]
    BY <1>5 DEF ItemsOf
  <2>2. ItemsOf(f, m, c) = [i \in 1..n |-> c[f[i]].content]
    BY DEF ItemsOf, n
  <2>3. ASSUME NEW i \in 1..(n + 1)
        PROVE  c2[g[i]].content = IF i = n + 1 THEN x ELSE ItemsOf(f, m, c)[i]
    <3>1. i # n + 1 => i \in 1..n
      BY <1>1
    <3>2. i # n + 1 => ItemsOf(f, m, c)[i] = c[f[i]].content
      BY <2>2, <3>1
    <3> QED BY <1>10, <3>2
  <2> QED BY <2>1, <2>3 DEF AtEnd
<1> QED BY <1>5, <1>12, <1>13 DEF g, n

-----------------------------------------------------------------------------
(***************************************************************************)
(* The member functions do just that.                                      *)
(***************************************************************************)
Held(f) == /\ object \in Objects /\ cell \in [Nodes -> Cells]
           /\ Linked(f, object, cell)

\* What is known of the node in place k.
LEMMA NodeAt ==
  ASSUME NEW f, Held(f), NEW k \in 1..object.size
  PROVE  /\ object.size \in Nat /\ f[k] \in Nodes /\ f[k] # 0 /\ cell[f[k]] \in Cells /\ cell[f[k]].used
         /\ cell[f[k]].next = IF k = object.size THEN 0 ELSE f[k + 1]
         /\ cell[f[k]].prev = IF k = 1 THEN 0 ELSE f[k - 1]
         /\ k # object.size => k + 1 \in 1..object.size /\ f[k + 1] \in Nodes /\ f[k + 1] # f[k]
         /\ k # 1 => k - 1 \in 1..object.size /\ f[k - 1] \in Nodes /\ f[k - 1] # f[k]
         /\ k # 1 /\ k # object.size => f[k - 1] # f[k + 1]
<1>1. object.size \in Nat /\ f \in [1..object.size -> Nodes] /\ cell \in [Nodes -> Cells]
  BY DEF Held, Linked, Objects
<1>2. f[k] \in Nodes /\ f[k] # 0 /\ cell[f[k]] \in Cells
  BY <1>1, ListConstants
<1>3. /\ k # object.size => k + 1 \in 1..object.size
      /\ k # 1 => k - 1 \in 1..object.size
  BY <1>1
<1>4. \A i, j \in 1..object.size : f[i] = f[j] => i = j
  BY DEF Held, Linked
<1>5. /\ cell[f[k]].used
      /\ cell[f[k]].next = IF k = object.size THEN 0 ELSE f[k + 1]
      /\ cell[f[k]].prev = IF k = 1 THEN 0 ELSE f[k - 1]
  BY DEF Held, Linked
<1> QED BY <1>1, <1>2, <1>3, <1>4, <1>5

LEMMA FreedCell == Freed \in Cells
BY DEF Freed, Cells, Links

LEMMA PopFrontIs ==
  ASSUME NEW f, Held(f), object.size > 0
  PROVE  /\ Out(f, 1, object, cell, pop_front(Here).m, pop_front(Here).cell)
         /\ pop_front(Here).ok = "ok" /\ pop_front(Here).gone = Contents({f[1]})
<1> DEFINE p == f[1]
           q == cell[p].next
           linked == IF q = 0 THEN cell ELSE [cell EXCEPT ![q].prev = 0]
           m2 == pop_front(Here).m
           c2 == pop_front(Here).cell
<1>1. object.size \in Nat /\ 1 \in 1..object.size /\ object.front = p /\ cell \in [Nodes -> Cells]
  BY DEF Held, Linked, Objects
<1>2. /\ p \in Nodes /\ p # 0 /\ cell[p] \in Cells /\ cell[p].prev = 0
      /\ q \in Links /\ (q = 0 <=> object.size = 1) /\ q # p
  <2>1. q = IF object.size = 1 THEN 0 ELSE f[2]
    BY <1>1, NodeAt
  <2>2. object.size # 1 => f[2] \in Nodes /\ f[2] # 0 /\ f[2] # p
    BY <1>1, NodeAt, ListConstants
  <2> QED BY <1>1, <2>1, <2>2, NodeAt DEF Links
<1>3. /\ m2 = [object EXCEPT !.size = object.size - 1, !.front = q,
                             !.back = IF object.size = 1 THEN 0 ELSE object.back]
      /\ c2 = [linked EXCEPT ![p] = Freed]
      /\ pop_front(Here).ok = "ok" /\ pop_front(Here).gone = Contents({p})
  BY <1>1, <1>2 DEF pop_front, Here
<1>4. m2 = [object EXCEPT !.size = object.size - 1,
                          !.front = IF 1 = 1 THEN q ELSE object.front,
                          !.back = IF 1 = object.size THEN cell[p].prev ELSE object.back]
  BY <1>2, <1>3
<1>5. linked \in [Nodes -> Cells]
  <2>1. CASE q = 0
    BY <1>1, <2>1
  <2>2. CASE q # 0
    <3>1. q \in Nodes /\ cell[q] \in Cells
      BY <1>1, <1>2, <2>2 DEF Links
    <3>2. [cell[q] EXCEPT !.prev = 0] \in Cells
      BY <3>1 DEF Cells, Links
    <3>3. linked = [cell EXCEPT ![q] = [cell[q] EXCEPT !.prev = 0]]
      BY <2>2
    <3> QED BY <1>1, <3>1, <3>2, <3>3
  <2> QED BY <2>1, <2>2
<1>6. c2 \in [Nodes -> Cells]
  BY <1>3, <1>5, FreedCell
<1>7. ASSUME NEW r \in Nodes
      PROVE  c2[r] = IF r = p THEN Freed
                     ELSE IF r = cell[p].next THEN [cell[r] EXCEPT !.prev = cell[p].prev]
                     ELSE IF r = cell[p].prev THEN [cell[r] EXCEPT !.next = cell[p].next]
                     ELSE cell[r]
  <2>1. r # 0
    BY ListConstants
  <2>2. linked[r] = IF r = q THEN [cell[r] EXCEPT !.prev = 0] ELSE cell[r]
    BY <1>1, <2>1
  <2>3. c2[r] = IF r = p THEN Freed ELSE linked[r]
    BY <1>2, <1>3, <1>5
  <2> QED BY <1>2, <2>1, <2>2, <2>3
<1> QED BY <1>3, <1>4, <1>6, <1>7 DEF Out

LEMMA PopBackIs ==
  ASSUME NEW f, Held(f), object.size > 0
  PROVE  /\ Out(f, object.size, object, cell, pop_back(Here).m, pop_back(Here).cell)
         /\ pop_back(Here).ok = "ok" /\ pop_back(Here).gone = Contents({f[object.size]})
<1> DEFINE n == object.size
           p == f[n]
           q == cell[p].prev
           linked == IF q = 0 THEN cell ELSE [cell EXCEPT ![q].next = 0]
           m2 == pop_back(Here).m
           c2 == pop_back(Here).cell
<1>1. n \in Nat /\ n \in 1..n /\ object.back = p /\ cell \in [Nodes -> Cells]
      /\ object.front = f[1]
  BY DEF Held, Linked, Objects
<1>2. /\ p \in Nodes /\ p # 0 /\ cell[p] \in Cells /\ cell[p].next = 0
      /\ q \in Links /\ (q = 0 <=> n = 1) /\ q # p
  <2>1. q = IF n = 1 THEN 0 ELSE f[n - 1]
    BY <1>1, NodeAt
  <2>2. n # 1 => f[n - 1] \in Nodes /\ f[n - 1] # 0 /\ f[n - 1] # p
    BY <1>1, NodeAt, ListConstants
  <2> QED BY <1>1, <2>1, <2>2, NodeAt DEF Links
<1>3. /\ m2 = [object EXCEPT !.size = n - 1, !.back = q,
                             !.front = IF n = 1 THEN 0 ELSE object.front]
      /\ c2 = [linked EXCEPT ![p] = Freed]
      /\ pop_back(Here).ok = "ok" /\ pop_back(Here).gone = Contents({p})
  BY <1>1, <1>2 DEF pop_back, Here
<1>4. m2 = [object EXCEPT !.size = n - 1,
                          !.front = IF n = 1 THEN cell[p].next ELSE object.front,
                          !.back = IF n = n THEN q ELSE object.back]
  BY <1>2, <1>3
<1>5. linked \in [Nodes -> Cells]
  <2>1. CASE q = 0
    BY <1>1, <2>1
  <2>2. CASE q # 0
    <3>1. q \in Nodes /\ cell[q] \in Cells
      BY <1>1, <1>2, <2>2 DEF Links
    <3>2. [cell[q] EXCEPT !.next = 0] \in Cells
      BY <3>1 DEF Cells, Links
    <3>3. linked = [cell EXCEPT ![q] = [cell[q] EXCEPT !.next = 0]]
      BY <2>2
    <3> QED BY <1>1, <3>1, <3>2, <3>3
  <2> QED BY <2>1, <2>2
<1>6. c2 \in [Nodes -> Cells]
  BY <1>3, <1>5, FreedCell
<1>7. ASSUME NEW r \in Nodes
      PROVE  c2[r] = IF r = p THEN Freed
                     ELSE IF r = cell[p].next THEN [cell[r] EXCEPT !.prev = cell[p].prev]
                     ELSE IF r = cell[p].prev THEN [cell[r] EXCEPT !.next = cell[p].next]
                     ELSE cell[r]
  <2>1. r # 0
    BY ListConstants
  <2>2. linked[r] = IF r = q THEN [cell[r] EXCEPT !.next = 0] ELSE cell[r]
    BY <1>1, <2>1
  <2>3. c2[r] = IF r = p THEN Freed ELSE linked[r]
    BY <1>2, <1>3, <1>5
  <2> QED BY <1>2, <2>1, <2>2, <2>3
<1> QED BY <1>1, <1>3, <1>4, <1>6, <1>7 DEF Out

LEMMA RemoveIs ==
  ASSUME NEW f, Held(f), NEW k \in 1..object.size, object.cursor = f[k]
  PROVE  /\ Out(f, k, object, cell, remove(Here).m, remove(Here).cell)
         /\ remove(Here).ok = "ok" /\ remove(Here).gone = Contents({f[k]})
<1> DEFINE n == object.size
           p == f[k]
<1>1. n \in Nat /\ object.front = f[1] /\ object.back = f[n] /\ n > 0
      /\ cell \in [Nodes -> Cells] /\ 1 \in 1..n /\ n \in 1..n
      /\ \A i, j \in 1..n : f[i] = f[j] => i = j
  BY DEF Held, Linked, Objects
<1>2. Here.m = object /\ Here.cell = cell
  BY DEF Here
<1>3. CASE k = 1
  <2>1. remove(Here) = pop_front(Here)
    BY <1>1, <1>2, <1>3 DEF remove
  <2> QED BY <1>1, <1>3, <2>1, PopFrontIs
<1>4. CASE k # 1 /\ k = n
  <2>1. f[k] # f[1]
    BY <1>1, <1>4
  <2>2. remove(Here) = pop_back(Here)
    BY <1>1, <1>2, <1>4, <2>1 DEF remove
  <2> QED BY <1>1, <1>4, <2>2, PopBackIs
<1>5. CASE k # 1 /\ k # n
  <2> DEFINE before == cell[p].prev
             after == cell[p].next
             mid == Middle(Here, before, after)
             m2 == remove(Here).m
             c2 == remove(Here).cell
  <2>1. f[k] # f[1] /\ f[k] # f[n]
    BY <1>1, <1>5
  <2>2. /\ m2 = [object EXCEPT !.size = n - 1] /\ c2 = [mid EXCEPT ![p] = Freed]
        /\ remove(Here).ok = "ok" /\ remove(Here).gone = Contents({p})
    BY <1>1, <1>2, <2>1 DEF remove, Here
  <2>3. /\ p \in Nodes /\ before \in Nodes /\ after \in Nodes
        /\ before # p /\ after # p /\ before # after
    BY <1>5, NodeAt
  <2>4. mid = [cell EXCEPT ![before] = [cell[before] EXCEPT !.next = after],
                           ![after] = [cell[after] EXCEPT !.prev = before]]
    BY <1>1, <1>2, <2>3 DEF Middle
  <2>5. [cell[before] EXCEPT !.next = after] \in Cells /\ [cell[after] EXCEPT !.prev = before] \in Cells
    <3>1. cell[before] \in Cells /\ cell[after] \in Cells /\ before \in Links /\ after \in Links
      BY <1>1, <2>3 DEF Links
    <3> QED BY <3>1 DEF Cells
  <2>6. mid \in [Nodes -> Cells]
    BY <1>1, <2>3, <2>4, <2>5
  <2>7. c2 \in [Nodes -> Cells]
    BY <2>2, <2>6, FreedCell
  <2>8. m2 = [object EXCEPT !.size = n - 1, !.front = IF k = 1 THEN after ELSE object.front,
                            !.back = IF k = n THEN before ELSE object.back]
    <3>1. object = [object EXCEPT !.front = object.front, !.back = object.back]
      BY DEF Held, Objects
    <3> QED BY <1>5, <2>2, <3>1 DEF Held, Objects
  <2>9. ASSUME NEW r \in Nodes
        PROVE  c2[r] = IF r = p THEN Freed
                       ELSE IF r = after THEN [cell[r] EXCEPT !.prev = before]
                       ELSE IF r = before THEN [cell[r] EXCEPT !.next = after]
                       ELSE cell[r]
    <3>1. mid[r] = IF r = after THEN [cell[r] EXCEPT !.prev = before]
                   ELSE IF r = before THEN [cell[r] EXCEPT !.next = after] ELSE cell[r]
      BY <1>1, <2>3, <2>4
    <3>2. c2[r] = IF r = p THEN Freed ELSE mid[r]
      BY <2>2, <2>3, <2>6
    <3> QED BY <3>1, <3>2
  <2> QED BY <2>2, <2>7, <2>8, <2>9 DEF Out
<1> QED BY <1>3, <1>4, <1>5

-----------------------------------------------------------------------------
(***************************************************************************)
(* The elements as a sequence, and the cursor as a place in it.            *)
(***************************************************************************)
LEMMA SequenceIs ==
  ASSUME NEW s, NEW T, NEW n \in Nat, s \in [1..n -> T]
  PROVE  s \in Seq(T) /\ Len(s) = n /\ DOMAIN s = 1..n
<1>1. s \in Seq(T)
  OBVIOUS
<1> QED BY <1>1

LEMMA SameSequence ==
  ASSUME NEW T, NEW s \in Seq(T), NEW t \in Seq(T), Len(s) = Len(t),
         \A i \in 1..Len(s) : s[i] = t[i]
  PROVE  s = t
BY SeqEqual

LEMMA OnlyIs ==
  ASSUME NEW T, NEW s \in Seq(T), NEW k \in 1..Len(s)
  PROVE  /\ Sequence!Only(s, k) = Lacking(s, Len(s), k)
         /\ Tail(s) = Lacking(s, Len(s), 1)
<1> DEFINE n == Len(s)
           t == Lacking(s, n, k)
<1>1. n \in Nat /\ k \in 1..n /\ s \in [1..n -> T]
  BY ElementOfSeq
<1>2. t \in [1..(n - 1) -> T] /\ \A i \in 1..(n - 1) : t[i] = IF i < k THEN s[i] ELSE s[i + 1]
  BY <1>1 DEF Lacking
<1>3. t \in Seq(T) /\ Len(t) = n - 1
  <2>1. n - 1 \in Nat
    BY <1>1
  <2> HIDE DEF t, n
  <2> QED BY <1>2, <2>1, SequenceIs
<1> DEFINE a == SubSeq(s, 1, k - 1)
           b == SubSeq(s, k + 1, n)
<1>4. /\ a \in Seq(T) /\ Len(a) = k - 1 /\ \A i \in 1..(k - 1) : a[i] = s[i]
      /\ b \in Seq(T) /\ Len(b) = n - k /\ \A i \in 1..(n - k) : b[i] = s[i + k]
  <2>1. /\ k - 1 \in Int /\ k + 1 \in Int /\ 1 \in Int /\ n \in Int
        /\ \A i \in 1..(k - 1) : s[i] \in T
        /\ \A i \in (k + 1)..n : s[i] \in T
    BY <1>1
  <2>2. /\ a \in Seq(T) /\ Len(a) = IF 1 <= k - 1 THEN (k - 1) - 1 + 1 ELSE 0
        /\ \A i \in 1..((k - 1) - 1 + 1) : a[i] = s[1 + i - 1]
    BY <2>1, SubSeqProperties
  <2>3. /\ b \in Seq(T) /\ Len(b) = IF k + 1 <= n THEN n - (k + 1) + 1 ELSE 0
        /\ \A i \in 1..(n - (k + 1) + 1) : b[i] = s[(k + 1) + i - 1]
    BY <2>1, SubSeqProperties
  <2> HIDE DEF a, b, n
  <2>4. /\ Len(a) = k - 1 /\ \A i \in 1..(k - 1) : a[i] = s[i]
    BY <1>1, <2>2
  <2>5. Len(b) = n - k
    BY <1>1, <2>3
  <2>6. ASSUME NEW i \in 1..(n - k)
        PROVE  b[i] = s[i + k]
    <3>1. i \in 1..(n - (k + 1) + 1) /\ (k + 1) + i - 1 = i + k
      BY <1>1
    <3> QED BY <2>3, <3>1
  <2> QED BY <2>2, <2>3, <2>4, <2>5, <2>6
<1> HIDE DEF t, n, a, b
<1>5. /\ a \o b \in Seq(T) /\ Len(a \o b) = n - 1
      /\ \A i \in 1..(n - 1) : (a \o b)[i] = IF i < k THEN a[i] ELSE b[i - (k - 1)]
  <2>1. /\ a \o b \in Seq(T) /\ Len(a \o b) = Len(a) + Len(b)
        /\ \A i \in 1..(Len(a) + Len(b)) :
             (a \o b)[i] = IF i <= Len(a) THEN a[i] ELSE b[i - Len(a)]
    BY <1>4, ConcatProperties
  <2>2. Len(a) + Len(b) = n - 1 /\ \A i \in 1..(n - 1) : i <= Len(a) <=> i < k
    BY <1>1, <1>4
  <2> QED BY <1>4, <2>1, <2>2
<1>6. ASSUME NEW i \in 1..(n - 1)
      PROVE  (a \o b)[i] = t[i]
  <2>1. CASE i < k
    BY <1>1, <1>2, <1>4, <1>5, <2>1
  <2>2. CASE ~(i < k)
    <3> DEFINE j == i - (k - 1)
    <3>1. j \in 1..(n - k) /\ j + k = i + 1
      BY <1>1, <2>2
    <3> QED BY <1>2, <1>4, <1>5, <2>2, <3>1
  <2> QED BY <2>1, <2>2
<1>7. a \o b = t
  BY <1>3, <1>5, <1>6, SameSequence
<1>8. Tail(s) = Lacking(s, n, 1)
  <2>1. /\ Tail(s) \in Seq(T) /\ Len(Tail(s)) = n - 1
        /\ \A i \in 1..(n - 1) : Tail(s)[i] = s[i + 1]
    BY <1>1 DEF n
  <2> DEFINE u == Lacking(s, n, 1)
  <2>2. u \in [1..(n - 1) -> T] /\ \A i \in 1..(n - 1) : u[i] = s[i + 1]
    BY <1>1 DEF Lacking
  <2>3. n - 1 \in Nat
    BY <1>1
  <2> HIDE DEF u
  <2>4. u \in Seq(T) /\ Len(u) = n - 1
    BY <2>2, <2>3, SequenceIs
  <2>5. Tail(s) = u
    BY <2>1, <2>2, <2>4, SameSequence
  <2> QED BY <2>5 DEF u
<1> QED BY <1>7, <1>8 DEF Sequence!Only, t, n, a, b

LEMMA AddedIs ==
  ASSUME NEW T, NEW s \in Seq(T), NEW x \in T
  PROVE  <<x>> \o s = InFront(s, Len(s), x) /\ Append(s, x) = AtEnd(s, Len(s), x)
<1> DEFINE n == Len(s)
           u == InFront(s, n, x)
           v == AtEnd(s, n, x)
<1>1. n \in Nat /\ s \in [1..n -> T] /\ n + 1 \in Nat
  BY ElementOfSeq
<1>2. /\ u \in [1..(n + 1) -> T] /\ \A i \in 1..(n + 1) : u[i] = IF i = 1 THEN x ELSE s[i - 1]
      /\ v \in [1..(n + 1) -> T] /\ \A i \in 1..(n + 1) : v[i] = IF i = n + 1 THEN x ELSE s[i]
  <2> HIDE DEF n
  <2> QED BY <1>1 DEF InFront, AtEnd
<1> HIDE DEF u, v
<1>3. u \in Seq(T) /\ Len(u) = n + 1 /\ v \in Seq(T) /\ Len(v) = n + 1
  <2> HIDE DEF n
  <2> QED BY <1>1, <1>2, SequenceIs
<1>4. /\ <<x>> \o s \in Seq(T) /\ Len(<<x>> \o s) = n + 1
      /\ \A i \in 1..(n + 1) : (<<x>> \o s)[i] = IF i = 1 THEN x ELSE s[i - 1]
  BY <1>1
<1>5. /\ Append(s, x) \in Seq(T) /\ Len(Append(s, x)) = n + 1
      /\ \A i \in 1..(n + 1) : Append(s, x)[i] = IF i = n + 1 THEN x ELSE s[i]
  BY <1>1
<1>6. <<x>> \o s = u
  BY <1>2, <1>3, <1>4, SameSequence
<1>7. Append(s, x) = v
  BY <1>2, <1>3, <1>5, SameSequence
<1> QED BY <1>6, <1>7 DEF u, v

LEMMA ItemsAre ==
  ASSUME NEW m \in Objects, NEW c, NEW f, Linked(f, m, c)
  PROVE  /\ ItemsOf(f, m, c) \in Seq(ListElems) /\ Len(ItemsOf(f, m, c)) = m.size
         /\ DOMAIN ItemsOf(f, m, c) = 1..m.size
         /\ \A i \in 1..m.size : ItemsOf(f, m, c)[i] = c[f[i]].content
<1>1. /\ m.size \in Nat /\ ItemsOf(f, m, c) \in [1..m.size -> ListElems]
      /\ \A i \in 1..m.size : ItemsOf(f, m, c)[i] = c[f[i]].content
  BY DEF Objects, Linked, ItemsOf
<1> QED BY <1>1, SequenceIs

\* Where the cursor is when the node in place k is taken out under it or beside it.
LEMMA OutPointed ==
  ASSUME NEW m \in Objects, NEW c \in [Nodes -> Cells], NEW f, Linked(f, m, c),
         NEW r, Pointed(f, m, r),
         NEW k \in 1..m.size, NEW m2, NEW c2, Out(f, k, m, c, m2, c2),
         NEW r2, r2 = (r /\ c2[m.cursor].used)
  PROVE  /\ Pointed(Lacking(f, m.size, k), m2, r2)
         /\ AtOf(Lacking(f, m.size, k), m2, r2) =
              LET at == AtOf(f, m, r) IN IF at = k THEN 0 ELSE IF at > k THEN at - 1 ELSE at
<1> DEFINE n == m.size
           g == Lacking(f, n, k)
<1>1. /\ m2 \in Objects /\ m2.size = n - 1 /\ m2.cursor = m.cursor /\ Linked(g, m2, c2)
  BY OutLinked
<1>2. n \in Nat /\ f \in [1..n -> Nodes] /\ \A i, j \in 1..n : f[i] = f[j] => i = j
  BY DEF Objects, Linked
<1>3. \A i \in 1..(n - 1) : g[i] = IF i < k THEN f[i] ELSE f[i + 1]
  BY <1>2 DEF Lacking
<1>4. r \in BOOLEAN
  BY DEF Pointed
<1> HIDE DEF g, n
<1>5. CASE ~r
  <2>1. r2 = FALSE /\ AtOf(f, m, r) = 0
    BY <1>4, <1>5, AtIs
  <2>2. AtOf(g, m2, r2) = 0
    <3>1. ~r2 /\ r2 \in BOOLEAN
      BY <2>1
    <3> QED BY <1>1, <3>1, AtIs
  <2>3. k # 0 /\ ~(0 > k)
    BY <1>2 DEF n
  <2> QED BY <2>1, <2>2, <2>3 DEF Pointed, g, n
<1>6. CASE r
  <2>1. PICK i \in 1..n : m.cursor = f[i]
    BY <1>6 DEF Pointed, n
  <2>2. AtOf(f, m, r) = i
    BY <1>4, <1>6, <2>1, AtIs DEF n
  <2>3. f[i] \in Nodes /\ c[f[i]] \in Cells
    BY <1>2, <2>1
  <2>4. CASE i = k
    <3>1. c2[f[k]] = Freed
      BY <2>3, <2>4 DEF Out
    <3>2. r2 = FALSE
      <4>1. c2[m.cursor].used = FALSE
        BY <2>1, <2>4, <3>1 DEF Freed
      <4> QED BY <4>1, Zenon
    <3>3. AtOf(g, m2, r2) = 0
      BY <1>1, <3>2, AtIs
    <3> QED BY <2>2, <2>4, <3>2, <3>3 DEF Pointed, g, n
  <2>5. CASE i # k
    <3> DEFINE j == IF i < k THEN i ELSE i - 1
    <3>1. j \in 1..(n - 1) /\ g[j] = f[i] /\ j = IF i > k THEN i - 1 ELSE i
      BY <1>2, <1>3, <2>1, <2>5 DEF n
    <3>2. c2[g[j]].used
      BY <1>1, <3>1 DEF Linked
    <3>3. r2 = TRUE
      <4>1. c2[g[j]].used = TRUE
        <5>1. c2[g[j]] \in Cells
          BY <2>3, <3>1 DEF Out
        <5> QED BY <3>2, <5>1 DEF Cells
      <4> QED BY <1>6, <1>4, <2>1, <3>1, <4>1
    <3>4. AtOf(g, m2, r2) = j
      <4>1. r2 /\ r2 \in BOOLEAN /\ j \in 1..m2.size /\ m2.cursor = g[j]
        BY <1>1, <2>1, <3>1, <3>3
      <4> HIDE DEF j
      <4> QED BY <1>1, <4>1, AtPlace
    <3>5. Pointed(g, m2, r2)
      BY <1>1, <2>1, <3>1, <3>3 DEF Pointed
    <3> QED BY <2>2, <2>5, <3>1, <3>4, <3>5 DEF g, n
  <2> QED BY <2>4, <2>5
<1> QED BY <1>4, <1>5, <1>6

\* And when one comes in front or at the end.
LEMMA InPointed ==
  ASSUME NEW m \in Objects, NEW c \in [Nodes -> Cells], NEW f, Linked(f, m, c),
         NEW r, Pointed(f, m, r),
         NEW p \in Nodes, ~c[p].used, NEW x \in ListElems,
         NEW m2, NEW c2, In(p, x, m, c, m2, c2)
  PROVE  /\ Pointed(InFront(f, m.size, p), m2, r)
         /\ AtOf(InFront(f, m.size, p), m2, r) =
              LET at == AtOf(f, m, r) IN IF at = 0 THEN 0 ELSE at + 1
         /\ \A q \in Nodes \ {p} : c2[q].used = c[q].used
<1> DEFINE n == m.size
           g == InFront(f, n, p)
<1>1. /\ m2 \in Objects /\ m2.size = n + 1 /\ m2.cursor = m.cursor /\ Linked(g, m2, c2)
  BY InLinked
<1>2. n \in Nat /\ r \in BOOLEAN
  BY DEF Objects, Pointed
<1>3. \A i \in 1..n : i + 1 \in 1..(n + 1) /\ g[i + 1] = f[i]
  BY <1>2 DEF InFront
<1>4. ASSUME NEW q \in Nodes, q # p
      PROVE  c2[q].used = c[q].used
  <2>1. c[q] \in Cells
    OBVIOUS
  <2>2. c2[q] = IF q = m.front THEN [c[q] EXCEPT !.prev = p] ELSE c[q]
    BY <1>4 DEF In
  <2> QED BY <2>1, <2>2 DEF Cells
<1> HIDE DEF g, n
<1>5. CASE ~r
  BY <1>1, <1>2, <1>4, <1>5, AtIs DEF Pointed, g, n
<1>6. CASE r
  <2>1. PICK i \in 1..n : m.cursor = f[i]
    BY <1>6 DEF Pointed, n
  <2>2. AtOf(f, m, r) = i
    BY <1>2, <1>6, <2>1, AtIs DEF n
  <2>3. AtOf(g, m2, r) = i + 1
    <3>1. i + 1 \in 1..m2.size /\ m2.cursor = g[i + 1]
      BY <1>1, <1>3, <2>1
    <3> QED BY <1>1, <1>2, <1>6, <3>1, AtPlace
  <2>4. Pointed(g, m2, r)
    BY <1>1, <1>2, <1>3, <2>1 DEF Pointed
  <2>5. i # 0
    BY <1>2, <2>1
  <2> QED BY <1>4, <2>2, <2>3, <2>4, <2>5 DEF g, n
<1> QED BY <1>2, <1>5, <1>6

LEMMA BehindPointed ==
  ASSUME NEW m \in Objects, NEW c \in [Nodes -> Cells], NEW f, Linked(f, m, c),
         NEW r, Pointed(f, m, r),
         NEW p \in Nodes, ~c[p].used, NEW x \in ListElems,
         NEW m2, NEW c2, Behind(p, x, m, c, m2, c2)
  PROVE  /\ Pointed(AtEnd(f, m.size, p), m2, r)
         /\ AtOf(AtEnd(f, m.size, p), m2, r) = AtOf(f, m, r)
         /\ \A q \in Nodes \ {p} : c2[q].used = c[q].used
<1> DEFINE n == m.size
           g == AtEnd(f, n, p)
<1>1. /\ m2 \in Objects /\ m2.size = n + 1 /\ m2.cursor = m.cursor /\ Linked(g, m2, c2)
  BY BehindLinked
<1>2. n \in Nat /\ r \in BOOLEAN
  BY DEF Objects, Pointed
<1>3. \A i \in 1..n : i \in 1..(n + 1) /\ g[i] = f[i]
  BY <1>2 DEF AtEnd
<1>4. ASSUME NEW q \in Nodes, q # p
      PROVE  c2[q].used = c[q].used
  <2>1. c[q] \in Cells
    OBVIOUS
  <2>2. c2[q] = IF q = m.back THEN [c[q] EXCEPT !.next = p] ELSE c[q]
    BY <1>4 DEF Behind
  <2> QED BY <2>1, <2>2 DEF Cells
<1> HIDE DEF g, n
<1>5. CASE ~r
  BY <1>1, <1>2, <1>4, <1>5, AtIs DEF Pointed, g, n
<1>6. CASE r
  <2>1. PICK i \in 1..n : m.cursor = f[i]
    BY <1>6 DEF Pointed, n
  <2>2. AtOf(f, m, r) = i
    BY <1>2, <1>6, <2>1, AtIs DEF n
  <2>3. AtOf(g, m2, r) = i
    <3>1. i \in 1..m2.size /\ m2.cursor = g[i]
      BY <1>1, <1>3, <2>1
    <3> QED BY <1>1, <1>2, <1>6, <3>1, AtPlace
  <2>4. Pointed(g, m2, r)
    BY <1>1, <1>2, <1>3, <2>1 DEF Pointed
  <2> QED BY <1>4, <2>2, <2>3, <2>4 DEF g, n
<1> QED BY <1>2, <1>5, <1>6

-----------------------------------------------------------------------------
(***************************************************************************)
(* Every call is one of a Deque.                                           *)
(***************************************************************************)
ListHeld(f) == Held(f) /\ Pointed(f, object, rewound) /\ object.size <= ListSize

\* What the Deque sees of a list.
LEMMA Seen ==
  ASSUME NEW f, ListHeld(f)
  PROVE  /\ LItems = ItemsOf(f, object, cell) /\ LAt = AtOf(f, object, rewound) /\ Chain = f
         /\ object.size \in Nat /\ LItems \in Seq(ListElems) /\ Len(LItems) = object.size
         /\ DOMAIN LItems = 1..object.size
         /\ \A i \in 1..object.size : LItems[i] = cell[f[i]].content
         /\ rewound \in BOOLEAN /\ (~rewound => LAt = 0)
         /\ rewound => LAt \in 1..object.size /\ object.cursor = f[LAt]
<1>1. object \in Objects /\ Linked(f, object, cell) /\ Pointed(f, object, rewound)
  BY DEF ListHeld, Held
<1>2. ChainOf(object, cell) = f
  BY <1>1, ChainIs
<1>3. LItems = ItemsOf(f, object, cell) /\ LAt = AtOf(f, object, rewound) /\ Chain = f
  BY <1>2, MappedFrom
<1>4. /\ LItems \in Seq(ListElems) /\ Len(LItems) = object.size
      /\ DOMAIN LItems = 1..object.size
      /\ \A i \in 1..object.size : LItems[i] = cell[f[i]].content
  BY <1>1, <1>3, ItemsAre
<1>5. rewound \in BOOLEAN
  BY <1>1 DEF Pointed
<1>6. ~rewound => LAt = 0
  BY <1>1, <1>3, <1>5, AtIs
<1>7. ASSUME rewound
      PROVE  LAt \in 1..object.size /\ object.cursor = f[LAt]
  <2>1. PICK i \in 1..object.size : object.cursor = f[i]
    BY <1>1, <1>7 DEF Pointed
  <2>2. LAt = i
    BY <1>1, <1>3, <1>5, <1>7, <2>1, AtPlace
  <2> QED BY <2>1, <2>2
<1>8. object.size \in Nat
  BY <1>1 DEF Objects
<1> QED BY <1>3, <1>4, <1>5, <1>6, <1>7, <1>8

\* What it sees after a step.
LEMMA SeenNext ==
  ASSUME NEW g, object' \in Objects, cell' \in [Nodes -> Cells], object'.size <= ListSize,
         Linked(g, object', cell'), Pointed(g, object', rewound')
  PROVE  /\ ListInv'
         /\ LItems' = ItemsOf(g, object', cell') /\ LAt' = AtOf(g, object', rewound')
<1>1. ChainOf(object', cell') = g
  BY ChainIs
<1>2. LItems' = ItemsOf(g, object', cell') /\ LAt' = AtOf(g, object', rewound')
  BY <1>1, MappedTo
<1> QED BY <1>2 DEF ListInv

\* A node is taken out.
LEMMA LeavesStep ==
  ASSUME NEW f, ListHeld(f), NEW k \in 1..object.size, NEW call,
         NEW d, Out(f, k, object, cell, d.m, d.cell), d.ok = "ok", d.gone = Contents({f[k]}),
         Returns(call, d)
  PROVE  ListInv' /\ Sequence!Leaves(k, call)
<1> DEFINE n == object.size
           g == Lacking(f, n, k)
<1>1. /\ object' = d.m /\ cell' = d.cell /\ answer' = <<call, "ok", Contents({f[k]})>>
      /\ rewound' = (rewound /\ d.cell[d.m.cursor].used)
  BY DEF Returns
<1>2. /\ object \in Objects /\ cell \in [Nodes -> Cells] /\ Linked(f, object, cell)
      /\ Pointed(f, object, rewound) /\ n <= ListSize
  BY DEF ListHeld, Held
<1>3. Out(f, k, object, cell, object', cell')
  BY <1>1
<1>4. /\ object' \in Objects /\ object'.size = n - 1 /\ object'.cursor = object.cursor
      /\ Linked(g, object', cell')
      /\ ItemsOf(g, object', cell') = Lacking(ItemsOf(f, object, cell), n, k)
  BY <1>2, <1>3, OutLinked
<1>5. rewound' = (rewound /\ cell'[object.cursor].used)
  BY <1>1, <1>4
<1>6. /\ Pointed(g, object', rewound')
      /\ AtOf(g, object', rewound') =
           LET at == AtOf(f, object, rewound) IN IF at = k THEN 0 ELSE IF at > k THEN at - 1 ELSE at
  BY <1>2, <1>3, <1>5, OutPointed
<1>7. /\ n \in Nat /\ LItems \in Seq(ListElems) /\ Len(LItems) = n
      /\ LItems = ItemsOf(f, object, cell) /\ LAt = AtOf(f, object, rewound)
      /\ LItems[k] = cell[f[k]].content
  BY Seen
<1>8. cell' \in [Nodes -> Cells] /\ object'.size <= ListSize
  <2>1. cell' \in [Nodes -> Cells]
    BY <1>3 DEF Out
  <2>2. n - 1 <= ListSize
    BY <1>2, <1>7, ListConstants
  <2> QED BY <1>4, <2>1, <2>2
<1>9. /\ ListInv'
      /\ LItems' = ItemsOf(g, object', cell') /\ LAt' = AtOf(g, object', rewound')
  BY <1>4, <1>6, <1>8, SeenNext
<1>10. LItems' = Sequence!Only(LItems, k)
  BY <1>4, <1>7, <1>9, OnlyIs
<1>11. LAt' = IF LAt = k THEN 0 ELSE IF LAt > k THEN LAt - 1 ELSE LAt
  BY <1>6, <1>7, <1>9
<1>12. Contents({f[k]}) = Sequence!Gone({LItems[k]})
  BY <1>7 DEF Contents, Sequence!Gone
<1> QED BY <1>1, <1>9, <1>10, <1>11, <1>12 DEF Sequence!Leaves

\* The list stays as it is.
LEMMA Stays ==
  ASSUME NEW f, ListHeld(f), object' = object, rewound' = rewound, cell' \in [Nodes -> Cells],
         \A i \in 1..object.size : cell'[f[i]] = cell[f[i]]
  PROVE  ListInv' /\ UNCHANGED <<LItems, LAt>>
<1>1. /\ object \in Objects /\ Linked(f, object, cell) /\ Pointed(f, object, rewound)
      /\ object.size <= ListSize
  BY DEF ListHeld, Held
<1>2. Linked(f, object', cell') /\ Pointed(f, object', rewound')
  BY <1>1 DEF Linked, Pointed
<1>3. ListInv' /\ LItems' = ItemsOf(f, object', cell') /\ LAt' = AtOf(f, object', rewound')
  BY <1>1, <1>2, SeenNext
<1>4. ItemsOf(f, object', cell') = ItemsOf(f, object, cell)
  BY DEF ItemsOf
<1>5. LItems = ItemsOf(f, object, cell) /\ LAt = AtOf(f, object, rewound)
  BY Seen
<1> QED BY <1>3, <1>4, <1>5

\* A pop of an empty list.
LEMMA EmptyPop ==
  ASSUME NEW f, ListHeld(f), object.size = 0, NEW call \in {"pop_front", "pop_back"},
         NEW d, d = [Here EXCEPT !.ok = "empty"], Returns(call, d)
  PROVE  ListInv' /\ Sequence!Pop
<1>1. /\ object' = object /\ cell' = cell /\ answer' = <<call, "empty", {}>>
      /\ rewound' = (rewound /\ cell[object.cursor].used)
  BY DEF Returns, Here
<1>2. ~rewound /\ rewound \in BOOLEAN
  BY Seen
<1>3. rewound' = rewound
  BY <1>1, <1>2, Zenon
<1>4. cell \in [Nodes -> Cells]
  BY DEF ListHeld, Held
<1>5. ListInv' /\ UNCHANGED <<LItems, LAt>>
  BY <1>1, <1>3, <1>4, Stays
<1>6. LItems = <<>>
  BY Seen, EmptySeq
<1> QED BY <1>1, <1>5, <1>6 DEF Sequence!Pop

LEMMA PopStep ==
  ASSUME NEW f, ListHeld(f), list_pop
  PROVE  ListInv' /\ Sequence!Next
<1>1. Held(f) /\ object.size \in Nat /\ Len(LItems) = object.size
  BY Seen DEF ListHeld
<1>2. CASE object.size > 0
  <2>1. LItems # <<>> /\ 1 \in 1..object.size /\ object.size \in 1..object.size
    BY <1>1, <1>2
  <2>2. CASE Returns("pop_front", pop_front(Here))
    <3>1. ListInv' /\ Sequence!Leaves(1, "pop_front")
      BY <1>1, <1>2, <2>1, <2>2, PopFrontIs, LeavesStep
    <3> QED BY <2>1, <3>1 DEF Sequence!Next, Sequence!Pop
  <2>3. CASE Returns("pop_back", pop_back(Here))
    <3>1. ListInv' /\ Sequence!Leaves(object.size, "pop_back")
      BY <1>1, <1>2, <2>1, <2>3, PopBackIs, LeavesStep
    <3> QED BY <1>1, <2>1, <3>1 DEF Sequence!Next, Sequence!Pop
  <2> QED BY <2>2, <2>3 DEF list_pop
<1>3. CASE object.size = 0
  <2>1. object.front = 0 /\ object.back = 0
    BY <1>1, <1>3 DEF Held, Linked
  <2>2. pop_front(Here) = [Here EXCEPT !.ok = "empty"] /\ pop_back(Here) = [Here EXCEPT !.ok = "empty"]
    BY <2>1 DEF pop_front, pop_back, Here
  <2>3. ListInv' /\ Sequence!Pop
    BY <1>3, <2>2, EmptyPop DEF list_pop
  <2> QED BY <2>3 DEF Sequence!Next
<1> QED BY <1>1, <1>2, <1>3

LEMMA RemoveStep ==
  ASSUME NEW f, ListHeld(f), list_remove
  PROVE  ListInv' /\ Sequence!Next
<1>1. /\ Held(f) /\ rewound /\ Returns("remove", remove(Here))
      /\ LAt \in 1..object.size /\ object.cursor = f[LAt] /\ object.size \in Nat
  BY Seen DEF ListHeld, list_remove
<1>2. ListInv' /\ Sequence!Leaves(LAt, "remove")
  BY <1>1, RemoveIs, LeavesStep
<1>3. LAt # 0
  BY <1>1
<1> QED BY <1>2, <1>3 DEF Sequence!Next, Sequence!Remove

-----------------------------------------------------------------------------
\* The cursor goes to place i.
LEMMA CursorTo ==
  ASSUME NEW f, ListHeld(f), NEW i \in 1..object.size, NEW call, Cursor(call, f[i])
  PROVE  ListInv' /\ Sequence!Moved(call, i)
<1>1. /\ object \in Objects /\ cell \in [Nodes -> Cells] /\ Linked(f, object, cell)
      /\ object.size <= ListSize /\ f[i] \in Nodes /\ f[i] # 0
  BY NodeAt DEF ListHeld, Held
<1>2. /\ object' = [object EXCEPT !.cursor = f[i]] /\ rewound' = TRUE /\ cell' = cell
      /\ answer' = <<call, cell[f[i]].content, {}>>
  BY <1>1 DEF Cursor
<1>3. /\ object' \in Objects /\ object'.size = object.size /\ object'.cursor = f[i]
      /\ object'.front = object.front /\ object'.back = object.back
  BY <1>1, <1>2 DEF Objects, Links
<1>4. Linked(f, object', cell')
  BY <1>1, <1>2, <1>3 DEF Linked
<1>5. Pointed(f, object', rewound')
  BY <1>2, <1>3 DEF Pointed
<1>6. AtOf(f, object', rewound') = i
  <2>1. TRUE \in BOOLEAN /\ i \in 1..object'.size /\ object'.cursor = f[i]
    BY <1>2, <1>3
  <2>2. AtOf(f, object', TRUE) = i
    BY <1>3, <1>4, <2>1, AtPlace, Zenon
  <2> QED BY <1>2, <2>2
<1>7. ItemsOf(f, object', cell') = ItemsOf(f, object, cell)
  BY <1>2, <1>3 DEF ItemsOf
<1>8. ListInv' /\ LItems' = ItemsOf(f, object', cell') /\ LAt' = i
  BY <1>1, <1>2, <1>3, <1>4, <1>5, <1>6, SeenNext
<1>9. LItems' = LItems /\ LItems[i] = cell[f[i]].content /\ i \in DOMAIN LItems
  BY <1>7, <1>8, Seen
<1> QED BY <1>2, <1>8, <1>9 DEF Sequence!Moved

\* front() and back().
LEMMA RewindStep ==
  ASSUME NEW f, ListHeld(f), list_front \/ list_back
  PROVE  ListInv' /\ Sequence!Next
<1>1. /\ object \in Objects /\ cell \in [Nodes -> Cells] /\ Linked(f, object, cell)
      /\ object.size <= ListSize /\ object.size \in Nat
      /\ object.front = IF object.size = 0 THEN 0 ELSE f[1]
      /\ object.back = IF object.size = 0 THEN 0 ELSE f[object.size]
  BY DEF ListHeld, Held, Linked, Objects
<1>2. CASE object.size # 0
  <2>1. 1 \in 1..object.size /\ object.size \in 1..object.size /\ Len(LItems) = object.size
    BY <1>1, <1>2, Seen
  <2>2. CASE list_front
    <3>1. ListInv' /\ Sequence!Moved("front", 1)
      BY <1>1, <1>2, <2>1, <2>2, CursorTo DEF list_front
    <3> QED BY <3>1 DEF Sequence!Next, Sequence!Walk
  <2>3. CASE list_back
    <3>1. ListInv' /\ Sequence!Moved("back", object.size)
      BY <1>1, <1>2, <2>1, <2>3, CursorTo DEF list_back
    <3> QED BY <2>1, <3>1 DEF Sequence!Next, Sequence!Walk
  <2> QED BY <2>2, <2>3
<1>3. CASE object.size = 0
  <2>1. PICK call \in {"front", "back"} : Cursor(call, 0) /\ (call = "back" <=> ~list_front)
    BY <1>1, <1>3 DEF list_front, list_back
  <2>2. /\ object' = [object EXCEPT !.cursor = 0] /\ rewound' = FALSE /\ cell' = cell
        /\ answer' = <<call, "NULL", {}>>
    BY <2>1 DEF Cursor
  <2>3. /\ object' \in Objects /\ object'.size = object.size
        /\ object'.front = object.front /\ object'.back = object.back
    BY <1>1, <2>2 DEF Objects, Links
  <2>4. Linked(f, object', cell')
    BY <1>1, <2>2, <2>3 DEF Linked
  <2>5. Pointed(f, object', rewound')
    BY <2>2 DEF Pointed
  <2>6. AtOf(f, object', rewound') = 0
    BY <2>2, <2>3, <2>4, AtIs
  <2>7. ItemsOf(f, object', cell') = ItemsOf(f, object, cell)
    BY <2>2, <2>3 DEF ItemsOf
  <2>8. ListInv' /\ LItems' = ItemsOf(f, object', cell') /\ LAt' = 0
    BY <1>1, <2>2, <2>3, <2>4, <2>5, <2>6, SeenNext
  <2>9. LItems' = LItems /\ DOMAIN LItems = {} /\ Len(LItems) = 0 /\ LAt = 0
    <3>1. DOMAIN LItems = 1..0 /\ Len(LItems) = 0 /\ LItems = ItemsOf(f, object, cell)
      BY <1>3, Seen
    <3>2. ~rewound
      BY <1>3, Seen
    <3> QED BY <2>7, <2>8, <3>1, <3>2, Seen
  <2>10. Sequence!Moved(call, 1) /\ Sequence!Moved(call, Len(LItems))
    BY <2>2, <2>8, <2>9 DEF Sequence!Moved
  <2>11. Sequence!Moved("front", 1) \/ Sequence!Moved("back", Len(LItems))
    BY <2>1, <2>10
  <2> QED BY <2>8, <2>11 DEF Sequence!Next, Sequence!Walk
<1> QED BY <1>2, <1>3

\* next() and prev().
LEMMA WalkStep ==
  ASSUME NEW f, ListHeld(f), list_next \/ list_prev
  PROVE  ListInv' /\ Sequence!Next
<1> DEFINE i == LAt
<1>1. /\ rewound /\ i \in 1..object.size /\ object.cursor = f[i] /\ object.size \in Nat
      /\ DOMAIN LItems = 1..object.size /\ Held(f)
  BY Seen DEF ListHeld, list_next, list_prev, Step
<1>2. ASSUME NEW j, NEW call, NEW p, Step(call, p),
             p = IF j \in 1..object.size THEN f[j] ELSE 0
      PROVE  ListInv' /\ Sequence!Moved(call, j)
  <2>1. CASE j \in 1..object.size
    <3>1. f[j] # 0
      BY <1>1, <2>1, NodeAt
    <3>2. Cursor(call, f[j])
      BY <1>2, <2>1, <3>1 DEF Step
    <3> QED BY <2>1, <3>2, CursorTo
  <2>2. CASE j \notin 1..object.size
    <3>1. answer' = <<call, "NULL", {}>> /\ UNCHANGED <<object, cell, rewound>>
      BY <1>2, <2>2 DEF Step
    <3>2. ListInv' /\ UNCHANGED <<LItems, LAt>>
      BY <3>1, Stays DEF ListHeld, Held
    <3> QED BY <1>1, <2>2, <3>1, <3>2 DEF Sequence!Moved
  <2> QED BY <2>1, <2>2
<1>3. /\ cell[object.cursor].next = IF i + 1 \in 1..object.size THEN f[i + 1] ELSE 0
      /\ cell[object.cursor].prev = IF i - 1 \in 1..object.size THEN f[i - 1] ELSE 0
  <2>1. /\ cell[f[i]].next = IF i = object.size THEN 0 ELSE f[i + 1]
        /\ cell[f[i]].prev = IF i = 1 THEN 0 ELSE f[i - 1]
    BY <1>1, NodeAt
  <2>2. (i + 1 \in 1..object.size <=> i # object.size) /\ (i - 1 \in 1..object.size <=> i # 1)
    BY <1>1
  <2> QED BY <1>1, <2>1, <2>2
<1>4. i # 0
  BY <1>1
<1>5. CASE list_next
  <2>1. ListInv' /\ Sequence!Moved("next", i + 1)
    BY <1>2, <1>3, <1>5 DEF list_next
  <2> QED BY <1>4, <2>1 DEF Sequence!Next, Sequence!Walk
<1>6. CASE list_prev
  <2>1. ListInv' /\ Sequence!Moved("prev", i - 1)
    BY <1>2, <1>3, <1>6 DEF list_prev
  <2> QED BY <1>4, <2>1 DEF Sequence!Next, Sequence!Walk
<1> QED BY <1>5, <1>6

LEMMA AskedStep ==
  ASSUME NEW f, ListHeld(f), list_asked
  PROVE  ListInv' /\ Sequence!Next
<1>1. UNCHANGED <<object, cell, rewound>>
  BY DEF list_asked
<1>2. ListInv' /\ UNCHANGED <<LItems, LAt>>
  BY <1>1, Stays DEF ListHeld, Held
<1>3. Len(LItems) = object.size /\ (LItems = <<>> <=> object.size = 0)
  BY Seen, EmptySeq
<1>4. \/ answer' = <<"size", Len(LItems), {}>>
      \/ answer' = <<"empty", LItems = <<>>, {}>>
      \/ answer' = <<"full", Len(LItems) = ListSize, {}>>
  BY <1>3 DEF list_asked
<1> QED BY <1>2, <1>4 DEF Sequence!Next, Sequence!Counted

-----------------------------------------------------------------------------
\* The node that is linked once there is room for it.
NewFront(d, p, x) ==
  LET old == d.m.front
      new == [used |-> TRUE, content |-> x, next |-> old, prev |-> 0]
      linked == IF old = 0 THEN d.cell ELSE [d.cell EXCEPT ![old].prev = p]
  IN  [d EXCEPT !.m.size = @ + 1, !.m.front = p, !.m.back = IF @ = 0 THEN p ELSE @,
                !.cell = [linked EXCEPT ![p] = new]]

NewBack(d, p, x) ==
  LET old == d.m.back
      new == [used |-> TRUE, content |-> x, next |-> 0, prev |-> old]
      linked == IF old = 0 THEN d.cell ELSE [d.cell EXCEPT ![old].next = p]
  IN  [d EXCEPT !.m.size = @ + 1, !.m.back = p, !.m.front = IF @ = 0 THEN p ELSE @,
                !.cell = [linked EXCEPT ![p] = new]]

Record(d) == d = [m |-> d.m, cell |-> d.cell, gone |-> d.gone, ok |-> d.ok]

LEMMA NewFrontIs ==
  ASSUME NEW d, Record(d), d.m \in Objects, d.cell \in [Nodes -> Cells],
         NEW p \in Nodes, NEW x \in ListElems
  PROVE  /\ In(p, x, d.m, d.cell, NewFront(d, p, x).m, NewFront(d, p, x).cell)
         /\ NewFront(d, p, x).ok = d.ok /\ NewFront(d, p, x).gone = d.gone
<1> DEFINE old == d.m.front
           new == [used |-> TRUE, content |-> x, next |-> old, prev |-> 0]
           linked == IF old = 0 THEN d.cell ELSE [d.cell EXCEPT ![old].prev = p]
           m2 == NewFront(d, p, x).m
           c2 == NewFront(d, p, x).cell
<1>1. /\ m2 = [d.m EXCEPT !.size = d.m.size + 1, !.front = p,
                          !.back = IF d.m.back = 0 THEN p ELSE d.m.back]
      /\ c2 = [linked EXCEPT ![p] = new]
      /\ NewFront(d, p, x).ok = d.ok /\ NewFront(d, p, x).gone = d.gone
  BY DEF NewFront, Record, Objects
<1>2. old \in Links /\ p # 0 /\ p \in Links
  BY ListConstants DEF Objects, Links
<1>3. new \in Cells
  BY <1>2 DEF Cells, Links
<1>4. linked \in [Nodes -> Cells]
  <2>1. CASE old = 0
    BY <2>1
  <2>2. CASE old # 0
    <3>1. old \in Nodes /\ d.cell[old] \in Cells
      BY <1>2, <2>2 DEF Links
    <3>2. [d.cell[old] EXCEPT !.prev = p] \in Cells
      BY <1>2, <3>1 DEF Cells
    <3>3. linked = [d.cell EXCEPT ![old] = [d.cell[old] EXCEPT !.prev = p]]
      BY <2>2
    <3> QED BY <3>1, <3>2, <3>3
  <2> QED BY <2>1, <2>2
<1>5. c2 \in [Nodes -> Cells]
  BY <1>1, <1>3, <1>4
<1>6. ASSUME NEW q \in Nodes
      PROVE  c2[q] = IF q = p THEN new
                     ELSE IF q = old THEN [d.cell[q] EXCEPT !.prev = p] ELSE d.cell[q]
  <2>1. q # 0
    BY ListConstants
  <2>2. linked[q] = IF q = old THEN [d.cell[q] EXCEPT !.prev = p] ELSE d.cell[q]
    BY <2>1
  <2>3. c2[q] = IF q = p THEN new ELSE linked[q]
    BY <1>1, <1>4
  <2> QED BY <2>2, <2>3
<1> QED BY <1>1, <1>5, <1>6 DEF In

LEMMA NewBackIs ==
  ASSUME NEW d, Record(d), d.m \in Objects, d.cell \in [Nodes -> Cells],
         NEW p \in Nodes, NEW x \in ListElems
  PROVE  /\ Behind(p, x, d.m, d.cell, NewBack(d, p, x).m, NewBack(d, p, x).cell)
         /\ NewBack(d, p, x).ok = d.ok /\ NewBack(d, p, x).gone = d.gone
<1> DEFINE old == d.m.back
           new == [used |-> TRUE, content |-> x, next |-> 0, prev |-> old]
           linked == IF old = 0 THEN d.cell ELSE [d.cell EXCEPT ![old].next = p]
           m2 == NewBack(d, p, x).m
           c2 == NewBack(d, p, x).cell
<1>1. /\ m2 = [d.m EXCEPT !.size = d.m.size + 1, !.back = p,
                          !.front = IF d.m.front = 0 THEN p ELSE d.m.front]
      /\ c2 = [linked EXCEPT ![p] = new]
      /\ NewBack(d, p, x).ok = d.ok /\ NewBack(d, p, x).gone = d.gone
  BY DEF NewBack, Record, Objects
<1>2. old \in Links /\ p # 0 /\ p \in Links
  BY ListConstants DEF Objects, Links
<1>3. new \in Cells
  BY <1>2 DEF Cells, Links
<1>4. linked \in [Nodes -> Cells]
  <2>1. CASE old = 0
    BY <2>1
  <2>2. CASE old # 0
    <3>1. old \in Nodes /\ d.cell[old] \in Cells
      BY <1>2, <2>2 DEF Links
    <3>2. [d.cell[old] EXCEPT !.next = p] \in Cells
      BY <1>2, <3>1 DEF Cells
    <3>3. linked = [d.cell EXCEPT ![old] = [d.cell[old] EXCEPT !.next = p]]
      BY <2>2
    <3> QED BY <3>1, <3>2, <3>3
  <2> QED BY <2>1, <2>2
<1>5. c2 \in [Nodes -> Cells]
  BY <1>1, <1>3, <1>4
<1>6. ASSUME NEW q \in Nodes
      PROVE  c2[q] = IF q = p THEN new
                     ELSE IF q = old THEN [d.cell[q] EXCEPT !.next = p] ELSE d.cell[q]
  <2>1. q # 0
    BY ListConstants
  <2>2. linked[q] = IF q = old THEN [d.cell[q] EXCEPT !.next = p] ELSE d.cell[q]
    BY <2>1
  <2>3. c2[q] = IF q = p THEN new ELSE linked[q]
    BY <1>1, <1>4
  <2> QED BY <2>2, <2>3
<1> QED BY <1>1, <1>5, <1>6 DEF Behind

\* A full list that takes no more stays, and the node is leaked.
LEMMA LeakedStep ==
  ASSUME NEW f, ListHeld(f), object.size = ListSize, NEW p \in Nodes, ~cell[p].used, NEW call,
         Returns(call, Leaked(Here, p))
  PROVE  ListInv' /\ Sequence!Refused(call)
<1>1. /\ cell \in [Nodes -> Cells] /\ f \in [1..object.size -> Nodes]
      /\ \A i \in 1..object.size : cell[f[i]].used
      /\ Pointed(f, object, rewound)
  BY DEF ListHeld, Held, Linked
<1>2. /\ object' = object /\ cell' = [cell EXCEPT ![p].used = TRUE]
      /\ answer' = <<call, "full", {}>>
      /\ rewound' = (rewound /\ cell'[object.cursor].used)
  BY DEF Returns, Leaked, Here
<1>3. [cell[p] EXCEPT !.used = TRUE] \in Cells
  <2>1. cell[p] \in Cells
    BY <1>1
  <2> QED BY <2>1 DEF Cells
<1>4. cell' \in [Nodes -> Cells]
  BY <1>1, <1>2, <1>3
<1>5. \A i \in 1..object.size : cell'[f[i]] = cell[f[i]]
  BY <1>1, <1>2
<1>6. rewound' = rewound
  <2>1. CASE rewound
    <3>1. PICK i \in 1..object.size : object.cursor = f[i]
      BY <1>1, <2>1 DEF Pointed
    <3>2. cell'[object.cursor].used = TRUE
      <4>1. cell[f[i]] \in Cells /\ cell[f[i]].used
        BY <1>1, <3>1
      <4> QED BY <1>5, <3>1, <4>1 DEF Cells
    <3>3. rewound = TRUE
      BY <1>1, <2>1 DEF Pointed
    <3> QED BY <1>2, <3>2, <3>3
  <2>2. CASE ~rewound
    <3>1. rewound = FALSE
      BY <1>1, <2>2 DEF Pointed
    <3> QED BY <1>2, <3>1
  <2> QED BY <2>1, <2>2
<1>7. ListInv' /\ UNCHANGED <<LItems, LAt>>
  BY <1>2, <1>4, <1>5, <1>6, Stays
<1>8. Len(LItems) = ListSize
  BY Seen
<1> QED BY <1>2, <1>7, <1>8 DEF Sequence!Refused

\* The node that comes is none of the list's.
LEMMA FrontStep ==
  ASSUME NEW m \in Objects, NEW c \in [Nodes -> Cells], NEW f, Linked(f, m, c),
         NEW r, Pointed(f, m, r), m.size < ListSize,
         NEW p \in Nodes, ~c[p].used, NEW x \in ListElems,
         In(p, x, m, c, object', cell'), rewound' = r
  PROVE  /\ ListInv' /\ LItems' = <<x>> \o ItemsOf(f, m, c)
         /\ LAt' = IF AtOf(f, m, r) = 0 THEN 0 ELSE AtOf(f, m, r) + 1
<1> DEFINE g == InFront(f, m.size, p)
<1>1. /\ object' \in Objects /\ object'.size = m.size + 1
      /\ Linked(g, object', cell')
      /\ ItemsOf(g, object', cell') = InFront(ItemsOf(f, m, c), m.size, x)
  BY InLinked
<1>2. /\ Pointed(g, object', rewound')
      /\ AtOf(g, object', rewound') = LET at == AtOf(f, m, r) IN IF at = 0 THEN 0 ELSE at + 1
  BY InPointed
<1>3. cell' \in [Nodes -> Cells] /\ object'.size <= ListSize
  <2>1. m.size \in Nat
    BY DEF Objects
  <2> QED BY <1>1, <2>1, ListConstants DEF In
<1>4. ListInv' /\ LItems' = ItemsOf(g, object', cell') /\ LAt' = AtOf(g, object', rewound')
  BY <1>1, <1>2, <1>3, SeenNext
<1>5. <<x>> \o ItemsOf(f, m, c) = InFront(ItemsOf(f, m, c), m.size, x)
  <2>1. ItemsOf(f, m, c) \in Seq(ListElems) /\ Len(ItemsOf(f, m, c)) = m.size
    BY ItemsAre
  <2> QED BY <2>1, AddedIs
<1> QED BY <1>1, <1>2, <1>4, <1>5

LEMMA BackStep ==
  ASSUME NEW m \in Objects, NEW c \in [Nodes -> Cells], NEW f, Linked(f, m, c),
         NEW r, Pointed(f, m, r), m.size < ListSize,
         NEW p \in Nodes, ~c[p].used, NEW x \in ListElems,
         Behind(p, x, m, c, object', cell'), rewound' = r
  PROVE  /\ ListInv' /\ LItems' = Append(ItemsOf(f, m, c), x) /\ LAt' = AtOf(f, m, r)
<1> DEFINE g == AtEnd(f, m.size, p)
<1>1. /\ object' \in Objects /\ object'.size = m.size + 1
      /\ Linked(g, object', cell')
      /\ ItemsOf(g, object', cell') = AtEnd(ItemsOf(f, m, c), m.size, x)
  BY BehindLinked
<1>2. Pointed(g, object', rewound') /\ AtOf(g, object', rewound') = AtOf(f, m, r)
  BY BehindPointed
<1>3. cell' \in [Nodes -> Cells] /\ object'.size <= ListSize
  <2>1. m.size \in Nat
    BY DEF Objects
  <2> QED BY <1>1, <2>1, ListConstants DEF Behind
<1>4. ListInv' /\ LItems' = ItemsOf(g, object', cell') /\ LAt' = AtOf(g, object', rewound')
  BY <1>1, <1>2, <1>3, SeenNext
<1>5. Append(ItemsOf(f, m, c), x) = AtEnd(ItemsOf(f, m, c), m.size, x)
  <2>1. ItemsOf(f, m, c) \in Seq(ListElems) /\ Len(ItemsOf(f, m, c)) = m.size
    BY ItemsAre
  <2> QED BY <2>1, AddedIs
<1> QED BY <1>1, <1>2, <1>4, <1>5

LEMMA Unused ==
  ASSUME NEW f, ListHeld(f), \E q \in Nodes : ~cell[q].used
  PROVE  /\ NewNode \in Nodes /\ ~cell[NewNode].used
         /\ \A i \in 1..object.size : f[i] # NewNode
BY DEF NewNode, ListHeld, Held, Linked

LEMMA HeldRecord == Record(Here) /\ Here.m = object /\ Here.cell = cell /\ Here.ok = "ok" /\ Here.gone = {}
BY DEF Record, Here

LEMMA PushFrontStep ==
  ASSUME NEW f, ListHeld(f), \E q \in Nodes : ~cell[q].used,
         NEW x \in ListElems, NEW override \in BOOLEAN,
         Returns("push_front", push_front(NewNode, x, override))
  PROVE  ListInv' /\ Sequence!PushFront(x, override)
<1> DEFINE p == NewNode
           n == object.size
<1>1. p \in Nodes /\ ~cell[p].used /\ \A i \in 1..n : f[i] # p
  BY Unused
<1>2. /\ object \in Objects /\ cell \in [Nodes -> Cells] /\ Linked(f, object, cell)
      /\ Pointed(f, object, rewound) /\ n <= ListSize /\ n \in Nat /\ Held(f)
  BY DEF ListHeld, Held, Objects
<1>3. /\ LItems = ItemsOf(f, object, cell) /\ LAt = AtOf(f, object, rewound) /\ Len(LItems) = n
      /\ LItems \in Seq(ListElems)
  BY Seen
<1>4. Full(Here) <=> n = ListSize
  BY HeldRecord DEF Full
<1> HIDE DEF p
<1>5. CASE n = ListSize /\ ~override
  <2>1. push_front(p, x, override) = Leaked(Here, p)
    BY <1>4, <1>5 DEF push_front
  <2>2. ListInv' /\ Sequence!Refused("push_front")
    BY <1>1, <1>5, <2>1, LeakedStep DEF p
  <2> QED BY <1>5, <2>2 DEF Sequence!PushFront
<1>6. CASE n # ListSize
  <2> DEFINE d == NewFront(Here, p, x)
  <2>1. push_front(p, x, override) = d
    BY <1>4, <1>6 DEF push_front, NewFront
  <2>2. In(p, x, object, cell, d.m, d.cell) /\ d.ok = "ok" /\ d.gone = {}
    BY <1>1, <1>2, HeldRecord, NewFrontIs
  <2> HIDE DEF d
  <2>3. /\ object' = d.m /\ cell' = d.cell /\ answer' = <<"push_front", "ok", {}>>
        /\ rewound' = (rewound /\ cell'[object'.cursor].used)
    BY <2>1, <2>2 DEF Returns, p
  <2>4. object'.cursor = object.cursor
    BY <1>1, <1>2, <2>2, <2>3, InLinked
  <2>5. \A q \in Nodes \ {p} : cell'[q].used = cell[q].used
    BY <1>1, <1>2, <2>2, <2>3, InPointed
  <2>6. rewound' = rewound
    <3>1. CASE rewound
      <4>1. PICK i \in 1..n : object.cursor = f[i]
        BY <1>2, <3>1 DEF Pointed
      <4>2. f[i] \in Nodes \ {p} /\ cell[f[i]].used = TRUE
        BY <1>1, <1>2, <4>1, NodeAt DEF Cells
      <4>3. cell'[object'.cursor].used = TRUE /\ rewound = TRUE
        BY <1>2, <2>4, <2>5, <3>1, <4>1, <4>2 DEF Pointed
      <4> QED BY <2>3, <4>3
    <3>2. CASE ~rewound
      <4>1. rewound = FALSE
        BY <1>2, <3>2 DEF Pointed
      <4> QED BY <2>3, <4>1
    <3> QED BY <3>1, <3>2
  <2>7. n < ListSize
    BY <1>2, <1>6, ListConstants
  <2>8. /\ ListInv' /\ LItems' = <<x>> \o LItems
        /\ LAt' = IF LAt = 0 THEN 0 ELSE LAt + 1
    BY <1>1, <1>2, <1>3, <2>2, <2>3, <2>6, <2>7, FrontStep
  <2> QED BY <1>3, <2>3, <2>7, <2>8 DEF Sequence!PushFront
<1>7. CASE n = ListSize /\ override
  <2> DEFINE e == pop_back(Here)
             d == NewFront(e, p, x)
             g == Lacking(f, n, n)
             r == rewound /\ e.cell[object.cursor].used
  <2>1. push_front(p, x, override) = d
    BY <1>4, <1>7 DEF push_front, NewFront
  <2>2. n > 0 /\ n \in 1..n
    BY <1>2, <1>7, ListConstants
  <2>3. /\ Out(f, n, object, cell, e.m, e.cell) /\ e.ok = "ok" /\ e.gone = Contents({f[n]})
    BY <1>2, <2>2, PopBackIs
  <2>4. Record(e)
    BY DEF Record, pop_back, Here
  <2> HIDE DEF e
  <2>5. /\ e.m \in Objects /\ e.m.size = n - 1 /\ e.m.cursor = object.cursor
        /\ Linked(g, e.m, e.cell) /\ e.cell \in [Nodes -> Cells]
        /\ ItemsOf(g, e.m, e.cell) = Lacking(LItems, n, n)
    <3>1. e.cell \in [Nodes -> Cells]
      BY <2>3 DEF Out
    <3> QED BY <1>2, <1>3, <2>2, <2>3, <3>1, OutLinked
  <2>6. /\ Pointed(g, e.m, r)
        /\ AtOf(g, e.m, r) = IF LAt = n THEN 0 ELSE IF LAt > n THEN LAt - 1 ELSE LAt
    BY <1>2, <1>3, <2>2, <2>3, OutPointed
  <2>7. e.cell[p].used = FALSE
    <3>1. p # f[n] /\ p # 0
      BY <1>1, <2>2, ListConstants
    <3>2. cell[f[n]].next = 0 /\ p # cell[f[n]].prev
      BY <1>1, <1>2, <2>2, <3>1, NodeAt
    <3>3. e.cell[p] = cell[p] /\ cell[p] \in Cells
      BY <1>1, <1>2, <2>3, <3>1, <3>2 DEF Out
    <3> QED BY <1>1, <3>3 DEF Cells
  <2>8. In(p, x, e.m, e.cell, d.m, d.cell) /\ d.ok = "ok" /\ d.gone = Contents({f[n]})
    BY <1>1, <2>3, <2>4, <2>5, NewFrontIs
  <2> HIDE DEF d, r
  <2>9. /\ object' = d.m /\ cell' = d.cell /\ answer' = <<"push_front", "ok", Contents({f[n]})>>
        /\ rewound' = (rewound /\ cell'[object'.cursor].used)
    BY <2>1, <2>8 DEF Returns, p
  <2>10. object'.cursor = object.cursor
    BY <1>1, <2>5, <2>7, <2>8, <2>9, InLinked
  <2>11. \A q \in Nodes \ {p} : cell'[q].used = e.cell[q].used
    BY <1>1, <2>5, <2>6, <2>7, <2>8, <2>9, InPointed
  <2>12. rewound' = r
    <3>1. CASE rewound
      <4>1. PICK i \in 1..n : object.cursor = f[i]
        BY <1>2, <3>1 DEF Pointed
      <4>2. f[i] \in Nodes \ {p}
        BY <1>1, <1>2, <4>1, NodeAt
      <4>3. cell'[object'.cursor].used = e.cell[object.cursor].used
        BY <2>10, <2>11, <4>1, <4>2
      <4> QED BY <2>9, <4>3 DEF r
    <3>2. CASE ~rewound
      <4>1. rewound = FALSE
        BY <1>2, <3>2 DEF Pointed
      <4> QED BY <2>9, <4>1 DEF r
    <3> QED BY <3>1, <3>2
  <2>13. e.m.size < ListSize
    BY <1>2, <1>7, <2>5
  <2>14. /\ ListInv' /\ LItems' = <<x>> \o ItemsOf(g, e.m, e.cell)
         /\ LAt' = IF AtOf(g, e.m, r) = 0 THEN 0 ELSE AtOf(g, e.m, r) + 1
    BY <1>1, <2>5, <2>6, <2>7, <2>8, <2>9, <2>12, <2>13, FrontStep
  <2>15. Sequence!Only(LItems, n) = Lacking(LItems, n, n)
    BY <1>3, <2>2, OnlyIs
  <2>16. LAt \in 0..n
    <3>1. rewound \in BOOLEAN /\ (~rewound => LAt = 0) /\ (rewound => LAt \in 1..n)
      BY Seen
    <3> QED BY <1>2, <3>1
  <2>17. LAt' = IF LAt \in {0, ListSize} THEN 0 ELSE LAt + 1
    BY <1>2, <1>7, <2>6, <2>14, <2>16
  <2>18. Contents({f[n]}) = Sequence!Gone({LItems[n]})
    BY <2>2, Seen DEF Contents, Sequence!Gone
  <2> QED
    BY <1>3, <1>7, <2>5, <2>9, <2>14, <2>15, <2>17, <2>18 DEF Sequence!PushFront
<1> QED BY <1>5, <1>6, <1>7

LEMMA PushBackStep ==
  ASSUME NEW f, ListHeld(f), \E q \in Nodes : ~cell[q].used,
         NEW x \in ListElems, NEW override \in BOOLEAN,
         Returns("push_back", push_back(NewNode, x, override))
  PROVE  ListInv' /\ Sequence!PushBack(x, override)
<1> DEFINE p == NewNode
           n == object.size
<1>1. p \in Nodes /\ ~cell[p].used /\ \A i \in 1..n : f[i] # p
  BY Unused
<1>2. /\ object \in Objects /\ cell \in [Nodes -> Cells] /\ Linked(f, object, cell)
      /\ Pointed(f, object, rewound) /\ n <= ListSize /\ n \in Nat /\ Held(f)
  BY DEF ListHeld, Held, Objects
<1>3. /\ LItems = ItemsOf(f, object, cell) /\ LAt = AtOf(f, object, rewound) /\ Len(LItems) = n
      /\ LItems \in Seq(ListElems)
  BY Seen
<1>4. Full(Here) <=> n = ListSize
  BY HeldRecord DEF Full
<1> HIDE DEF p
<1>5. CASE n = ListSize /\ ~override
  <2>1. push_back(p, x, override) = Leaked(Here, p)
    BY <1>4, <1>5 DEF push_back
  <2>2. ListInv' /\ Sequence!Refused("push_back")
    BY <1>1, <1>5, <2>1, LeakedStep DEF p
  <2> QED BY <1>5, <2>2 DEF Sequence!PushBack
<1>6. CASE n # ListSize
  <2> DEFINE d == NewBack(Here, p, x)
  <2>1. push_back(p, x, override) = d
    BY <1>4, <1>6 DEF push_back, NewBack
  <2>2. Behind(p, x, object, cell, d.m, d.cell) /\ d.ok = "ok" /\ d.gone = {}
    BY <1>1, <1>2, HeldRecord, NewBackIs
  <2> HIDE DEF d
  <2>3. /\ object' = d.m /\ cell' = d.cell /\ answer' = <<"push_back", "ok", {}>>
        /\ rewound' = (rewound /\ cell'[object'.cursor].used)
    BY <2>1, <2>2 DEF Returns, p
  <2>4. object'.cursor = object.cursor
    BY <1>1, <1>2, <2>2, <2>3, BehindLinked
  <2>5. \A q \in Nodes \ {p} : cell'[q].used = cell[q].used
    BY <1>1, <1>2, <2>2, <2>3, BehindPointed
  <2>6. rewound' = rewound
    <3>1. CASE rewound
      <4>1. PICK i \in 1..n : object.cursor = f[i]
        BY <1>2, <3>1 DEF Pointed
      <4>2. f[i] \in Nodes \ {p} /\ cell[f[i]].used = TRUE
        BY <1>1, <1>2, <4>1, NodeAt DEF Cells
      <4>3. cell'[object'.cursor].used = TRUE /\ rewound = TRUE
        BY <1>2, <2>4, <2>5, <3>1, <4>1, <4>2 DEF Pointed
      <4> QED BY <2>3, <4>3
    <3>2. CASE ~rewound
      <4>1. rewound = FALSE
        BY <1>2, <3>2 DEF Pointed
      <4> QED BY <2>3, <4>1
    <3> QED BY <3>1, <3>2
  <2>7. n < ListSize
    BY <1>2, <1>6, ListConstants
  <2>8. ListInv' /\ LItems' = Append(LItems, x) /\ LAt' = LAt
    BY <1>1, <1>2, <1>3, <2>2, <2>3, <2>6, <2>7, BackStep
  <2> QED BY <1>3, <2>3, <2>7, <2>8 DEF Sequence!PushBack
<1>7. CASE n = ListSize /\ override
  <2> DEFINE e == pop_front(Here)
             d == NewBack(e, p, x)
             g == Lacking(f, n, 1)
             r == rewound /\ e.cell[object.cursor].used
  <2>1. push_back(p, x, override) = d
    BY <1>4, <1>7 DEF push_back, NewBack
  <2>2. n > 0 /\ 1 \in 1..n
    BY <1>2, <1>7, ListConstants
  <2>3. /\ Out(f, 1, object, cell, e.m, e.cell) /\ e.ok = "ok" /\ e.gone = Contents({f[1]})
    BY <1>2, <2>2, PopFrontIs
  <2>4. Record(e)
    BY DEF Record, pop_front, Here
  <2> HIDE DEF e
  <2>5. /\ e.m \in Objects /\ e.m.size = n - 1 /\ e.m.cursor = object.cursor
        /\ Linked(g, e.m, e.cell) /\ e.cell \in [Nodes -> Cells]
        /\ ItemsOf(g, e.m, e.cell) = Lacking(LItems, n, 1)
    <3>1. e.cell \in [Nodes -> Cells]
      BY <2>3 DEF Out
    <3> QED BY <1>2, <1>3, <2>2, <2>3, <3>1, OutLinked
  <2>6. /\ Pointed(g, e.m, r)
        /\ AtOf(g, e.m, r) = IF LAt = 1 THEN 0 ELSE IF LAt > 1 THEN LAt - 1 ELSE LAt
    BY <1>2, <1>3, <2>2, <2>3, OutPointed
  <2>7. e.cell[p].used = FALSE
    <3>1. p # f[1] /\ p # 0
      BY <1>1, <2>2, ListConstants
    <3>2. cell[f[1]].prev = 0 /\ p # cell[f[1]].next
      BY <1>1, <1>2, <2>2, <3>1, NodeAt
    <3>3. e.cell[p] = cell[p] /\ cell[p] \in Cells
      BY <1>1, <1>2, <2>3, <3>1, <3>2 DEF Out
    <3> QED BY <1>1, <3>3 DEF Cells
  <2>8. Behind(p, x, e.m, e.cell, d.m, d.cell) /\ d.ok = "ok" /\ d.gone = Contents({f[1]})
    BY <1>1, <2>3, <2>4, <2>5, NewBackIs
  <2> HIDE DEF d, r
  <2>9. /\ object' = d.m /\ cell' = d.cell /\ answer' = <<"push_back", "ok", Contents({f[1]})>>
        /\ rewound' = (rewound /\ cell'[object'.cursor].used)
    BY <2>1, <2>8 DEF Returns, p
  <2>10. object'.cursor = object.cursor
    BY <1>1, <2>5, <2>7, <2>8, <2>9, BehindLinked
  <2>11. \A q \in Nodes \ {p} : cell'[q].used = e.cell[q].used
    BY <1>1, <2>5, <2>6, <2>7, <2>8, <2>9, BehindPointed
  <2>12. rewound' = r
    <3>1. CASE rewound
      <4>1. PICK i \in 1..n : object.cursor = f[i]
        BY <1>2, <3>1 DEF Pointed
      <4>2. f[i] \in Nodes \ {p}
        BY <1>1, <1>2, <4>1, NodeAt
      <4>3. cell'[object'.cursor].used = e.cell[object.cursor].used
        BY <2>10, <2>11, <4>1, <4>2
      <4> QED BY <2>9, <4>3 DEF r
    <3>2. CASE ~rewound
      <4>1. rewound = FALSE
        BY <1>2, <3>2 DEF Pointed
      <4> QED BY <2>9, <4>1 DEF r
    <3> QED BY <3>1, <3>2
  <2>13. e.m.size < ListSize
    BY <1>2, <1>7, <2>5
  <2>14. ListInv' /\ LItems' = Append(ItemsOf(g, e.m, e.cell), x) /\ LAt' = AtOf(g, e.m, r)
    BY <1>1, <2>5, <2>6, <2>7, <2>8, <2>9, <2>12, <2>13, BackStep
  <2>15. Tail(LItems) = Lacking(LItems, n, 1)
    BY <1>3, <2>2, OnlyIs
  <2>16. LAt \in 0..n
    <3>1. rewound \in BOOLEAN /\ (~rewound => LAt = 0) /\ (rewound => LAt \in 1..n)
      BY Seen
    <3> QED BY <1>2, <3>1
  <2>17. LAt' = IF LAt <= 1 THEN 0 ELSE LAt - 1
    BY <1>2, <2>6, <2>14, <2>16
  <2>18. Contents({f[1]}) = Sequence!Gone({Head(LItems)})
    <3>1. LItems[1] = cell[f[1]].content
      BY <2>2, Seen
    <3>2. Head(LItems) = LItems[1]
      BY <1>3, <2>2
    <3> QED BY <3>1, <3>2 DEF Contents, Sequence!Gone
  <2> QED
    BY <1>3, <1>7, <2>5, <2>9, <2>14, <2>15, <2>17, <2>18 DEF Sequence!PushBack
<1> QED BY <1>5, <1>6, <1>7

LEMMA PushStep ==
  ASSUME NEW f, ListHeld(f), NEW x \in ListElems, NEW override \in BOOLEAN,
         list_push(x, override)
  PROVE  ListInv' /\ Sequence!Next
<1>1. CASE /\ \E q \in Nodes : ~cell[q].used
           /\ Returns("push_front", push_front(NewNode, x, override))
  <2>1. ListInv' /\ Sequence!PushFront(x, override)
    BY <1>1, PushFrontStep
  <2> QED BY <2>1 DEF Sequence!Next
<1>2. CASE /\ \E q \in Nodes : ~cell[q].used
           /\ Returns("push_back", push_back(NewNode, x, override))
  <2>1. ListInv' /\ Sequence!PushBack(x, override)
    BY <1>2, PushBackStep
  <2> QED BY <2>1 DEF Sequence!Next
<1>3. CASE \E call \in {"push_front", "push_back"} :
             answer' = <<call, "alloc_fail", {}>> /\ UNCHANGED <<object, cell, rewound>>
  <2>1. PICK call \in {"push_front", "push_back"} :
          answer' = <<call, "alloc_fail", {}>> /\ UNCHANGED <<object, cell, rewound>>
    BY <1>3
  <2>2. ListInv' /\ UNCHANGED <<LItems, LAt>>
    BY <2>1, Stays DEF ListHeld, Held
  <2>3. Sequence!NoHeap(call)
    BY <2>1, <2>2 DEF Sequence!NoHeap
  <2>4. Sequence!PushFront(x, override) \/ Sequence!PushBack(x, override)
    BY <2>1, <2>3 DEF Sequence!PushFront, Sequence!PushBack
  <2> QED BY <2>2, <2>4 DEF Sequence!Next
<1> QED BY <1>1, <1>2, <1>3 DEF list_push

-----------------------------------------------------------------------------
\* An empty list, from Init or from a constructor.
LEMMA NewList ==
  ASSUME NEW m \in Objects, NEW c, m.size = 0, m.front = 0, m.back = 0
  PROVE  LET f == [i \in 1..0 |-> 0]
         IN  /\ Linked(f, m, c) /\ Pointed(f, m, FALSE)
             /\ ItemsOf(f, m, c) = <<>> /\ AtOf(f, m, FALSE) = 0
<1> DEFINE f == [i \in 1..0 |-> 0]
<1>1. 1..0 = {}
  OBVIOUS
<1>2. Linked(f, m, c)
  BY <1>1 DEF Linked
<1>3. Pointed(f, m, FALSE) /\ AtOf(f, m, FALSE) = 0
  BY <1>2, AtIs DEF Pointed
<1>4. ItemsOf(f, m, c) = <<>>
  <2>1. ItemsOf(f, m, c) \in Seq(ListElems) /\ Len(ItemsOf(f, m, c)) = 0
    BY <1>2, ItemsAre
  <2> QED BY <2>1, EmptySeq
<1> QED BY <1>2, <1>3, <1>4

LEMMA RenewedStep ==
  ASSUME NEW f, ListHeld(f), list_renewed
  PROVE  ListInv' /\ Sequence!Next
<1> DEFINE mine == {Chain[i] : i \in 1..object.size}
<1>1. /\ cell' = [p \in Nodes |-> IF p \in mine THEN Freed ELSE cell[p]]
      /\ object' = [size |-> 0, front |-> 0, back |-> 0, cursor |-> object.cursor]
      /\ rewound' = FALSE /\ answer' = <<"new", "ok", Contents(mine)>>
  BY DEF list_renewed
<1>2. /\ Chain = f /\ DOMAIN LItems = 1..object.size
      /\ \A i \in 1..object.size : LItems[i] = cell[f[i]].content
  BY Seen
<1>3. Contents(mine) = Sequence!Gone({LItems[i] : i \in DOMAIN LItems})
  <2>1. {cell[p].content : p \in mine} = {LItems[i] : i \in DOMAIN LItems}
    BY <1>2
  <2> QED BY <2>1 DEF Contents, Sequence!Gone
<1> HIDE DEF mine
<1>4. object' \in Objects /\ cell' \in [Nodes -> Cells] /\ object'.size <= ListSize
  <2>1. object \in Objects /\ cell \in [Nodes -> Cells]
    BY DEF ListHeld, Held
  <2>2. object.cursor \in Links /\ 0 \in Links
    BY <2>1 DEF Objects, Links
  <2>3. object' \in Objects /\ object'.size <= ListSize
    BY <1>1, <2>2, ListConstants DEF Objects
  <2> QED BY <1>1, <2>1, <2>3, FreedCell
<1> DEFINE g == [i \in 1..0 |-> 0]
<1>5. /\ Linked(g, object', cell') /\ Pointed(g, object', rewound')
      /\ ItemsOf(g, object', cell') = <<>> /\ AtOf(g, object', rewound') = 0
  BY <1>1, <1>4, NewList
<1>6. ListInv' /\ LItems' = <<>> /\ LAt' = 0
  BY <1>4, <1>5, SeenNext
<1> QED BY <1>1, <1>3, <1>6 DEF Sequence!Next, Sequence!Destroyed

LEMMA ListInitInv == ListInit => ListInv /\ Sequence!Init
<1> SUFFICES ASSUME ListInit PROVE ListInv /\ Sequence!Init
  OBVIOUS
<1>1. /\ object = [size |-> 0, front |-> 0, back |-> 0, cursor |-> 0]
      /\ cell = [p \in Nodes |-> Freed] /\ rewound = FALSE /\ answer = <<"new", "ok", {}>>
  BY DEF ListInit
<1>2. object \in Objects /\ cell \in [Nodes -> Cells] /\ object.size <= ListSize
  BY <1>1, FreedCell, ListConstants DEF Objects, Links
<1> DEFINE g == [i \in 1..0 |-> 0]
<1>3. /\ Linked(g, object, cell) /\ Pointed(g, object, rewound)
      /\ ItemsOf(g, object, cell) = <<>> /\ AtOf(g, object, rewound) = 0
  BY <1>1, <1>2, NewList
<1> HIDE DEF g
<1>4. ListHeld(g)
  BY <1>2, <1>3 DEF ListHeld, Held
<1>5. LItems = <<>> /\ LAt = 0
  BY <1>3, <1>4, Seen
<1>6. ListInv
  BY <1>2, <1>3 DEF ListInv
<1> QED BY <1>1, <1>5, <1>6 DEF Sequence!Init

LEMMA ListStep ==
  ListInv /\ [ListNext]_listVars => ListInv' /\ [Sequence!Next]_Sequence!dequeVars
<1> SUFFICES ASSUME ListInv, [ListNext]_listVars
             PROVE  ListInv' /\ [Sequence!Next]_Sequence!dequeVars
  OBVIOUS
<1>1. PICK f : ListHeld(f)
  BY DEF ListInv, ListHeld, Held
<1>2. CASE ListNext
  <2>1. CASE \E x \in ListElems, override \in BOOLEAN : list_push(x, override)
    BY <1>1, <2>1, PushStep
  <2>2. CASE list_pop \/ list_remove
    BY <1>1, <2>2, PopStep, RemoveStep
  <2>3. CASE list_front \/ list_back
    BY <1>1, <2>3, RewindStep
  <2>4. CASE list_next \/ list_prev
    BY <1>1, <2>4, WalkStep
  <2>5. CASE list_asked
    BY <1>1, <2>5, AskedStep
  <2>6. CASE list_renewed
    BY <1>1, <2>6, RenewedStep
  <2> QED BY <1>2, <2>1, <2>2, <2>3, <2>4, <2>5, <2>6 DEF ListNext
<1>3. CASE UNCHANGED listVars
  <2>1. UNCHANGED <<object, cell, rewound, answer>>
    BY <1>3 DEF listVars
  <2>2. ListInv' /\ UNCHANGED <<LItems, LAt>>
    BY <1>1, <2>1, Stays DEF ListHeld, Held
  <2> QED BY <2>1, <2>2 DEF Sequence!dequeVars
<1> QED BY <1>2, <1>3

\* Whatever the size of the list, the elements and the heap: every call of a List is one of
\* a sequence with a cursor.
THEOREM ListCorrect == ListSpec => ListOrder
<1> QED BY ListInitInv, ListStep, PTL DEF ListSpec, ListOrder, Sequence!Spec
================================================================================
