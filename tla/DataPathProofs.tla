--------------------------- MODULE DataPathProofs ---------------------------
(* No buffer of the BytePool ever has two owners, and what the reader's    *)
(* ring holds is what was committed, for any number of threads and buffers,*)
(* any sizes the applications ask for or move in and any fragment sizes.   *)
(* The checks of a protected link (E2ELink, instantiated in MCDataPath)    *)
(* find what they should, and nothing else raises an alarm.                *)
EXTENDS MCDataPath, SequenceTheorems, FiniteSetTheorems, TLAPS

(* OneOwner needs the types of what get() and put() move about. *)
PoolInv ==
  /\ shape \in Shapes
  /\ heap \subseteq Buffers
  /\ free \in Seq(heap)
  /\ vec \in [Buffers -> [cap : Nat, size : Nat]]
  /\ loan \in [Threads -> [buf : Buffers \cup {NoBuffer}, committed : BOOLEAN]]
  /\ OneOwner

LEMMA PoolInvInit == Init => PoolInv
<1>. SUFFICES ASSUME Init PROVE PoolInv
  OBVIOUS
<1>1. free = <<>> /\ heap = {} /\ shape \in Shapes
  BY DEF Init
<1>2. vec \in [Buffers -> [cap : Nat, size : Nat]]
  BY DEF Init
<1>3. loan = [t \in Threads |-> Idle]
  BY DEF Init
<1>4. loan \in [Threads -> [buf : Buffers \cup {NoBuffer}, committed : BOOLEAN]]
  BY <1>3 DEF Idle
<1>5. OneOwner
  BY <1>1, <1>3 DEF OneOwner, Idle
<1> QED
  BY <1>1, <1>2, <1>4, <1>5 DEF PoolInv

LEMMA AllButLast ==
  ASSUME NEW S, NEW s \in Seq(S), s # <<>>
  PROVE  /\ SubSeq(s, 1, Len(s) - 1) \in Seq(S)
         /\ Len(SubSeq(s, 1, Len(s) - 1)) = Len(s) - 1
         /\ \A i \in 1 .. Len(s) - 1 : SubSeq(s, 1, Len(s) - 1)[i] = s[i]
<1>. DEFINE n == Len(s) - 1
<1>1. n \in Nat /\ \A i \in 1 .. n : s[i] \in S
  OBVIOUS
<1> HIDE DEF n
<1>2. /\ SubSeq(s, 1, n) \in Seq(S)
      /\ Len(SubSeq(s, 1, n)) = IF 1 <= n THEN n - 1 + 1 ELSE 0
      /\ \A i \in 1 .. n - 1 + 1 : SubSeq(s, 1, n)[i] = s[1 + i - 1]
  BY <1>1, SubSeqProperties
<1>3. Len(SubSeq(s, 1, n)) = n
  BY <1>1, <1>2
<1>4. \A i \in 1 .. n : SubSeq(s, 1, n)[i] = s[i]
  BY <1>1, <1>2
<1> QED
  BY <1>2, <1>3, <1>4 DEF n

(* get() takes the last buffer off the free list or makes one: whichever   *)
(* it is, nobody else owns it afterwards.                                  *)
LEMMA GetTakes ==
  ASSUME PoolInv, NEW b \in Buffers, Get(b)
  PROVE  /\ heap' \subseteq Buffers /\ free' \in Seq(heap') /\ b \in heap'
         /\ heap \subseteq heap'
         /\ \A i \in 1 .. Len(free') : free'[i] # b /\ i \in 1 .. Len(free) /\ free'[i] = free[i]
         /\ \A t \in Threads : loan[t].buf # NoBuffer => loan[t].buf # b
         /\ Capacity(b) \in Nat
<1>. USE SizesAssumption DEF PoolInv
<1>0. Capacity(b) \in Nat
  BY DEF Capacity
<1>1. CASE free # <<>>
  <2>1. Len(free) \in Nat \ {0} /\ Len(free) \in 1 .. Len(free)
    BY <1>1
  <2>2. /\ b = free[Len(free)] /\ heap' = heap
        /\ free' = SubSeq(free, 1, Len(free) - 1)
    BY <1>1 DEF Get
  <2>3. /\ free' \in Seq(heap) /\ Len(free') = Len(free) - 1
        /\ \A i \in 1 .. Len(free') : free'[i] = free[i]
    <3>1. /\ SubSeq(free, 1, Len(free) - 1) \in Seq(heap)
          /\ Len(SubSeq(free, 1, Len(free) - 1)) = Len(free) - 1
          /\ \A i \in 1 .. Len(free) - 1 : SubSeq(free, 1, Len(free) - 1)[i] = free[i]
      BY <1>1, AllButLast
    <3> HIDE DEF PoolInv
    <3> QED
      BY <2>2, <3>1
  <2>4. \A i \in 1 .. Len(free') : i \in 1 .. Len(free) /\ i # Len(free)
    <3> HIDE DEF PoolInv
    <3> QED
      BY <2>1, <2>3
  <2>5. b \in heap
    BY <2>1, <2>2
  <2>6. \A i \in 1 .. Len(free') : free'[i] # b /\ i \in 1 .. Len(free) /\ free'[i] = free[i]
    <3>1. \A i, j \in 1 .. Len(free) : free[i] = free[j] => i = j
      BY DEF OneOwner
    <3> HIDE DEF PoolInv
    <3> QED
      BY <2>1, <2>2, <2>3, <2>4, <3>1
  <2>7. \A t \in Threads : loan[t].buf # NoBuffer => loan[t].buf # b
    BY <2>1, <2>2 DEF OneOwner
  <2> QED
    BY <1>0, <2>2, <2>3, <2>5, <2>6, <2>7
<1>2. CASE free = <<>>
  <2>1. b \in Buffers \ heap /\ free' = free /\ heap' = heap \cup {b}
    BY <1>2 DEF Get
  <2>2. Len(free') = 0 /\ free' \in Seq(heap')
    BY <1>2, <2>1
  <2>3. \A t \in Threads : loan[t].buf # NoBuffer => loan[t].buf # b
    BY <2>1 DEF OneOwner
  <2> QED
    BY <1>0, <2>1, <2>2, <2>3
<1> QED
  BY <1>1, <1>2

LEMMA SeqOf ==
  ASSUME NEW S, NEW n \in Nat, NEW s \in [1 .. n -> S]
  PROVE  s \in Seq(S)
BY SeqDef

(* The part of OneOwner about the threads. *)
HeldApart ==
  \A u \in Threads : loan[u].buf # NoBuffer =>
    /\ loan[u].buf \in heap
    /\ \A i \in 1 .. Len(free) : free[i] # loan[u].buf
    /\ \A v \in Threads : loan[v].buf = loan[u].buf => v = u

LEMMA HoldersApart == PoolInv => HeldApart
BY DEF PoolInv, OneOwner, HeldApart

LEMMA LoanKeeps ==
  ASSUME PoolInv, NEW t \in Threads, NEW n \in LoanSizes, Loan(t, n)
  PROVE  PoolInv'
<1>. USE SizesAssumption DEF PoolInv
<1>1. PICK b \in Buffers :
        /\ Get(b) /\ Capacity(b) >= n
        /\ \/ vec' = [vec EXCEPT ![b] = [cap |-> Capacity(b), size |-> n]]
           \/ \E k \in MovedSizes : vec' = [vec EXCEPT ![b] = [cap |-> k, size |-> k]]
        /\ loan' = [loan EXCEPT ![t].buf = b]
  BY DEF Loan
<1>2. /\ heap' \subseteq Buffers /\ free' \in Seq(heap') /\ b \in heap' /\ heap \subseteq heap'
      /\ \A i \in 1 .. Len(free') : free'[i] # b /\ i \in 1 .. Len(free) /\ free'[i] = free[i]
      /\ \A u \in Threads : loan[u].buf # NoBuffer => loan[u].buf # b
      /\ Capacity(b) \in Nat
  BY <1>1, GetTakes
<1>3. vec' \in [Buffers -> [cap : Nat, size : Nat]]
  <2>1. CASE vec' = [vec EXCEPT ![b] = [cap |-> Capacity(b), size |-> n]]
    BY <1>2, <2>1
  <2>2. CASE \E k \in MovedSizes : vec' = [vec EXCEPT ![b] = [cap |-> k, size |-> k]]
    <3>1. PICK k \in MovedSizes : vec' = [vec EXCEPT ![b] = [cap |-> k, size |-> k]]
      BY <2>2
    <3>2. [cap |-> k, size |-> k] \in [cap : Nat, size : Nat]
      OBVIOUS
    <3>3. vec \in [Buffers -> [cap : Nat, size : Nat]]
      OBVIOUS
    <3> HIDE DEF PoolInv
    <3> QED
      BY <3>1, <3>2, <3>3
  <2> QED
    BY <1>1, <2>1, <2>2
<1>4. \A c \in Buffers : c # b => vec'[c] = vec[c]
  BY <1>1
<1>5. loan' \in [Threads -> [buf : Buffers \cup {NoBuffer}, committed : BOOLEAN]]
  BY <1>1
<1>6. loan'[t].buf = b /\ \A u \in Threads : u # t => loan'[u] = loan[u]
  BY <1>1
<1>7. shape' \in Shapes
  BY DEF Loan
<1>8. \A i \in 1 .. Len(free) : free[i] \in heap
  OBVIOUS
<1>9. \A i \in 1 .. Len(free') : free'[i] \in heap' /\ vec'[free'[i]].cap >= PoolSize
  BY <1>2, <1>4, <1>8 DEF OneOwner
<1>10. \A i, j \in 1 .. Len(free') : free'[i] = free'[j] => i = j
  BY <1>2 DEF OneOwner
<1>11. \A u \in Threads : loan'[u].buf # NoBuffer =>
         /\ loan'[u].buf \in heap'
         /\ \A i \in 1 .. Len(free') : free'[i] # loan'[u].buf
         /\ \A v \in Threads : loan'[v].buf = loan'[u].buf => v = u
  <2>1. HeldApart
    BY HoldersApart
  <2> HIDE DEF PoolInv
  <2> TAKE u \in Threads
  <2> HAVE loan'[u].buf # NoBuffer
  <2>2. CASE u = t
    BY <1>2, <1>6, <2>2
  <2>3. CASE u # t
    BY <1>2, <1>6, <2>1, <2>3 DEF HeldApart
  <2> QED
    BY <2>2, <2>3
<1> QED
  BY <1>2, <1>3, <1>5, <1>7, <1>9, <1>10, <1>11 DEF OneOwner

(* A refused request puts the buffer back where get() took it, or puts a   *)
(* new one on the empty list.                                              *)
LEMMA LoanRefusedKeeps ==
  ASSUME PoolInv, NEW t \in Threads, NEW n \in LoanSizes, LoanRefused(t, n)
  PROVE  PoolInv'
<1>. USE SizesAssumption DEF PoolInv
<1>0. UNCHANGED <<shape, loan>>
  BY DEF LoanRefused
<1>1. PICK b \in Buffers :
        /\ IF free # <<>> THEN b = free[Len(free)] ELSE b \in Buffers \ heap
        /\ free' = IF free # <<>> THEN free ELSE Append(free, b)
        /\ heap' = heap \cup {b}
        /\ vec' = [vec EXCEPT ![b] = [cap |-> Capacity(b), size |-> 0]]
  BY DEF LoanRefused
<1>2. CASE free # <<>>
  <2>1. Len(free) \in 1 .. Len(free)
    BY <1>2
  <2>2. b \in heap /\ free' = free /\ heap' = heap
    BY <1>1, <1>2, <2>1
  <2>3. vec[b].cap \in Nat /\ Capacity(b) = vec[b].cap
    BY <1>2 DEF Capacity
  <2>4. /\ vec' \in [Buffers -> [cap : Nat, size : Nat]]
        /\ \A c \in Buffers : vec'[c].cap = vec[c].cap
    BY <1>1, <2>3
  <2> QED
    BY <1>0, <2>2, <2>4 DEF OneOwner
<1>3. CASE free = <<>>
  <2>1. free' = <<b>> /\ b \notin heap /\ heap' = heap \cup {b}
    BY <1>1, <1>3
  <2>2. vec'[b].cap = PoolSize /\ vec' \in [Buffers -> [cap : Nat, size : Nat]]
    BY <1>1, <1>3 DEF Capacity
  <2>3. free' \in Seq(heap') /\ Len(free') = 1 /\ free'[1] = b
    BY <2>1
  <2> QED
    BY <1>0, <2>1, <2>2, <2>3 DEF OneOwner
<1> QED
  BY <1>2, <1>3

(* put() deletes the buffer or gives it to the free list, and in either    *)
(* case takes it from the thread.                                          *)
LEMMA ReturnKeeps ==
  ASSUME PoolInv, NEW t \in Threads, Return(t)
  PROVE  PoolInv'
<1>. USE SizesAssumption DEF PoolInv
<1>. DEFINE b == loan[t].buf
<1>1. shape' = shape /\ b # NoBuffer
  BY DEF Return
<1>2. b \in heap /\ b \in Buffers
  BY <1>1 DEF OneOwner
<1>3. /\ vec' = [vec EXCEPT ![b].size = 0]
      /\ loan' = [loan EXCEPT ![t] = Idle]
      /\ free' = IF vec[b].cap < PoolSize THEN free ELSE Append(free, b)
      /\ heap' = IF vec[b].cap < PoolSize THEN heap \ {b} ELSE heap
  BY DEF Return, Put
<1>4. /\ vec' \in [Buffers -> [cap : Nat, size : Nat]]
      /\ \A c \in Buffers : vec'[c].cap = vec[c].cap
  BY <1>2, <1>3
<1>5. /\ loan' \in [Threads -> [buf : Buffers \cup {NoBuffer}, committed : BOOLEAN]]
      /\ loan'[t].buf = NoBuffer /\ \A u \in Threads : u # t => loan'[u] = loan[u]
  BY <1>3 DEF Idle
<1>6. /\ \A u \in Threads : u # t /\ loan[u].buf # NoBuffer => loan[u].buf # b
      /\ \A i \in 1 .. Len(free) : free[i] # b /\ free[i] \in heap
  BY <1>1 DEF OneOwner
<1>7. CASE vec[b].cap < PoolSize
  <2>1. free' = free /\ heap' = heap \ {b}
    BY <1>3, <1>7
  <2>2. free \in Seq(heap \ {b})
    <3>1. \A i \in 1 .. Len(free) : free[i] \in heap \ {b}
      BY <1>6
    <3>2. free \in [1 .. Len(free) -> heap] /\ Len(free) \in Nat
      BY LenProperties
    <3>3. free \in [1 .. Len(free) -> heap \ {b}]
      BY <3>1, <3>2
    <3> QED
      BY <3>2, <3>3, SeqOf
  <2>3. \A i \in 1 .. Len(free') : free'[i] \in heap' /\ vec'[free'[i]].cap >= PoolSize
    BY <1>4, <1>6, <2>1 DEF OneOwner
  <2>4. \A u \in Threads : loan'[u].buf # NoBuffer =>
           /\ loan'[u].buf \in heap'
           /\ \A i \in 1 .. Len(free') : free'[i] # loan'[u].buf
           /\ \A v \in Threads : loan'[v].buf = loan'[u].buf => v = u
    BY <1>5, <1>6, <2>1, HoldersApart DEF HeldApart
  <2>5. \A i, j \in 1 .. Len(free') : free'[i] = free'[j] => i = j
    BY <2>1 DEF OneOwner
  <2> QED
    BY <1>1, <1>4, <1>5, <2>1, <2>2, <2>3, <2>4, <2>5 DEF OneOwner
<1>8. CASE ~(vec[b].cap < PoolSize)
  <2>1. free' = Append(free, b) /\ heap' = heap /\ vec[b].cap >= PoolSize
    BY <1>2, <1>3, <1>8
  <2>2. /\ free' \in Seq(heap) /\ Len(free') = Len(free) + 1
        /\ free'[Len(free')] = b /\ \A i \in 1 .. Len(free) : free'[i] = free[i]
    BY <1>2, <2>1
  <2>3. \A i \in 1 .. Len(free') : i = Len(free') \/ i \in 1 .. Len(free)
    BY <2>2
  <2>4. \A i, j \in 1 .. Len(free') : free'[i] = free'[j] => i = j
    BY <1>6, <2>2, <2>3 DEF OneOwner
  <2>5. \A i \in 1 .. Len(free') : free'[i] \in heap /\ vec'[free'[i]].cap >= PoolSize
    BY <1>2, <1>4, <1>6, <2>1, <2>2, <2>3 DEF OneOwner
  <2>6. \A u \in Threads : loan'[u].buf # NoBuffer =>
           /\ loan'[u].buf \in heap
           /\ \A i \in 1 .. Len(free') : free'[i] # loan'[u].buf
           /\ \A v \in Threads : loan'[v].buf = loan'[u].buf => v = u
    <3>1. HeldApart
      BY HoldersApart
    <3> HIDE DEF PoolInv
    <3> TAKE u \in Threads
    <3> HAVE loan'[u].buf # NoBuffer
    <3>2. u # t /\ loan'[u] = loan[u]
      BY <1>5
    <3>3. loan[u].buf \in heap /\ \A v \in Threads : loan[v].buf = loan[u].buf => v = u
      BY <3>1, <3>2 DEF HeldApart
    <3>4. \A i \in 1 .. Len(free') : free'[i] # loan[u].buf
      BY <1>6, <2>2, <2>3, <3>1, <3>2 DEF HeldApart
    <3> QED
      BY <1>5, <3>2, <3>3, <3>4
  <2> QED
    BY <1>1, <1>4, <1>5, <2>1, <2>2, <2>4, <2>5, <2>6 DEF OneOwner
<1> QED
  BY <1>7, <1>8

LEMMA WriteKeeps ==
  ASSUME PoolInv, NEW t \in Threads, WriteLoaned(t)
  PROVE  PoolInv'
<1>. USE DEF PoolInv
<1>1. loan' = [loan EXCEPT ![t].committed = TRUE] /\ UNCHANGED <<shape, free, heap, vec>>
  BY DEF WriteLoaned
<1>2. /\ loan' \in [Threads -> [buf : Buffers \cup {NoBuffer}, committed : BOOLEAN]]
      /\ \A u \in Threads : loan'[u].buf = loan[u].buf
  BY <1>1
<1> QED
  BY <1>1, <1>2 DEF OneOwner

(* The steps of the network, the reader and the ring do not touch the pool. *)
LEMMA RestKeeps ==
  ASSUME PoolInv, UNCHANGED pool \/ UNCHANGED <<shape, free, heap, vec, loan>>
  PROVE  PoolInv'
BY DEF PoolInv, OneOwner, pool

LEMMA PoolInvStep == PoolInv /\ [Next]_vars => PoolInv'
<1>. SUFFICES ASSUME PoolInv, [Next]_vars PROVE PoolInv'
  OBVIOUS
<1>0. shape.users \subseteq Threads
  BY SizesAssumption DEF PoolInv
<1>1. CASE \E t \in shape.users, n \in LoanSizes : Loan(t, n) \/ LoanRefused(t, n)
  BY <1>0, <1>1, LoanKeeps, LoanRefusedKeeps
<1>2. CASE \E t \in shape.users : WriteLoaned(t) \/ Return(t)
  BY <1>0, <1>2, WriteKeeps, ReturnKeeps
<1>3. CASE \E s \in Written : Retransmit(s)
  BY <1>3, RestKeeps DEF Retransmit
<1>4. CASE \E m \in net : Lose(m) \/ \E again \in BOOLEAN : Receive(m, again)
  BY <1>4, RestKeeps DEF Lose, Receive
<1>5. CASE Close \/ Tick \/ Pop
  BY <1>5, RestKeeps DEF Close, Tick, Pop
<1>6. CASE UNCHANGED vars
  BY <1>6, RestKeeps DEF vars
<1> QED
  BY <1>1, <1>2, <1>3, <1>4, <1>5, <1>6 DEF Next

(* A buffer is on the free list once, or loaned to one thread, or deleted, *)
(* and the free list can serve a loan of the pool's size, whatever the     *)
(* applications do with the vectors they are lent (pool.hpp).              *)
THEOREM PoolIsSound == Spec => []OneOwner
<1>1. PoolInv => OneOwner
  BY DEF PoolInv
<1> QED
  BY <1>1, PoolInvInit, PoolInvStep, PTL DEF Spec

-----------------------------------------------------------------------------
(* What arrives.  The ring holds committed samples because reassembly      *)
(* delivers nothing else: a marked fragment's bytes stand in their place,  *)
(* and the count of marks reaches the total only when every byte has one.  *)

LEMMA Interval ==
  ASSUME NEW n \in Nat
  PROVE  IsFiniteSet(1 .. n) /\ Cardinality(1 .. n) = n
BY FS_Interval

(* How many fragments split_into_fragments_n makes, and what is in each.   *)
LEMMA DivMod ==
  ASSUME NEW a \in Nat, NEW b \in Nat \ {0}
  PROVE  /\ a \div b \in Nat
         /\ b * (a \div b) <= a /\ a < b * (a \div b) + b
OBVIOUS

LEMMA CeilDivBounds ==
  ASSUME NEW n \in Nat \ {0}, NEW z \in Nat \ {0}
  PROVE  /\ CeilDiv(n, z) \in Nat \ {0}
         /\ (CeilDiv(n, z) - 1) * z < n /\ n <= CeilDiv(n, z) * z
<1>. DEFINE q == CeilDiv(n, z)
<1>1. /\ q \in Nat /\ z * q <= n + z - 1 /\ n + z - 1 < z * q + z
  BY DivMod DEF CeilDiv
<1>2. q # 0
  <2>1. CASE q = 0
    BY <1>1, <2>1
  <2> QED
    BY <2>1
<1> HIDE DEF q
<1>3. (q - 1) * z = z * q - z /\ q * z = z * q
  BY <1>1
<1>4. z * q \in Int
  BY <1>1
<1>5. (q - 1) * z < n /\ n <= q * z
  BY <1>1, <1>3, <1>4
<1> QED
  BY <1>1, <1>2, <1>5 DEF q

(* Byte i of a payload is in the fragment whose number is CeilDiv(i, z). *)
LEMMA EveryByteHasAFragment ==
  ASSUME NEW n \in Nat \ {0}, NEW z \in Nat \ {0}, NEW i \in 1 .. n
  PROVE  \E k \in 1 .. CeilDiv(n, z) : (k - 1) * z < i /\ i <= k * z
<1>1. PICK k \in Nat \ {0} : (k - 1) * z < i /\ i <= k * z
  <2>1. i \in Nat \ {0}
    OBVIOUS
  <2>2. /\ CeilDiv(i, z) \in Nat \ {0}
        /\ (CeilDiv(i, z) - 1) * z < i /\ i <= CeilDiv(i, z) * z
    BY <2>1, CeilDivBounds
  <2> HIDE DEF CeilDiv
  <2> QED
    BY <2>2
<1>2. PICK q \in Nat \ {0} : q = CeilDiv(n, z) /\ n <= q * z
  BY CeilDivBounds
<1>3. k <= q
  <2>. SUFFICES ASSUME k >= q + 1 PROVE FALSE
    BY <1>1, <1>2
  <2>1. PICK d \in Nat : k - 1 = q + d
    BY <1>1, <1>2
  <2>2. (q + d) * z = q * z + d * z /\ d * z >= 0 /\ q * z \in Nat /\ d * z \in Nat
    BY <2>1, <1>2
  <2> QED
    BY <1>1, <1>2, <2>1, <2>2
<1> QED
  BY <1>1, <1>2, <1>3

LEMMA FragmentStarts ==
  ASSUME NEW n \in Nat \ {0}, NEW z \in Nat \ {0}, NEW k \in 1 .. CeilDiv(n, z)
  PROVE  (k - 1) * z \in Nat /\ (k - 1) * z < n /\ k * z = (k - 1) * z + z
<1>1. PICK q \in Nat \ {0} : q = CeilDiv(n, z) /\ (q - 1) * z < n
  BY CeilDivBounds
<1>2. PICK d \in Nat : q = k + d
  BY <1>1
<1>3. /\ (q - 1) * z = (k - 1) * z + d * z /\ d * z \in Nat /\ (k - 1) * z \in Nat
      /\ k * z = (k - 1) * z + z
  BY <1>2
<1> QED
  BY <1>1, <1>3

(* An index of the ring is wrapped at most once. *)
LEMMA WrapsOnce ==
  ASSUME NEW c \in Nat \ {0}, NEW a \in 0 .. c - 1, NEW b \in 0 .. c
  PROVE  (a + b) % c = IF a + b < c THEN a + b ELSE a + b - c
OBVIOUS

LEMMA MinOfTwo ==
  ASSUME NEW a \in Int, NEW b \in Int
  PROVE  Min({a, b}) = IF a <= b THEN a ELSE b
BY DEF Min

-----------------------------------------------------------------------------
(* Byte i of number s stands where it was committed. *)

(* A fragment of number s, n bytes long and cut at z, is a piece of it. *)
Piece(f, s, n, z) ==
  /\ f.kind = "DATA_FRAG" /\ f.seq = s /\ f.data_size = n /\ f.fragment_size = z
  /\ f.num \in 1 .. CeilDiv(n, z)
  /\ Len(f.payload) \in Nat
  /\ \A j \in 1 .. Len(f.payload) : f.payload[j] = <<s, (f.num - 1) * z + j>>
  /\ \A i \in 1 .. n : (f.num - 1) * z < i /\ i <= f.num * z =>
       i - (f.num - 1) * z \in 1 .. Len(f.payload)
  /\ (f.num - 1) * z + Len(f.payload) <= n

LEMMA FragmentsArePieces ==
  ASSUME NEW s \in Nat, NEW n \in Nat \ {0}, NEW z \in Nat \ {0},
         NEW f \in SplitIntoFragments(s, n, z)
  PROVE  Piece(f, s, n, z)
<1>1. PICK k \in 1 .. CeilDiv(n, z) :
        f = [kind |-> "DATA_FRAG", seq |-> s, num |-> k, fragment_size |-> z, data_size |-> n,
             payload |-> SubSeq(Bytes(s, n), (k - 1) * z + 1, Min({k * z, n}))]
  BY DEF SplitIntoFragments
<1>2. PICK o \in Nat : o = (k - 1) * z /\ o < n /\ k * z = o + z
  BY FragmentStarts
<1>3. PICK e \in Nat : e = Min({k * z, n}) /\ e = (IF o + z <= n THEN o + z ELSE n)
  BY <1>2, MinOfTwo
<1>4. PICK p : p = f.payload /\ p = SubSeq(Bytes(s, n), o + 1, e)
  BY <1>1, <1>2, <1>3
<1>5. Bytes(s, n) \in Seq(Nat \X Nat) /\ Len(Bytes(s, n)) = n
  BY DEF Bytes
<1>6. Len(p) = e - o /\ \A j \in 1 .. e - o : p[j] = <<s, o + j>>
  <2>1. /\ Len(p) = IF o + 1 <= e THEN e - (o + 1) + 1 ELSE 0
        /\ \A j \in 1 .. e - (o + 1) + 1 : p[j] = Bytes(s, n)[o + 1 + j - 1]
    <3>1. PICK B : B = Bytes(s, n)
      OBVIOUS
    <3>2. PICK a : a = o + 1
      OBVIOUS
    <3>3. a \in Nat /\ e \in Nat /\ B \in Seq(Nat \X Nat) /\ a \in 1 .. Len(B) + 1 /\ e \in a - 1 .. Len(B)
      <4>1. B \in Seq(Nat \X Nat) /\ Len(B) = n
        BY <1>5, <3>1
      <4>2. a \in Nat /\ e \in Nat /\ a \in 1 .. n + 1 /\ e \in a - 1 .. n
        BY <1>2, <1>3, <3>2
      <4> QED
        BY <4>1, <4>2
    <3>4. p = SubSeq(B, a, e)
      BY <1>4, <3>1, <3>2
    <3>5. \A i \in a .. e : B[i] \in Nat \X Nat
      <4>1. a .. e \subseteq 1 .. n
        BY <1>2, <1>3, <3>2
      <4>2. \A i \in 1 .. n : B[i] \in Nat \X Nat
        BY <3>1 DEF Bytes
      <4> QED
        BY <4>1, <4>2
    <3>6. /\ Len(p) = IF a <= e THEN e - a + 1 ELSE 0
          /\ \A j \in 1 .. e - a + 1 : p[j] = B[a + j - 1]
      BY <3>3, <3>4, <3>5, SubSeqProperties
    <3> QED
      BY <3>1, <3>2, <3>6
  <2>2. Len(p) = e - o
    BY <1>2, <1>3, <2>1
  <2>3. ASSUME NEW j \in 1 .. e - o PROVE p[j] = <<s, o + j>>
    <3>1. j \in 1 .. e - (o + 1) + 1 /\ o + 1 + j - 1 = o + j /\ o + j \in 1 .. n
      BY <1>2, <1>3
    <3>2. Bytes(s, n)[o + j] = <<s, o + j>>
      BY <3>1 DEF Bytes
    <3> QED
      BY <2>1, <3>1, <3>2
  <2> QED
    BY <2>2, <2>3
<1>7. /\ f.kind = "DATA_FRAG" /\ f.seq = s /\ f.data_size = n /\ f.fragment_size = z
      /\ f.num = k
  BY <1>1
<1>8. \A i \in 1 .. n : o < i /\ i <= o + z => i - o \in 1 .. e - o
  BY <1>2, <1>3
<1>9. o + (e - o) <= n /\ e - o \in Nat
  BY <1>2, <1>3
<1> QED
  BY <1>2, <1>4, <1>6, <1>7, <1>8, <1>9 DEF Piece

Fields == {"data", "mask", "received", "total", "data_size", "fragment_size", "age"}

(* A reassembly of number s, n bytes long: the bytes of every fragment     *)
(* that is marked stand in their place.                                    *)
Assembled(b, s, n) ==
  /\ DOMAIN b = Fields /\ b.data_size = n /\ n \in Nat \ {0} /\ b.fragment_size \in Nat \ {0}
  /\ b.total = CeilDiv(n, b.fragment_size)
  /\ b.mask \subseteq 1 .. b.total /\ b.received = Cardinality(b.mask)
  /\ DOMAIN b.data = 1 .. n /\ b.data = [i \in 1 .. n |-> b.data[i]]
  /\ \A k \in b.mask, i \in 1 .. n :
       (k - 1) * b.fragment_size < i /\ i <= k * b.fragment_size => b.data[i] = <<s, i>>

LEMMA NewIsAssembled ==
  ASSUME NEW s \in Nat, NEW n \in Nat \ {0}, NEW z \in Nat \ {0}, NEW f, Piece(f, s, n, z)
  PROVE  Assembled(NewPartial(f), s, n) /\ NewPartial(f).fragment_size = z
<1>1. f.data_size = n /\ f.fragment_size = z
  BY DEF Piece
<1>2. Cardinality({}) = 0
  BY FS_EmptySet
<1> QED
  BY <1>1, <1>2 DEF Assembled, NewPartial, Fields

LEMMA CopiedIsAssembled ==
  ASSUME NEW s \in Nat, NEW n \in Nat \ {0}, NEW b, Assembled(b, s, n),
         NEW f, Piece(f, s, n, b.fragment_size)
  PROVE  Assembled(Copied(b, f), s, n)
<1>1. PICK z \in Nat \ {0} : z = b.fragment_size
  BY DEF Assembled
<1>2. PICK k \in 1 .. CeilDiv(n, z) : k = f.num
  BY <1>1 DEF Piece
<1>3. PICK o \in Nat : o = (k - 1) * z
  BY FragmentStarts, <1>2
<1>4. PICK p : p = f.payload
  OBVIOUS
<1>0. PICK m \in Nat :
        /\ m = Len(p)
        /\ \A j \in 1 .. m : p[j] = <<s, o + j>>
        /\ \A i \in 1 .. n : o < i /\ i <= k * z => i - o \in 1 .. m
  BY <1>1, <1>2, <1>3, <1>4 DEF Piece
<1>5. PICK d : d = [i \in 1 .. n |-> IF i - o \in 1 .. m THEN p[i - o] ELSE b.data[i]]
  OBVIOUS
<1>6. PICK c : c = Copied(b, f)
  OBVIOUS
<1>12. /\ DOMAIN c = Fields /\ c.data = d /\ c.mask = b.mask \cup {k}
       /\ c.received = b.received + (IF k \in b.mask THEN 0 ELSE 1)
       /\ c.total = b.total /\ c.data_size = n /\ c.fragment_size = z
  <2>1. DOMAIN b = Fields /\ b.data_size = n
    BY DEF Assembled
  <2>2. d = [i \in 1 .. b.data_size |->
               IF i - (f.num - 1) * f.fragment_size \in 1 .. Len(f.payload)
               THEN f.payload[i - (f.num - 1) * f.fragment_size] ELSE b.data[i]]
    BY <1>0, <1>1, <1>2, <1>3, <1>4, <1>5, <2>1 DEF Piece
  <2>3. c = [b EXCEPT !.data = d, !.mask = b.mask \cup {k},
                      !.received = b.received + (IF k \in b.mask THEN 0 ELSE 1)]
    BY <1>2, <1>6, <2>2 DEF Copied
  <2> QED
    BY <1>1, <2>1, <2>3 DEF Fields
<1>7. \A i \in 1 .. n : i - o \in 1 .. m => d[i] = <<s, i>>
  <2>. SUFFICES ASSUME NEW i \in 1 .. n, i - o \in 1 .. m PROVE d[i] = <<s, i>>
    OBVIOUS
  <2>1. PICK j \in 1 .. m : j = i - o /\ i = o + j
    BY <1>3
  <2>2. p[j] = <<s, o + j>>
    BY <1>0, <2>1
  <2> QED
    BY <1>5, <2>1, <2>2
<1>8. \A q \in b.mask \cup {k}, i \in 1 .. n : (q - 1) * z < i /\ i <= q * z => d[i] = <<s, i>>
  <2>. SUFFICES ASSUME NEW q \in b.mask \cup {k}, NEW i \in 1 .. n, (q - 1) * z < i, i <= q * z
                PROVE  d[i] = <<s, i>>
    OBVIOUS
  <2>1. CASE i - o \in 1 .. m
    BY <1>7, <2>1
  <2>2. CASE i - o \notin 1 .. m
    <3>1. q \in b.mask
      BY <1>0, <1>3, <2>2
    <3> QED
      BY <1>1, <1>5, <2>2, <3>1 DEF Assembled
  <2> QED
    BY <2>1, <2>2
<1>9. Cardinality(b.mask \cup {k}) = b.received + (IF k \in b.mask THEN 0 ELSE 1)
  <2>1. b.total \in Nat /\ b.mask \subseteq 1 .. b.total /\ b.received = Cardinality(b.mask)
    BY <1>1, CeilDivBounds DEF Assembled
  <2>2. IsFiniteSet(b.mask) /\ Cardinality(b.mask) \in Nat
    <3>1. IsFiniteSet(1 .. b.total)
      BY <2>1, Interval
    <3>2. IsFiniteSet(b.mask)
      BY <2>1, <3>1, FS_Subset
    <3> QED
      BY <3>2, FS_CardinalityType
  <2>3. PICK M : M = b.mask
    OBVIOUS
  <2>4. Cardinality(M \cup {k}) = IF k \in M THEN Cardinality(M) ELSE Cardinality(M) + 1
    BY <2>2, <2>3, FS_AddElement
  <2> QED
    BY <2>1, <2>2, <2>3, <2>4
<1>10. b.mask \cup {k} \subseteq 1 .. b.total /\ b.total = CeilDiv(n, z)
  BY <1>1 DEF Assembled
<1>11. DOMAIN d = 1 .. n /\ d = [i \in 1 .. n |-> d[i]]
  BY <1>5
<1> QED
  BY <1>6, <1>12, <1>8, <1>9, <1>10, <1>11 DEF Assembled

(* Its count of distinct fragments tells a reassembly that is complete: no *)
(* byte of the buffer is left as it was.                                   *)
LEMMA CompleteIsCommitted ==
  ASSUME NEW s \in Nat, NEW n \in Nat \ {0}, NEW b, Assembled(b, s, n), b.received >= b.total
  PROVE  b.data = Bytes(s, n)
<1>1. PICK z \in Nat \ {0} : z = b.fragment_size /\ b.total = CeilDiv(n, z)
  BY DEF Assembled
<1>2. b.total \in Nat
  BY <1>1, CeilDivBounds
<1>3. b.mask = 1 .. b.total
  <2>1. /\ IsFiniteSet(1 .. b.total) /\ Cardinality(1 .. b.total) = b.total
        /\ b.mask \in SUBSET (1 .. b.total) /\ b.received = Cardinality(b.mask)
    BY <1>2, Interval DEF Assembled
  <2>2. IsFiniteSet(b.mask) /\ Cardinality(b.mask) <= b.total
    <3>1. PICK S : S = 1 .. b.total
      OBVIOUS
    <3>2. IsFiniteSet(S) /\ b.mask \in SUBSET S /\ Cardinality(S) = b.total
      BY <2>1, <3>1
    <3> QED
      BY <3>2, FS_Subset
  <2>3. Cardinality(b.mask) \in Nat
    BY <2>2, FS_CardinalityType
  <2>4. Cardinality(1 .. b.total) = Cardinality(b.mask)
    BY <1>2, <2>1, <2>2, <2>3
  <2> QED
    BY <2>1, <2>4, FS_Subset
<1>4. \A i \in 1 .. n : b.data[i] = <<s, i>>
  <2>. SUFFICES ASSUME NEW i \in 1 .. n PROVE b.data[i] = <<s, i>>
    OBVIOUS
  <2>1. PICK k \in 1 .. CeilDiv(n, z) : (k - 1) * z < i /\ i <= k * z
    BY EveryByteHasAFragment
  <2>2. k \in b.mask
    BY <1>1, <1>3, <2>1
  <2> QED
    BY <1>1, <2>1, <2>2 DEF Assembled
<1>5. b.data = [i \in 1 .. n |-> b.data[i]]
  BY DEF Assembled
<1> QED
  BY <1>4, <1>5 DEF Bytes

-----------------------------------------------------------------------------
(* What is under way, in reassembly or staged comes from the history.      *)

(* m carries all or a piece of number s, n bytes long. *)
OfSample(m, s, n) ==
  \/ m = [kind |-> "DATA", seq |-> s, payload |-> Bytes(s, n)]
  \/ n \in Nat \ {0} /\ \E z \in Nat \ {0} : Piece(m, s, n, z)

Carried(h) == \A m \in net : m.seq \in 1 .. Len(h) /\ OfSample(m, m.seq, h[m.seq])
Reassembled(h) == \A s \in DOMAIN partials : s \in 1 .. Len(h) /\ Assembled(partials[s], s, h[s])

Slot(x, h) == \E s \in 1 .. Len(h) : x = <<s, Bytes(s, h[s])>>
Staged(h) ==
  /\ head \in 0 .. RingCap - 1 /\ len \in 0 .. RingCap /\ tail = (head + len) % RingCap
  /\ DOMAIN ring = 0 .. RingCap - 1
  /\ \A k \in 0 .. len - 1 : Slot(ring[(head + k) % RingCap], h)

PathInv ==
  /\ history \in Seq(Nat)
  /\ Carried(history) /\ Reassembled(history) /\ Staged(history)

LEMMA PathInvArrives == PathInv => ArrivesAsCommitted
<1>. SUFFICES ASSUME PathInv, NEW k \in 0 .. len - 1
              PROVE  LET slot == ring[(head + k) % RingCap] IN
                     slot # <<>> /\ slot[2] = Bytes(slot[1], history[slot[1]])
  BY DEF ArrivesAsCommitted
<1>1. PICK s \in 1 .. Len(history) :
        ring[(head + k) % RingCap] = <<s, Bytes(s, history[s])>>
  BY DEF PathInv, Staged, Slot
<1> QED
  BY <1>1

LEMMA PathInvInit == Init => PathInv
<1>. SUFFICES ASSUME Init PROVE PathInv
  OBVIOUS
<1>1. history = <<>> /\ net = {} /\ partials = <<>>
  BY DEF Init
<1>2. history \in Seq(Nat)
  BY <1>1
<1>3. Carried(history) /\ Reassembled(history)
  BY <1>1 DEF Carried, Reassembled
<1>4. head = 0 /\ tail = 0 /\ len = 0 /\ DOMAIN ring = 0 .. RingCap - 1
  BY DEF Init
<1>5. Staged(history)
  BY <1>4, SizesAssumption DEF Staged
<1> QED
  BY <1>2, <1>3, <1>5 DEF PathInv

(* Numbers that are written stay as they are. *)
LEMMA HistoryGrows ==
  ASSUME NEW h \in Seq(Nat), NEW g \in Seq(Nat), Len(h) <= Len(g),
         \A s \in 1 .. Len(h) : g[s] = h[s]
  PROVE  /\ Carried(h) => Carried(g)
         /\ Reassembled(h) => Reassembled(g)
         /\ Staged(h) => Staged(g)
<1>1. 1 .. Len(h) \subseteq 1 .. Len(g)
  OBVIOUS
<1>2. Carried(h) => Carried(g)
  BY <1>1 DEF Carried
<1>3. Reassembled(h) => Reassembled(g)
  BY <1>1 DEF Reassembled
<1>4. \A x : Slot(x, h) => Slot(x, g)
  BY <1>1 DEF Slot
<1>5. Staged(h) => Staged(g)
  BY <1>4 DEF Staged
<1> QED
  BY <1>2, <1>3, <1>5

LEMMA SentIsOfSample ==
  ASSUME NEW s \in Nat, NEW n \in Nat, NEW z \in Nat \ {0},
         NEW m \in BuildDataMessages(s, n, z)
  PROVE  m.seq = s /\ OfSample(m, s, n)
<1>1. CASE n > z
  <2>1. m \in SplitIntoFragments(s, n, z) /\ n \in Nat \ {0}
    BY <1>1 DEF BuildDataMessages
  <2>2. Piece(m, s, n, z)
    BY <2>1, FragmentsArePieces
  <2> QED
    BY <2>1, <2>2 DEF OfSample, Piece
<1>2. CASE ~(n > z)
  BY <1>2 DEF BuildDataMessages, OfSample
<1> QED
  BY <1>1, <1>2

(* SampleBuffer::push and pop keep head, tail and len together. *)
LEMMA PushKeeps ==
  ASSUME NEW h, Staged(h), NEW s \in 1 .. Len(h), Push(s, Bytes(s, h[s]))
  PROVE  Staged(h)'
<1>. USE SizesAssumption
<1>1. CASE len = RingCap
  BY <1>1 DEF Push, stage, Staged
<1>2. CASE len # RingCap
  <2>1. /\ ring' = [ring EXCEPT ![tail] = <<s, Bytes(s, h[s])>>]
        /\ tail' = (tail + 1) % RingCap /\ len' = len + 1 /\ head' = head
    BY <1>2 DEF Push
  <2>2. /\ head \in 0 .. RingCap - 1 /\ len \in 0 .. RingCap - 1 /\ tail = (head + len) % RingCap
        /\ DOMAIN ring = 0 .. RingCap - 1
        /\ \A k \in 0 .. len - 1 : Slot(ring[(head + k) % RingCap], h)
    BY <1>2 DEF Staged
  <2>3. tail = IF head + len < RingCap THEN head + len ELSE head + len - RingCap
    <3>1. len \in 0 .. RingCap
      BY <2>2
    <3> QED
      BY <2>2, <3>1, WrapsOnce
  <2>4. tail \in 0 .. RingCap - 1
    BY <2>2, <2>3
  <2>5. tail' = IF tail + 1 < RingCap THEN tail + 1 ELSE tail + 1 - RingCap
    <3>1. 1 \in 0 .. RingCap
      OBVIOUS
    <3> QED
      BY <2>1, <2>4, <3>1, WrapsOnce
  <2>6. (head + (len + 1)) % RingCap =
          IF head + (len + 1) < RingCap THEN head + (len + 1) ELSE head + (len + 1) - RingCap
    <3>1. len + 1 \in 0 .. RingCap
      BY <2>2
    <3> QED
      BY <2>2, <3>1, WrapsOnce
  <2>7. tail' = (head + (len + 1)) % RingCap
    BY <2>2, <2>3, <2>5, <2>6
  <2>8. ASSUME NEW k \in 0 .. len PROVE Slot(ring'[(head + k) % RingCap], h)
    <3>1. CASE k = len
      <4>1. ring'[tail] = <<s, Bytes(s, h[s])>>
        BY <2>1, <2>2, <2>4
      <4> QED
        BY <2>2, <3>1, <4>1 DEF Slot
    <3>2. CASE k # len
      <4>1. k \in 0 .. len - 1 /\ k \in 0 .. RingCap
        BY <2>2, <3>2
      <4>2. (head + k) % RingCap = IF head + k < RingCap THEN head + k ELSE head + k - RingCap
        BY <2>2, <4>1, WrapsOnce
      <4>3. (head + k) % RingCap \in 0 .. RingCap - 1 /\ (head + k) % RingCap # tail
        BY <2>2, <2>3, <4>1, <4>2
      <4>4. ring'[(head + k) % RingCap] = ring[(head + k) % RingCap]
        BY <2>1, <2>2, <4>3
      <4> QED
        BY <2>2, <4>1, <4>4
    <3> QED
      BY <3>1, <3>2
  <2>9. DOMAIN ring' = 0 .. RingCap - 1
    BY <2>1, <2>2
  <2>10. len' \in 0 .. RingCap /\ len' - 1 = len
    BY <2>1, <2>2
  <2> QED
    BY <2>1, <2>2, <2>7, <2>8, <2>9, <2>10 DEF Staged
<1> QED
  BY <1>1, <1>2

LEMMA PopKeeps ==
  ASSUME NEW h, Staged(h), Pop
  PROVE  Staged(h)'
<1>. USE SizesAssumption
<1>1. /\ len > 0 /\ ring' = [ring EXCEPT ![head] = <<>>]
      /\ head' = (head + 1) % RingCap /\ len' = len - 1 /\ tail' = tail
  BY DEF Pop
<1>2. /\ head \in 0 .. RingCap - 1 /\ len \in 1 .. RingCap /\ tail = (head + len) % RingCap
      /\ DOMAIN ring = 0 .. RingCap - 1
      /\ \A k \in 0 .. len - 1 : Slot(ring[(head + k) % RingCap], h)
  BY <1>1 DEF Staged
<1>3. head' = IF head + 1 < RingCap THEN head + 1 ELSE head + 1 - RingCap
  <2>1. 1 \in 0 .. RingCap
    OBVIOUS
  <2> QED
    BY <1>1, <1>2, <2>1, WrapsOnce
<1>4. head' \in 0 .. RingCap - 1 /\ len' \in 0 .. RingCap
  BY <1>1, <1>2, <1>3
<1>5. ASSUME NEW k \in 0 .. len - 1
      PROVE  /\ (head' + k) % RingCap = (head + (k + 1)) % RingCap
             /\ k + 1 \in 1 .. len
             /\ k + 1 # len => /\ (head + (k + 1)) % RingCap \in 0 .. RingCap - 1
                              /\ (head + (k + 1)) % RingCap # head
  <2>1. k \in 0 .. RingCap /\ k + 1 \in 0 .. RingCap
    BY <1>2
  <2>2. (head' + k) % RingCap = IF head' + k < RingCap THEN head' + k ELSE head' + k - RingCap
    BY <1>4, <2>1, WrapsOnce
  <2>3. (head + (k + 1)) % RingCap =
          IF head + (k + 1) < RingCap THEN head + (k + 1) ELSE head + (k + 1) - RingCap
    BY <1>2, <2>1, WrapsOnce
  <2>4. (head' + k) % RingCap = (head + (k + 1)) % RingCap
    BY <1>2, <1>3, <2>2, <2>3
  <2>5. k + 1 # len => /\ (head + (k + 1)) % RingCap \in 0 .. RingCap - 1
                       /\ (head + (k + 1)) % RingCap # head
    BY <1>2, <2>3
  <2> QED
    BY <1>2, <2>4, <2>5
<1>6. tail' = (head' + len') % RingCap
  <2>1. len - 1 \in 0 .. len - 1
    BY <1>2
  <2>2. (head' + (len - 1)) % RingCap = (head + (len - 1 + 1)) % RingCap
    BY <1>5, <2>1
  <2>3. len - 1 + 1 = len
    BY <1>2
  <2> QED
    BY <1>1, <1>2, <2>2, <2>3
<1>7. ASSUME NEW k \in 0 .. len' - 1 PROVE Slot(ring'[(head' + k) % RingCap], h)
  <2>1. k \in 0 .. len - 1 /\ k + 1 \in 0 .. len - 1 /\ k + 1 # len
    BY <1>1, <1>2
  <2>2. /\ (head' + k) % RingCap = (head + (k + 1)) % RingCap
        /\ (head + (k + 1)) % RingCap \in 0 .. RingCap - 1
        /\ (head + (k + 1)) % RingCap # head
    BY <1>5, <2>1
  <2>3. ring'[(head' + k) % RingCap] = ring[(head + (k + 1)) % RingCap]
    BY <1>1, <1>2, <2>2
  <2> QED
    BY <1>2, <2>1, <2>3
<1>8. DOMAIN ring' = 0 .. RingCap - 1
  BY <1>1, <1>2
<1> QED
  BY <1>4, <1>6, <1>7, <1>8 DEF Staged

(* A message of which nothing is lost is delivered as it was committed.    *)
LEMMA DispatchKeeps ==
  ASSUME NEW h, Staged(h), NEW s \in 1 .. Len(h), Dispatch(s, Bytes(s, h[s]))
  PROVE  Staged(h)'
BY PushKeeps DEF Dispatch

LEMMA FreshOnes ==
  /\ DOMAIN Fresh \subseteq DOMAIN partials
  /\ \A s \in DOMAIN Fresh : Fresh[s] = partials[s]
BY DEF Fresh

LEMMA FragmentKeeps ==
  ASSUME NEW h \in Seq(Nat), Reassembled(h), Staged(h),
         NEW f, NEW s \in 1 .. Len(h), NEW z \in Nat \ {0},
         h[s] \in Nat \ {0}, Piece(f, s, h[s], z), ReceiveFragment(f)
  PROVE  Reassembled(h)' /\ Staged(h)'
<1>1. f.seq = s /\ f.data_size = h[s] /\ f.fragment_size = z /\ s \in Nat
  BY DEF Piece
<1>2. \A q \in DOMAIN Fresh : q \in 1 .. Len(h) /\ Assembled(Fresh[q], q, h[q])
  BY FreshOnes DEF Reassembled
<1>3. CASE Disagrees(f)
  <2>1. partials' = Fresh /\ UNCHANGED stage
    BY <1>3 DEF ReceiveFragment
  <2> QED
    BY <1>2, <2>1 DEF Reassembled, Staged, stage
<1>4. CASE ~Disagrees(f)
  <2>1. PICK p : p = IF f.seq \in DOMAIN Fresh THEN Fresh[f.seq] ELSE NewPartial(f)
    OBVIOUS
  <2>2. Assembled(p, s, h[s]) /\ p.fragment_size = z
    <3>1. CASE s \in DOMAIN Fresh
      BY <1>1, <1>2, <1>4, <2>1, <3>1 DEF Disagrees
    <3>2. CASE s \notin DOMAIN Fresh
      BY <1>1, <2>1, <3>2, NewIsAssembled
    <3> QED
      BY <3>1, <3>2
  <2>3. PICK b : b = Copied(p, f)
    OBVIOUS
  <2>4. Assembled(b, s, h[s])
    BY <1>1, <2>2, <2>3, CopiedIsAssembled
  <2>5. PICK D : D = DOMAIN Fresh \ {s}
    OBVIOUS
  <2>6. IF b.received >= b.total
        THEN /\ partials' = [q \in D |-> Fresh[q]]
             /\ Dispatch(s, b.data)
        ELSE /\ partials' = [q \in D \cup {s} |-> IF q = s THEN b ELSE Fresh[q]]
             /\ UNCHANGED <<arrived, stage>>
    BY <1>1, <1>4, <2>1, <2>3, <2>5 DEF ReceiveFragment
  <2>7. CASE b.received >= b.total
    <3>1. b.data = Bytes(s, h[s])
      BY <1>1, <2>4, <2>7, CompleteIsCommitted
    <3>2. Staged(h)'
      BY <2>6, <2>7, <3>1, DispatchKeeps
    <3>3. Reassembled(h)'
      BY <1>2, <2>5, <2>6, <2>7 DEF Reassembled
    <3> QED
      BY <3>2, <3>3
  <2>8. CASE ~(b.received >= b.total)
    <3>1. /\ partials' = [q \in D \cup {s} |-> IF q = s THEN b ELSE Fresh[q]]
          /\ UNCHANGED stage
      BY <2>6, <2>8
    <3>2. Staged(h)'
      BY <3>1 DEF Staged, stage
    <3>3. Reassembled(h)'
      BY <1>2, <2>4, <2>5, <3>1 DEF Reassembled
    <3> QED
      BY <3>2, <3>3
  <2> QED
    BY <2>7, <2>8
<1> QED
  BY <1>3, <1>4

LEMMA ReceiveKeeps ==
  ASSUME PathInv, NEW m \in net, NEW again \in BOOLEAN, Receive(m, again)
  PROVE  PathInv'
<1>1. PICK h : h = history /\ h \in Seq(Nat)
  BY DEF PathInv
<1>2. Carried(h) /\ Reassembled(h) /\ Staged(h) /\ history' = h
  BY <1>1 DEF PathInv, Receive
<1>3. PICK s : s = m.seq /\ s \in 1 .. Len(h) /\ OfSample(m, s, h[s])
  BY <1>2 DEF Carried
<1>4. Carried(h)'
  <2>1. net' \subseteq net
    BY DEF Receive
  <2> QED
    BY <1>2, <2>1 DEF Carried
<1>5. Reassembled(h)' /\ Staged(h)'
  <2>1. CASE m = [kind |-> "DATA", seq |-> s, payload |-> Bytes(s, h[s])]
    <3>1. m.kind = "DATA" /\ m.payload = Bytes(s, h[s])
      BY <2>1
    <3>2. Dispatch(s, Bytes(s, h[s])) /\ UNCHANGED partials
      BY <1>3, <3>1 DEF Receive
    <3> QED
      BY <1>2, <1>3, <3>2, DispatchKeeps DEF Reassembled
  <2>2. CASE h[s] \in Nat \ {0} /\ \E z \in Nat \ {0} : Piece(m, s, h[s], z)
    <3>1. PICK z \in Nat \ {0} : Piece(m, s, h[s], z)
      BY <2>2
    <3>2. m.kind # "DATA"
      BY <3>1 DEF Piece
    <3>3. ReceiveFragment(m)
      BY <3>2 DEF Receive
    <3> QED
      BY <1>1, <1>2, <1>3, <2>2, <3>1, <3>3, FragmentKeeps
  <2> QED
    BY <1>3, <2>1, <2>2 DEF OfSample
<1> QED
  BY <1>1, <1>2, <1>4, <1>5 DEF PathInv, Carried, Reassembled, Staged

LEMMA WriteCarries ==
  ASSUME PoolInv, PathInv, NEW t \in Threads, WriteLoaned(t)
  PROVE  PathInv'
<1>1. PICK h : h = history /\ h \in Seq(Nat)
  BY DEF PathInv
<1>2. Carried(h) /\ Reassembled(h) /\ Staged(h)
  BY <1>1 DEF PathInv
<1>3. UNCHANGED <<partials, ring, head, tail, len>>
  BY DEF WriteLoaned, reader, stage
<1>4. CASE closed
  <2>1. history' = h /\ net' = net
    BY <1>1, <1>4 DEF WriteLoaned
  <2> QED
    BY <1>1, <1>2, <1>3, <2>1 DEF PathInv, Carried, Reassembled, Staged
<1>5. CASE ~closed
  <2>1. PICK n \in Nat : n = vec[loan[t].buf].size
    <3>1. loan[t].buf \in Buffers
      BY DEF WriteLoaned, PoolInv
    <3> QED
      BY <3>1 DEF PoolInv
  <2>2. PICK g : g = Append(h, n)
    OBVIOUS
  <2>3. PICK s : s = Len(h) + 1
    OBVIOUS
  <2>4. history' = g /\ net' = net \cup BuildDataMessages(s, n, shape.live)
    BY <1>1, <1>5, <2>1, <2>2, <2>3 DEF WriteLoaned, Send
  <2>5. /\ g \in Seq(Nat) /\ Len(g) = s /\ g[s] = n /\ s \in Nat
        /\ \A q \in 1 .. Len(h) : g[q] = h[q]
    BY <1>1, <2>1, <2>2, <2>3
  <2>6. Len(h) <= Len(g) /\ s \in 1 .. Len(g)
    BY <1>1, <2>3, <2>5
  <2>7. Carried(g) /\ Reassembled(g) /\ Staged(g)
    BY <1>1, <1>2, <2>5, <2>6, HistoryGrows
  <2>8. \A m \in BuildDataMessages(s, n, shape.live) : m.seq = s /\ OfSample(m, s, n)
    <3>1. shape.live \in Nat \ {0}
      BY SizesAssumption DEF PoolInv
    <3> QED
      BY <2>1, <2>5, <3>1, SentIsOfSample
  <2>9. Carried(g)'
    BY <2>4, <2>5, <2>6, <2>7, <2>8 DEF Carried
  <2>10. Reassembled(g)' /\ Staged(g)'
    BY <1>3, <2>7 DEF Reassembled, Staged
  <2> QED
    BY <2>4, <2>5, <2>9, <2>10 DEF PathInv, Carried, Reassembled, Staged
<1> QED
  BY <1>4, <1>5

LEMMA RetransmitKeeps ==
  ASSUME PoolInv, PathInv, NEW s \in Written, Retransmit(s)
  PROVE  PathInv'
<1>1. PICK h : h = history /\ h \in Seq(Nat)
  BY DEF PathInv
<1>2. Carried(h) /\ Reassembled(h) /\ Staged(h) /\ s \in 1 .. Len(h) /\ s \in Nat
  BY <1>1 DEF PathInv, Written
<1>3. /\ UNCHANGED <<history, partials, ring, head, tail, len>>
      /\ net' = net \cup BuildDataMessages(s, h[s], shape.retrans)
  BY <1>1 DEF Retransmit, Send, reader, stage
<1>4. \A m \in BuildDataMessages(s, h[s], shape.retrans) : m.seq = s /\ OfSample(m, s, h[s])
  <2>1. shape.retrans \in Nat \ {0} /\ h[s] \in Nat
    BY <1>1, <1>2, SizesAssumption DEF PoolInv
  <2> QED
    BY <1>2, <2>1, SentIsOfSample
<1>5. Carried(h)'
  BY <1>2, <1>3, <1>4 DEF Carried
<1> QED
  BY <1>1, <1>2, <1>3, <1>5 DEF PathInv, Carried, Reassembled, Staged

LEMMA TickKeeps ==
  ASSUME PathInv, Tick
  PROVE  PathInv'
<1>1. UNCHANGED <<history, net, ring, head, tail, len>>
  BY DEF Tick, link, stage
<1>2. PICK h : h = history
  OBVIOUS
<1>3. /\ DOMAIN partials' = DOMAIN partials
      /\ \A s \in DOMAIN partials : \E a : partials'[s] = [partials[s] EXCEPT !.age = a]
  BY DEF Tick
<1>4. ASSUME NEW b, NEW s, NEW n, Assembled(b, s, n), NEW a
      PROVE  Assembled([b EXCEPT !.age = a], s, n)
  <2>1. PICK c : c = [b EXCEPT !.age = a]
    OBVIOUS
  <2>2. /\ DOMAIN c = DOMAIN b /\ c.data = b.data /\ c.mask = b.mask /\ c.received = b.received
        /\ c.total = b.total /\ c.data_size = b.data_size /\ c.fragment_size = b.fragment_size
    BY <1>4, <2>1 DEF Assembled, Fields
  <2> QED
    BY <1>4, <2>1, <2>2 DEF Assembled
<1>5. Reassembled(h)'
  <2>1. ASSUME NEW s \in DOMAIN partials
        PROVE  s \in 1 .. Len(h) /\ Assembled(partials'[s], s, h[s])
    <3>1. s \in 1 .. Len(h) /\ Assembled(partials[s], s, h[s])
      BY <1>2 DEF PathInv, Reassembled
    <3>2. PICK a : partials'[s] = [partials[s] EXCEPT !.age = a]
      BY <1>3
    <3>3. PICK b : b = partials[s]
      OBVIOUS
    <3>4. Assembled([b EXCEPT !.age = a], s, h[s])
      BY <1>4, <3>1, <3>3
    <3> QED
      BY <3>1, <3>2, <3>3, <3>4
  <2> QED
    BY <1>3, <2>1 DEF Reassembled
<1> QED
  BY <1>1, <1>2, <1>5 DEF PathInv, Carried, Reassembled, Staged

LEMMA PathInvStep == PoolInv /\ PathInv /\ [Next]_vars => PathInv'
<1>. SUFFICES ASSUME PoolInv, PathInv, [Next]_vars PROVE PathInv'
  OBVIOUS
<1>0. shape.users \subseteq Threads
  BY SizesAssumption DEF PoolInv
<1>1. ASSUME UNCHANGED <<history, net, partials, ring, head, tail, len>> PROVE PathInv'
  BY <1>1 DEF PathInv, Carried, Reassembled, Staged
<1>2. CASE \E t \in shape.users, n \in LoanSizes : Loan(t, n) \/ LoanRefused(t, n)
  BY <1>1, <1>2 DEF Loan, LoanRefused, link, reader, stage
<1>3. CASE \E t \in shape.users : WriteLoaned(t)
  BY <1>0, <1>3, WriteCarries
<1>4. CASE \E t \in shape.users : Return(t)
  BY <1>1, <1>4 DEF Return, link, reader, stage
<1>5. CASE \E s \in Written : Retransmit(s)
  BY <1>5, RetransmitKeeps
<1>6. CASE \E m \in net : Lose(m)
  <2>1. UNCHANGED <<history, partials, ring, head, tail, len>> /\ net' \subseteq net
    BY <1>6 DEF Lose, reader, stage
  <2> QED
    BY <2>1 DEF PathInv, Carried, Reassembled, Staged
<1>7. CASE \E m \in net, again \in BOOLEAN : Receive(m, again)
  BY <1>7, ReceiveKeeps
<1>8. CASE Close
  BY <1>1, <1>8 DEF Close, link, reader, stage
<1>9. CASE Tick
  BY <1>9, TickKeeps
<1>10. CASE Pop
  <2>1. UNCHANGED <<history, net, partials>>
    BY <1>10 DEF Pop, link, reader
  <2>2. PICK h : h = history
    OBVIOUS
  <2>3. Staged(h)'
    BY <1>10, <2>2, PopKeeps DEF PathInv
  <2> QED
    BY <2>1, <2>2, <2>3 DEF PathInv, Carried, Reassembled, Staged
<1>11. CASE UNCHANGED vars
  BY <1>1, <1>11 DEF vars, link, reader, stage
<1> QED
  BY <1>2, <1>3, <1>4, <1>5, <1>6, <1>7, <1>8, <1>9, <1>10, <1>11 DEF Next

(* What the application reads from the ring is, byte for byte, what was    *)
(* committed under its number, for any fragment sizes, any faults of the   *)
(* network and any capacity of the ring (fragment.hpp, pool.hpp).          *)
THEOREM DeliversWhatWasCommitted == Spec => []ArrivesAsCommitted
<1> QED
  BY PathInvArrives, PathInvInit, PathInvStep, PoolInvInit, PoolInvStep, PTL DEF Spec

-----------------------------------------------------------------------------
(* The protected link.  The counter stands for the number of a write, so   *)
(* long as less than its range is under way.                               *)

LEMMA DivModOf ==
  ASSUME NEW a \in Nat, NEW m \in Nat \ {0}
  PROVE  \E q \in Nat : a = m * q + (a % m) /\ a % m \in 0 .. m - 1
<1>1. a \div m \in Nat /\ a = m * (a \div m) + (a % m) /\ a % m \in 0 .. m - 1
  OBVIOUS
<1> QED
  BY <1>1

LEMMA SameRemainder ==
  ASSUME NEW m \in Nat \ {0}, NEW a \in Nat, NEW b \in Nat, a % m = b % m, a - b < m, b - a < m
  PROVE  a = b
<1>1. PICK p \in Nat : a = m * p + (a % m)
  BY DivModOf
<1>2. PICK q \in Nat : b = m * q + (b % m)
  BY DivModOf
<1>3. a % m \in Nat
  BY DivModOf
<1>4. a - b = m * (p - q)
  BY <1>1, <1>2, <1>3
<1>5. CASE p > q
  <2>1. PICK d \in Nat : p - q = d + 1
    BY <1>5
  <2>2. m * (d + 1) = m * d + m /\ m * d \in Nat
    OBVIOUS
  <2> QED
    BY <1>4, <2>1, <2>2
<1>6. CASE q > p
  <2>1. PICK d \in Nat : p - q = 0 - (d + 1)
    BY <1>6
  <2>2. m * (0 - (d + 1)) = 0 - (m * d + m) /\ m * d \in Nat
    OBVIOUS
  <2> QED
    BY <1>4, <2>1, <2>2
<1>7. CASE p = q
  BY <1>1, <1>2, <1>7
<1> QED
  BY <1>5, <1>6, <1>7

LEMMA NextRemainder ==
  ASSUME NEW m \in Nat \ {0}, NEW a \in Nat
  PROVE  ((a % m) + 1) % m = (a + 1) % m
<1>1. PICK q \in Nat : a = m * q + (a % m) /\ a % m \in 0 .. m - 1
  BY DivModOf
<1>2. PICK r \in 0 .. m - 1 : r = a % m
  BY <1>1
<1>3. CASE r + 1 < m
  <2>1. (m * q + (r + 1)) % m = r + 1
    BY <1>3
  <2> QED
    BY <1>1, <1>2, <1>3, <2>1
<1>4. CASE r + 1 = m
  <2>1. a + 1 = m * (q + 1) + 0
    BY <1>1, <1>2, <1>4
  <2>2. (m * (q + 1) + 0) % m = 0
    OBVIOUS
  <2> QED
    BY <1>1, <1>2, <1>4, <2>1, <2>2
<1> QED
  BY <1>2, <1>3, <1>4

LEMMA Joined ==
  ASSUME NEW S, NEW g \in Seq(S), NEW c \in Seq(S)
  PROVE  /\ g \o c \in Seq(S) /\ Len(g \o c) = Len(g) + Len(c)
         /\ \A n \in S : g \o Append(c, n) = Append(g \o c, n)
         /\ c # <<>> => /\ Head(c) \in S /\ Tail(c) \in Seq(S)
                        /\ Append(g, Head(c)) \o Tail(c) = g \o c
<1>1. g \o c \in Seq(S) /\ Len(g \o c) = Len(g) + Len(c)
  OBVIOUS
<1>2. \A n \in S : g \o Append(c, n) = Append(g \o c, n)
  OBVIOUS
<1>3. ASSUME c # <<>>
      PROVE  /\ Head(c) \in S /\ Tail(c) \in Seq(S)
             /\ Append(g, Head(c)) \o Tail(c) = g \o c
  BY <1>3
<1> QED
  BY <1>1, <1>2, <1>3

LEMMA RemovalOf ==
  ASSUME NEW S, NEW q \in Seq(S), NEW i \in 1 .. Len(q)
  PROVE  E2E!RemoveAt(q, i) \in Seq(S)
BY DEF E2E!RemoveAt

(* A frame's counter is the number of its write modulo the range.          *)
Numbers == Earlier + 1 .. Earlier + E2EWrites
Frames == {f \in [number : Numbers, counter : Nat, state : {"intact", "damaged", "short"}, old : BOOLEAN] :
             f.counter = f.number % Modulus}

Consecutive(q) == \A i \in 1 .. Len(q) - 1 : q[i + 1] = q[i] + 1

(* The check has seen all that was delivered, and its last counter is the  *)
(* last sample's.                                                          *)
Checked ==
  ~alarmed /\ ~overflowed =>
    /\ Consecutive(got \o ch)
    /\ ~hasFirst => got \o ch = <<>>
    /\ hasFirst => /\ got \o ch # <<>>
                   /\ lastCounter = (got \o ch)[Len(got \o ch)] % Modulus

LinkInv ==
  /\ counter \in Earlier .. Earlier + E2EWrites
  /\ writing \in [Threads -> Numbers \cup {0}]
  /\ raw \in Seq(Frames) /\ got \in Seq(Numbers) /\ ch \in Seq(Numbers)
  /\ hasFirst \in BOOLEAN
  /\ Checked

(* The bound on writes stands for what the range of the counter assumes.   *)
RangeSuffices == Modulus \in Nat /\ Earlier \in Nat /\ E2EWrites \in Nat /\ E2EWrites < Modulus

LEMMA AcceptedIsNext ==
  ASSUME RangeSuffices, NEW q \in Seq(Numbers), Consecutive(q), NEW n \in Numbers,
         \/ q = <<>>
         \/ q # <<>> /\ n % Modulus = ((q[Len(q)] % Modulus) + 1) % Modulus
  PROVE  /\ Append(q, n) \in Seq(Numbers) /\ Append(q, n) # <<>> /\ Consecutive(Append(q, n))
         /\ Append(q, n)[Len(Append(q, n))] = n
<1>1. /\ Append(q, n) \in Seq(Numbers) /\ Append(q, n) # <<>> /\ Len(Append(q, n)) = Len(q) + 1
      /\ Append(q, n)[Len(q) + 1] = n /\ \A i \in 1 .. Len(q) : Append(q, n)[i] = q[i]
  BY AppendProperties
<1>2. q # <<>> => n = q[Len(q)] + 1
  <2>. SUFFICES ASSUME q # <<>> PROVE n = q[Len(q)] + 1
    OBVIOUS
  <2>1. PICK l \in Numbers : l = q[Len(q)]
    OBVIOUS
  <2>2. l \in Nat /\ n \in Nat /\ n - (l + 1) < Modulus /\ (l + 1) - n < Modulus /\ Modulus \in Nat \ {0}
    BY DEF Numbers, RangeSuffices
  <2>3. n % Modulus = (l + 1) % Modulus
    BY <2>1, <2>2, NextRemainder
  <2>4. PICK m \in Nat : m = l + 1
    BY <2>2
  <2>5. n \in Nat /\ n % Modulus = m % Modulus /\ n - m < Modulus /\ m - n < Modulus
    BY <2>2, <2>3, <2>4
  <2>6. Modulus \in Nat \ {0}
    BY <2>2
  <2>7. n = m
    BY <2>4, <2>5, <2>6, SameRemainder, Zenon
  <2> QED
    BY <2>1, <2>4, <2>7
<1>3. Consecutive(Append(q, n))
  <2>. SUFFICES ASSUME NEW i \in 1 .. Len(Append(q, n)) - 1
                PROVE  Append(q, n)[i + 1] = Append(q, n)[i] + 1
    BY DEF Consecutive
  <2>1. i \in 1 .. Len(q) /\ Len(q) \in Nat
    BY <1>1
  <2>2. CASE i = Len(q)
    BY <1>1, <1>2, <2>1, <2>2
  <2>3. CASE i # Len(q)
    <3>1. i \in 1 .. Len(q) - 1 /\ i + 1 \in 1 .. Len(q)
      BY <2>1, <2>3
    <3> QED
      BY <1>1, <2>1, <3>1 DEF Consecutive
  <2> QED
    BY <2>2, <2>3
<1> QED
  BY <1>1, <1>3

LEMMA LinkInvInit == RangeSuffices /\ E2E!Init => LinkInv
<1>. SUFFICES ASSUME RangeSuffices, E2E!Init PROVE LinkInv
  OBVIOUS
<1>1. /\ counter = Earlier /\ writing = [w \in Threads |-> 0] /\ raw = <<>>
      /\ got = <<>> /\ ch = <<>> /\ hasFirst = FALSE
  BY DEF E2E!Init
<1>2. Checked
  <2>1. got \o ch = <<>>
    BY <1>1
  <2>2. Consecutive(<<>>)
    BY DEF Consecutive
  <2> QED
    BY <1>1, <2>1, <2>2 DEF Checked
<1>3. counter \in Earlier .. Earlier + E2EWrites
  BY <1>1 DEF RangeSuffices
<1>4. writing \in [Threads -> Numbers \cup {0}]
  BY <1>1
<1>5. raw \in Seq(Frames) /\ got \in Seq(Numbers) /\ ch \in Seq(Numbers)
  BY <1>1
<1> QED
  BY <1>1, <1>2, <1>3, <1>4, <1>5 DEF LinkInv

(* process() of a frame the check takes, or rejects. *)
LEMMA ProcessKeeps ==
  ASSUME RangeSuffices, LinkInv, NEW f \in Frames, E2E!Process(f), got' = got
  PROVE  ch' \in Seq(Numbers) /\ hasFirst' \in BOOLEAN /\ Checked'
<1>1. ch \in Seq(Numbers) /\ hasFirst \in BOOLEAN /\ got \in Seq(Numbers)
  BY DEF LinkInv
<1>2. CASE E2E!Rejected(f) # "none"
  <2>1. alarmed' = TRUE /\ ch' = ch /\ hasFirst' = hasFirst
    BY <1>2 DEF E2E!Process, E2E!EmitError
  <2> QED
    BY <1>1, <2>1 DEF Checked
<1>3. CASE E2E!Rejected(f) = "none"
  <2>1. /\ IF E2E!InSequence(f) THEN UNCHANGED <<errors, alarmed>> ELSE E2E!EmitError("SequenceGap")
        /\ hasFirst' = TRUE /\ lastCounter' = f.counter /\ E2E!Forward(f)
    BY <1>3 DEF E2E!Process
  <2>2. f.number \in Numbers /\ f.counter = f.number % Modulus
    BY DEF Frames
  <2>3. ch' \in Seq(Numbers)
    BY <1>1, <2>1, <2>2, AppendProperties DEF E2E!Forward
  <2>4. Checked'
    <3>. SUFFICES ASSUME ~alarmed', ~overflowed'
                  PROVE  /\ Consecutive(got' \o ch')
                         /\ got' \o ch' # <<>>
                         /\ lastCounter' = (got' \o ch')[Len(got' \o ch')] % Modulus
      BY <2>1 DEF Checked
    <3>1. E2E!InSequence(f) /\ ~alarmed
      BY <2>1 DEF E2E!EmitError
    <3>2. ch' = Append(ch, f.number) /\ ~overflowed
      BY <2>1 DEF E2E!Forward
    <3>3. PICK q \in Seq(Numbers) : q = got \o ch
      BY <1>1, Joined
    <3>4. got' \o ch' = Append(q, f.number)
      BY <1>1, <2>2, <3>2, <3>3, Joined
    <3>5. Consecutive(q) /\ (~hasFirst => q = <<>>)
          /\ (hasFirst => q # <<>> /\ lastCounter = q[Len(q)] % Modulus)
      BY <3>1, <3>2, <3>3 DEF LinkInv, Checked
    <3>6. \/ q = <<>>
          \/ q # <<>> /\ f.number % Modulus = ((q[Len(q)] % Modulus) + 1) % Modulus
      BY <1>1, <2>2, <3>1, <3>5 DEF E2E!InSequence
    <3>7. /\ Append(q, f.number) # <<>> /\ Consecutive(Append(q, f.number))
          /\ Append(q, f.number)[Len(Append(q, f.number))] = f.number
      BY <2>2, <3>5, <3>6, AcceptedIsNext
    <3> QED
      BY <2>1, <2>2, <3>4, <3>7
  <2> QED
    BY <2>1, <2>3, <2>4
<1> QED
  BY <1>2, <1>3

(* Whatever happens to frames on the way, they are frames. *)
LEMMA RawKeeps ==
  ASSUME RangeSuffices, raw \in Seq(Frames), counter \in Earlier .. Earlier + E2EWrites,
         writing \in [Threads -> Numbers \cup {0}]
  PROVE  /\ \A i \in 1 .. Len(raw) : E2E!Lose(i) \/ E2E!Repeat(i) \/ E2E!Overtake(i) \/ E2E!Damage(i)
                                       => raw' \in Seq(Frames)
         /\ E2E!GrowOld => raw' \in Seq(Frames)
         /\ \A w \in Threads : E2E!WriteFrame(w) => raw' \in Seq(Frames)
<1>0. \A i \in 1 .. Len(raw) : raw[i] \in Frames
  OBVIOUS
<1>1. ASSUME NEW i \in 1 .. Len(raw), E2E!Lose(i) PROVE raw' \in Seq(Frames)
  BY <1>1, RemovalOf DEF E2E!Lose
<1>2. ASSUME NEW i \in 1 .. Len(raw), E2E!Repeat(i) PROVE raw' \in Seq(Frames)
  BY <1>2 DEF E2E!Repeat
<1>3. ASSUME NEW i \in 1 .. Len(raw), E2E!Overtake(i) PROVE raw' \in Seq(Frames)
  <2>1. i - 1 \in 1 .. Len(raw) /\ raw' = [raw EXCEPT ![i] = raw[i - 1], ![i - 1] = raw[i]]
    BY <1>3 DEF E2E!Overtake
  <2>2. PICK n \in Nat : n = Len(raw) /\ raw \in [1 .. n -> Frames]
    OBVIOUS
  <2>3. raw' \in [1 .. n -> Frames]
    BY <2>1, <2>2
  <2> QED
    BY <2>3
<1>4. ASSUME NEW i \in 1 .. Len(raw), E2E!Damage(i) PROVE raw' \in Seq(Frames)
  <2>1. PICK s \in {"damaged", "short"} : raw' = [raw EXCEPT ![i].state = s]
    BY <1>4 DEF E2E!Damage
  <2>2. PICK f \in Frames : f = [raw[i] EXCEPT !.state = s]
    <3>1. PICK r \in Frames : r = raw[i]
      BY <1>0
    <3>2. [r EXCEPT !.state = s] \in Frames
      BY DEF Frames
    <3> QED
      BY <3>1, <3>2
  <2>3. raw' = [raw EXCEPT ![i] = f]
    BY <2>1, <2>2
  <2> QED
    BY <2>2, <2>3
<1>5. ASSUME E2E!GrowOld PROVE raw' \in Seq(Frames)
  <2>1. PICK n \in Nat : n = Len(raw) /\ raw' = [i \in 1 .. n |-> [raw[i] EXCEPT !.old = TRUE]]
    BY <1>5 DEF E2E!GrowOld
  <2>2. \A f \in Frames : [f EXCEPT !.old = TRUE] \in Frames
    BY DEF Frames
  <2>3. raw' \in [1 .. n -> Frames]
    BY <1>0, <2>1, <2>2
  <2> QED
    BY <2>3
<1>6. ASSUME NEW w \in Threads, E2E!WriteFrame(w) PROVE raw' \in Seq(Frames)
  <2>1. raw' = raw \/ raw' = Append(raw, E2E!MakeFrame(writing[w]))
    BY <1>6 DEF E2E!WriteFrame
  <2>2. writing[w] \in Numbers
    BY <1>6 DEF E2E!WriteFrame
  <2>3. \A n \in Numbers : n % Modulus \in Nat
    BY DEF Numbers, RangeSuffices
  <2>4. E2E!MakeFrame(writing[w]) \in Frames
    BY <2>2, <2>3 DEF E2E!MakeFrame, Frames
  <2> QED
    BY <2>1, <2>4
<1> QED
  BY <1>1, <1>2, <1>3, <1>4, <1>5, <1>6

LEMMA LinkInvStep == RangeSuffices /\ LinkInv /\ [E2E!Next]_E2E!vars => LinkInv'
<1>. SUFFICES ASSUME RangeSuffices, LinkInv, [E2E!Next]_E2E!vars PROVE LinkInv'
  OBVIOUS
<1>1. CASE \E w \in Threads : E2E!TakeCounter(w)
  <2>1. PICK w \in Threads : E2E!TakeCounter(w)
    BY <1>1
  <2>2. UNCHANGED <<raw, got, ch, hasFirst, lastCounter, alarmed, overflowed>>
    BY <2>1 DEF E2E!TakeCounter, E2E!checked
  <2>3. counter < Earlier + E2EWrites /\ counter' = counter + 1 /\ writing' = [writing EXCEPT ![w] = counter']
    BY <2>1 DEF E2E!TakeCounter
  <2>4. counter' \in Numbers /\ counter' \in Earlier .. Earlier + E2EWrites
    BY <2>3 DEF LinkInv, Numbers, RangeSuffices
  <2>5. writing' \in [Threads -> Numbers \cup {0}]
    BY <2>3, <2>4 DEF LinkInv
  <2> QED
    BY <2>2, <2>4, <2>5 DEF LinkInv, Checked
<1>2. CASE \E w \in Threads : E2E!WriteFrame(w)
  <2>1. PICK w \in Threads : E2E!WriteFrame(w)
    BY <1>2
  <2>2. UNCHANGED <<counter, got, ch, hasFirst, lastCounter, alarmed, overflowed>>
    BY <2>1 DEF E2E!WriteFrame, E2E!checked
  <2>3. writing' \in [Threads -> Numbers \cup {0}]
    BY <2>1 DEF E2E!WriteFrame, LinkInv
  <2>4. raw' \in Seq(Frames)
    BY <2>1, RawKeeps DEF LinkInv
  <2> QED
    BY <2>2, <2>3, <2>4 DEF LinkInv, Checked
<1>3. CASE \/ \E i \in 1 .. Len(raw) : E2E!Lose(i) \/ E2E!Repeat(i) \/ E2E!Overtake(i) \/ E2E!Damage(i)
           \/ E2E!GrowOld
  <2>1. raw' \in Seq(Frames)
    BY <1>3, RawKeeps DEF LinkInv
  <2>2. UNCHANGED <<counter, writing, got, ch, hasFirst, lastCounter, alarmed, overflowed>>
    BY <1>3 DEF E2E!Lose, E2E!Repeat, E2E!Overtake, E2E!Damage, E2E!GrowOld, E2E!Fault, E2E!sender, E2E!checked
  <2> QED
    BY <2>1, <2>2 DEF LinkInv, Checked
<1>4. CASE E2E!Pump
  <2>1. /\ raw # <<>> /\ E2E!Process(Head(raw)) /\ raw' = Tail(raw)
        /\ UNCHANGED <<counter, writing, got>>
    BY <1>4 DEF E2E!Pump, E2E!sender
  <2>2. Head(raw) \in Frames /\ Tail(raw) \in Seq(Frames)
    BY <2>1, HeadTailProperties DEF LinkInv
  <2>3. ch' \in Seq(Numbers) /\ hasFirst' \in BOOLEAN /\ Checked'
    BY <2>1, <2>2, ProcessKeeps
  <2> QED
    BY <2>1, <2>2, <2>3 DEF LinkInv
<1>5. CASE E2E!Receive
  <2>1. /\ ch # <<>> /\ ch' = Tail(ch) /\ got' = Append(got, Head(ch))
        /\ UNCHANGED <<counter, writing, raw, hasFirst, lastCounter, alarmed, overflowed>>
    BY <1>5 DEF E2E!Receive, E2E!sender
  <2>2. /\ Head(ch) \in Numbers /\ Tail(ch) \in Seq(Numbers)
        /\ Append(got, Head(ch)) \o Tail(ch) = got \o ch
    BY <2>1, Joined DEF LinkInv
  <2>3. got' \o ch' = got \o ch
    BY <2>1, <2>2
  <2>4. got' \in Seq(Numbers)
    BY <2>1, <2>2 DEF LinkInv
  <2>5. Checked'
    BY <2>1, <2>3 DEF LinkInv, Checked
  <2> QED
    BY <2>1, <2>2, <2>4, <2>5 DEF LinkInv
<1>6. ASSUME UNCHANGED <<counter, writing, raw, got, ch, hasFirst, lastCounter, alarmed, overflowed>>
      PROVE  LinkInv'
  BY <1>6 DEF LinkInv, Checked
<1>7. CASE E2E!ClosePublisher \/ E2E!PumpEnds \/ E2E!CloseRaw \/ E2E!JoinPump \/ E2E!ReadError
  BY <1>6, <1>7 DEF E2E!ClosePublisher, E2E!PumpEnds, E2E!CloseRaw, E2E!JoinPump, E2E!ReadError,
     E2E!sender, E2E!checked
<1>8. CASE UNCHANGED E2E!vars
  BY <1>6, <1>8 DEF E2E!vars, E2E!sender, E2E!checked
<1> QED
  BY <1>1, <1>2, <1>3, <1>4, <1>5, <1>7, <1>8 DEF E2E!Next

(* Without an alarm the samples that arrived are those of consecutive      *)
(* writes, in order, whatever was lost, repeated, overtaken, damaged or    *)
(* late, for any number of writers, any range and any queues, also where   *)
(* the counter wraps (e2e.cpp): its remainder determines a number as long  *)
(* as fewer are written than the range.                                    *)
THEOREM SilenceProves ==
  ASSUME RangeSuffices
  PROVE  MCSpec => []SilenceMeansIntact
<1>1. MCInit => LinkInv
  BY LinkInvInit DEF MCInit
<1>2. LinkInv /\ [MCNext]_<<vars, e2eVars, side>> => LinkInv'
  <2>1. [MCNext]_<<vars, e2eVars, side>> => [E2E!Next]_E2E!vars
    BY DEF MCNext, e2eVars, E2E!vars, E2E!sender, E2E!checked, E2E!life
  <2> QED
    BY <2>1, LinkInvStep
<1>3. LinkInv => SilenceMeansIntact
  BY DEF LinkInv, Checked, Consecutive, SilenceMeansIntact, E2E!SilenceMeansIntact
<1> QED
  BY <1>1, <1>2, <1>3, PTL DEF MCSpec

(* Without a disturbance what is under way is what one thread has sent     *)
(* since the last frame checked, each frame intact and in its place.       *)
LastSent == IF \E w \in Threads : writing[w] # 0 THEN counter - 1 ELSE counter
Follows(b) ==
  /\ \A i \in 1 .. Len(raw) : raw[i] = E2E!MakeFrame(b + i)
  /\ hasFirst => lastCounter = b % Modulus
  /\ ~rawClosed => b + Len(raw) = LastSent

Orderly ==
  /\ raw \in Seq({E2E!MakeFrame(n) : n \in Nat}) \/ disturbed
  /\ counter \in Nat /\ writing \in [Threads -> Nat] /\ disturbed \in BOOLEAN
  /\ ~disturbed =>
       /\ ~alarmed
       /\ \A w \in Threads : writing[w] # 0 => writing[w] = counter
       /\ \A v, w \in Threads : writing[v] # 0 /\ writing[w] # 0 => v = w
       /\ \E b \in Nat : Follows(b)

LEMMA OrderlyInit == Modulus \in Nat \ {0} /\ Earlier \in Nat /\ E2E!Init => Orderly
<1>. SUFFICES ASSUME Earlier \in Nat, E2E!Init PROVE Orderly
  OBVIOUS
<1>1. /\ counter = Earlier /\ writing = [w \in Threads |-> 0] /\ raw = <<>>
      /\ hasFirst = FALSE /\ ~alarmed /\ disturbed = FALSE
  BY DEF E2E!Init
<1>2. Follows(Earlier)
  BY <1>1 DEF Follows, LastSent
<1>3. raw \in Seq({E2E!MakeFrame(n) : n \in Nat})
  BY <1>1
<1>4. \A w \in Threads : writing[w] = 0
  BY <1>1
<1>5. counter \in Nat /\ writing \in [Threads -> Nat]
  BY <1>1
<1> QED
  BY <1>1, <1>2, <1>3, <1>4, <1>5 DEF Orderly

LEMMA TakeKeeps ==
  ASSUME Orderly, NEW w \in Threads, E2E!TakeCounter(w)
  PROVE  Orderly'
<1>1. /\ writing[w] = 0 /\ counter' = counter + 1 /\ writing' = [writing EXCEPT ![w] = counter']
      /\ disturbed' = (disturbed \/ \E v \in Threads : writing[v] # 0)
      /\ UNCHANGED <<raw, rawClosed, hasFirst, lastCounter, alarmed>>
  BY DEF E2E!TakeCounter, E2E!checked, E2E!life
<1>2. /\ counter' \in Nat /\ writing' \in [Threads -> Nat] /\ disturbed' \in BOOLEAN
  BY <1>1 DEF Orderly
<1>3. raw' \in Seq({E2E!MakeFrame(n) : n \in Nat}) \/ disturbed'
  BY <1>1 DEF Orderly
<1>4. ASSUME ~disturbed'
      PROVE  /\ ~alarmed'
             /\ \A v \in Threads : writing'[v] # 0 => writing'[v] = counter'
             /\ \A u, v \in Threads : writing'[u] # 0 /\ writing'[v] # 0 => u = v
             /\ \E b \in Nat : Follows(b)'
  <2>1. ~disturbed /\ \A v \in Threads : writing[v] = 0
    BY <1>1, <1>4 DEF Orderly
  <2>2. \A v \in Threads : writing'[v] = IF v = w THEN counter' ELSE 0
    BY <1>1, <2>1 DEF Orderly
  <2>3. PICK b \in Nat : Follows(b)
    BY <2>1 DEF Orderly
  <2>4. LastSent = counter /\ LastSent' = counter
    <3>1. counter' # 0 /\ counter' - 1 = counter
      BY <1>1 DEF Orderly
    <3> QED
      BY <2>1, <2>2, <3>1 DEF LastSent
  <2>5. Follows(b)'
    BY <1>1, <2>3, <2>4 DEF Follows
  <2> QED
    BY <1>1, <2>1, <2>2, <2>5 DEF Orderly
<1> QED
  BY <1>2, <1>3, <1>4 DEF Orderly

LEMMA WriteFrameKeeps ==
  ASSUME Orderly, NEW w \in Threads, E2E!WriteFrame(w)
  PROVE  Orderly'
<1>. DEFINE Sent == {E2E!MakeFrame(n) : n \in Nat}
<1>1. /\ writing[w] # 0 /\ writing' = [writing EXCEPT ![w] = 0]
      /\ \/ /\ raw' = IF rawClosed THEN raw ELSE Append(raw, E2E!MakeFrame(writing[w]))
            /\ disturbed' = disturbed
         \/ raw' = raw /\ disturbed' = TRUE
      /\ UNCHANGED <<counter, rawClosed, hasFirst, lastCounter, alarmed>>
  BY DEF E2E!WriteFrame, E2E!checked, E2E!life
<1>2. /\ counter' \in Nat /\ writing' \in [Threads -> Nat] /\ disturbed' \in BOOLEAN
  BY <1>1 DEF Orderly
<1>3. CASE disturbed'
  BY <1>2, <1>3 DEF Orderly
<1>4. CASE ~disturbed'
  <2>1. /\ raw' = IF rawClosed THEN raw ELSE Append(raw, E2E!MakeFrame(writing[w]))
        /\ ~disturbed
    BY <1>1, <1>4
  <2>2. PICK q \in Seq(Sent) : q = raw
    BY <2>1 DEF Orderly
  <2>3. PICK n \in Nat : n = writing[w] /\ n = counter
    BY <1>1, <2>1 DEF Orderly
  <2>4. PICK b \in Nat : Follows(b)
    BY <2>1 DEF Orderly
  <2>5. \A v \in Threads : writing'[v] = 0
    BY <1>1, <2>1 DEF Orderly
  <2>6. LastSent = n - 1 /\ LastSent' = n
    BY <1>1, <2>3, <2>5 DEF LastSent
  <2>7. Follows(b)' /\ raw' \in Seq(Sent)
    <3>1. CASE rawClosed
      <4>1. raw' = raw /\ rawClosed'
        BY <1>1, <2>1, <3>1
      <4> QED
        BY <1>1, <2>2, <2>4, <4>1 DEF Follows
    <3>2. CASE ~rawClosed
      <4>1. raw' = Append(q, E2E!MakeFrame(n)) /\ b + Len(q) = n - 1
        BY <2>1, <2>2, <2>3, <2>4, <2>6, <3>2 DEF Follows
      <4>2. /\ raw' \in Seq(Sent) /\ Len(raw') = Len(q) + 1 /\ raw'[Len(q) + 1] = E2E!MakeFrame(n)
            /\ \A i \in 1 .. Len(q) : raw'[i] = q[i]
        <5>1. E2E!MakeFrame(n) \in Sent
          OBVIOUS
        <5> HIDE DEF Sent
        <5> QED
          BY <4>1, <5>1, AppendProperties
      <4>3. \A i \in 1 .. Len(q) : q[i] = E2E!MakeFrame(b + i)
        BY <2>2, <2>4 DEF Follows
      <4>4. Len(q) \in Nat /\ n = b + (Len(q) + 1)
        BY <2>2, <4>1
      <4>5. \A i \in 1 .. Len(raw') : raw'[i] = E2E!MakeFrame(b + i)
        <5>. SUFFICES ASSUME NEW i \in 1 .. Len(q) + 1 PROVE raw'[i] = E2E!MakeFrame(b + i)
          BY <4>2
        <5>1. CASE i = Len(q) + 1
          BY <4>2, <4>4, <5>1
        <5>2. CASE i \in 1 .. Len(q)
          BY <4>2, <4>3, <5>2
        <5> QED
          BY <4>4, <5>1, <5>2
      <4>6. hasFirst' => lastCounter' = b % Modulus
        BY <1>1, <2>4 DEF Follows
      <4>7. b + Len(raw') = LastSent'
        BY <2>6, <4>2, <4>4
      <4> QED
        BY <4>2, <4>5, <4>6, <4>7 DEF Follows
    <3> QED
      BY <3>1, <3>2
  <2> QED
    BY <1>1, <1>2, <2>1, <2>5, <2>7 DEF Orderly
<1> QED
  BY <1>2, <1>3, <1>4 DEF Orderly

LEMMA PumpKeeps ==
  ASSUME Modulus \in Nat \ {0}, Orderly, E2E!Pump
  PROVE  Orderly'
<1>. DEFINE Sent == {E2E!MakeFrame(n) : n \in Nat}
<1>1. /\ raw # <<>> /\ E2E!Process(Head(raw)) /\ raw' = Tail(raw)
      /\ UNCHANGED <<counter, writing, rawClosed, disturbed>>
  BY DEF E2E!Pump, E2E!sender, E2E!life
<1>2. CASE disturbed
  BY <1>1, <1>2 DEF Orderly
<1>3. CASE ~disturbed
  <2>1. PICK q \in Seq(Sent) : q = raw /\ q # <<>>
    BY <1>1, <1>3 DEF Orderly
  <2>2. PICK b \in Nat : Follows(b)
    BY <1>3 DEF Orderly
  <2>3. PICK f : f = Head(q)
    OBVIOUS
  <2>4. /\ Len(q) \in Nat \ {0} /\ f = q[1] /\ Len(Tail(q)) = Len(q) - 1 /\ Tail(q) \in Seq(Sent)
        /\ \A i \in 1 .. Len(q) - 1 : Tail(q)[i] = q[i + 1]
    <3> HIDE DEF Sent
    <3> QED
      BY <2>1, <2>3, HeadTailProperties
  <2>5. f = E2E!MakeFrame(b + 1)
    BY <2>1, <2>2, <2>4 DEF Follows
  <2>6. /\ f.state = "intact" /\ f.old = FALSE /\ f.counter = (b + 1) % Modulus
    BY <2>5 DEF E2E!MakeFrame
  <2>7. E2E!Rejected(f) = "none"
    BY <2>6 DEF E2E!Rejected
  <2>8. E2E!InSequence(f)
    <3>1. hasFirst => lastCounter = b % Modulus
      BY <2>2 DEF Follows
    <3>2. ((b % Modulus) + 1) % Modulus = (b + 1) % Modulus
      BY NextRemainder
    <3> QED
      BY <2>6, <3>1, <3>2 DEF E2E!InSequence
  <2>9. alarmed' = alarmed /\ hasFirst' = TRUE /\ lastCounter' = (b + 1) % Modulus
    BY <1>1, <2>1, <2>3, <2>6, <2>7, <2>8 DEF E2E!Process
  <2>10. Follows(b + 1)'
    <3>1. raw' = Tail(q) /\ LastSent' = LastSent /\ rawClosed' = rawClosed
      BY <1>1, <2>1 DEF LastSent
    <3>2. \A i \in 1 .. Len(raw') : raw'[i] = E2E!MakeFrame(b + 1 + i)
      <4>. SUFFICES ASSUME NEW i \in 1 .. Len(q) - 1
                    PROVE  Tail(q)[i] = E2E!MakeFrame(b + 1 + i)
        BY <2>4, <3>1
      <4>1. i + 1 \in 1 .. Len(q) /\ b + (i + 1) = b + 1 + i
        BY <2>4
      <4>2. q[i + 1] = E2E!MakeFrame(b + (i + 1))
        BY <2>1, <2>2, <4>1 DEF Follows
      <4> QED
        BY <2>4, <4>1, <4>2
    <3>3. ~rawClosed => b + 1 + Len(raw') = LastSent'
      BY <2>1, <2>2, <2>4, <3>1 DEF Follows
    <3> QED
      BY <2>9, <3>1, <3>2, <3>3 DEF Follows
  <2>11. raw' \in Seq(Sent)
    BY <1>1, <2>1, <2>4
  <2>12. b + 1 \in Nat
    OBVIOUS
  <2> QED
    BY <1>1, <1>3, <2>9, <2>10, <2>11, <2>12 DEF Orderly
<1> QED
  BY <1>2, <1>3 DEF Orderly

LEMMA OrderlyStep == Modulus \in Nat \ {0} /\ Orderly /\ [E2E!Next]_E2E!vars => Orderly'
<1>. SUFFICES ASSUME Modulus \in Nat \ {0}, Orderly, [E2E!Next]_E2E!vars PROVE Orderly'
  OBVIOUS
<1>1. CASE \E w \in Threads : E2E!TakeCounter(w)
  BY <1>1, TakeKeeps
<1>2. CASE \E w \in Threads : E2E!WriteFrame(w)
  BY <1>2, WriteFrameKeeps
<1>3. CASE E2E!Pump
  BY <1>3, PumpKeeps
<1>4. CASE \/ \E i \in 1 .. Len(raw) : E2E!Lose(i) \/ E2E!Repeat(i) \/ E2E!Overtake(i) \/ E2E!Damage(i)
           \/ E2E!GrowOld
  <2>1. disturbed' = TRUE /\ UNCHANGED <<counter, writing>>
    BY <1>4 DEF E2E!Lose, E2E!Repeat, E2E!Overtake, E2E!Damage, E2E!GrowOld, E2E!Fault, E2E!sender
  <2> QED
    BY <2>1 DEF Orderly
<1>5. ASSUME UNCHANGED <<counter, writing, raw, hasFirst, lastCounter, alarmed, disturbed>>,
             rawClosed' = rawClosed \/ rawClosed'
      PROVE  Orderly'
  <2>1. \A b \in Nat : Follows(b) => Follows(b)'
    BY <1>5 DEF Follows, LastSent
  <2> QED
    BY <1>5, <2>1 DEF Orderly
<1>6. CASE E2E!ClosePublisher \/ E2E!PumpEnds \/ E2E!CloseRaw \/ E2E!JoinPump \/ E2E!Receive \/ E2E!ReadError
  BY <1>5, <1>6 DEF E2E!ClosePublisher, E2E!PumpEnds, E2E!CloseRaw, E2E!JoinPump, E2E!Receive,
     E2E!ReadError, E2E!sender, E2E!checked, E2E!life
<1>7. CASE UNCHANGED E2E!vars
  BY <1>5, <1>7 DEF E2E!vars, E2E!sender, E2E!checked, E2E!life
<1> QED
  BY <1>1, <1>2, <1>3, <1>4, <1>6, <1>7 DEF E2E!Next

(* An alarm has a cause: writes that overlap or fail, or a fault on the    *)
(* way.  What the counter's range is does not matter here.                 *)
THEOREM AlarmsAreCaused ==
  ASSUME Modulus \in Nat \ {0}, Earlier \in Nat
  PROVE  MCSpec => []AlarmsHaveCause
<1>1. MCInit => Orderly
  BY OrderlyInit DEF MCInit
<1>2. Orderly /\ [MCNext]_<<vars, e2eVars, side>> => Orderly'
  <2>1. [MCNext]_<<vars, e2eVars, side>> => [E2E!Next]_E2E!vars
    BY DEF MCNext, e2eVars, E2E!vars, E2E!sender, E2E!checked, E2E!life
  <2> QED
    BY <2>1, OrderlyStep
<1>3. Orderly => AlarmsHaveCause
  BY DEF Orderly, AlarmsHaveCause, E2E!AlarmsHaveCause
<1> QED
  BY <1>1, <1>2, <1>3, PTL DEF MCSpec
=============================================================================
