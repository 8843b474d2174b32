-------------------------- MODULE VirtioDiskProofs --------------------------
(***************************************************************************)
(* For any number of processes and descriptors, as long as kill() finds no *)
(* process in sleep(b): the driver does not panic, and virtio_disk_rw goes *)
(* on only when its request is finished.                                   *)
(*                                                                         *)
(* The invariant says that the chains of the requests are disjoint and not *)
(* free, and that an entry of a ring or of the device is the head of the   *)
(* chain of a process that sleeps on it, and is in one place only.         *)
(***************************************************************************)
EXTENDS VirtioDisk, TLAPS, FiniteSetTheorems

Chain(p) == {head[p], next[head[p]], next[next[head[p]]]}

\* The chain of a request ends after three descriptors and is not free; two
\* requests share none.
ChainsInv ==
  /\ \A p \in Active :
       /\ next[head[p]] \in Descs /\ next[next[head[p]]] \in Descs
       /\ next[next[next[head[p]]]] = NUM
       /\ Chain(p) \cap free = {}
  /\ \A p, q \in Active : p # q => Chain(p) \cap Chain(q) = {}

Distinct(s) == \A m, n \in 1 .. Len(s) : s[m] = s[n] => m = n

\* What is in the rings and in the device.
RingsInv ==
  /\ \A i \in Entries(avail) \cup inflight \cup Entries(used) :
       buf[i] \in Procs /\ pc[buf[i]] = "sleep_buf" /\ head[buf[i]] = i
  /\ \A i \in Entries(used) : status[i] = 0
  /\ Distinct(avail) /\ Distinct(used)
  /\ Entries(avail) \cap inflight = {}
  /\ Entries(avail) \cap Entries(used) = {}
  /\ inflight \cap Entries(used) = {}

IInv ==
  TypeOK /\ NeverPanics /\ ReturnsWhenFinished /\ NoForgottenWaiter /\ ChainsInv /\ RingsInv

-----------------------------------------------------------------------------
(* Rings.                                                                  *)

LEMMA AppendEntries ==
  ASSUME NEW s \in Seq(Descs), NEW i \in Descs
  PROVE  /\ Append(s, i) \in Seq(Descs)
         /\ Entries(Append(s, i)) = Entries(s) \cup {i}
         /\ i \notin Entries(s) /\ Distinct(s) => Distinct(Append(s, i))
<1>1. Append(s, i) \in Seq(Descs) /\ Len(Append(s, i)) = Len(s) + 1 /\ Len(s) \in Nat
  OBVIOUS
<1>2. \A k \in 1 .. Len(s) : Append(s, i)[k] = s[k]
  OBVIOUS
<1>3. Append(s, i)[Len(s) + 1] = i
  OBVIOUS
<1> HIDE DEF Descs
<1>4. Entries(Append(s, i)) = Entries(s) \cup {i}
  BY <1>1, <1>2, <1>3 DEF Entries
<1>5. i \notin Entries(s) /\ Distinct(s) => Distinct(Append(s, i))
  BY <1>1, <1>2, <1>3 DEF Entries, Distinct
<1> QED
  BY <1>1, <1>4, <1>5

LEMMA TailEntries ==
  ASSUME NEW s \in Seq(Descs), s # <<>>, Distinct(s)
  PROVE  /\ Tail(s) \in Seq(Descs) /\ Head(s) \in Descs
         /\ Entries(s) = Entries(Tail(s)) \cup {Head(s)}
         /\ Head(s) \notin Entries(Tail(s))
         /\ Distinct(Tail(s))
<1>1. Tail(s) \in Seq(Descs) /\ Head(s) = s[1] /\ Len(s) \in Nat \ {0} /\ Len(Tail(s)) = Len(s) - 1
  OBVIOUS
<1>2. \A k \in 1 .. Len(s) - 1 : Tail(s)[k] = s[k + 1]
  OBVIOUS
<1>3. Head(s) \in Descs
  BY <1>1
<1>4. Entries(Tail(s)) = {s[k] : k \in 2 .. Len(s)}
  <2>1. \A k \in 1 .. Len(s) - 1 : k + 1 \in 2 .. Len(s)
    BY <1>1
  <2>2. \A k \in 2 .. Len(s) : k - 1 \in 1 .. Len(s) - 1 /\ Tail(s)[k - 1] = s[k]
    BY <1>1, <1>2
  <2> QED
    BY <1>1, <1>2, <2>1, <2>2 DEF Entries
<1>5. Entries(s) = Entries(Tail(s)) \cup {Head(s)}
  <2>1. 1 .. Len(s) = {1} \cup 2 .. Len(s)
    BY <1>1
  <2> QED
    BY <1>1, <1>4, <2>1 DEF Entries
<1>6. Head(s) \notin Entries(Tail(s))
  BY <1>1, <1>4 DEF Distinct
<1>7. Distinct(Tail(s))
  <2> SUFFICES ASSUME NEW m \in 1 .. Len(s) - 1, NEW n \in 1 .. Len(s) - 1, Tail(s)[m] = Tail(s)[n]
               PROVE  m = n
    BY <1>1 DEF Distinct
  <2>1. m + 1 \in 1 .. Len(s) /\ n + 1 \in 1 .. Len(s) /\ s[m + 1] = s[n + 1]
    BY <1>1, <1>2
  <2>2. m + 1 = n + 1
    BY <2>1 DEF Distinct
  <2> QED
    BY <2>2
<1> QED
  BY <1>1, <1>3, <1>5, <1>6, <1>7

\* free_chain frees the three descriptors of a request.
LEMMA FreeChain ==
  ASSUME IInv, NEW p \in Active
  PROVE  free_chain(head[p]) = Chain(p) /\ Chain(p) \subseteq Descs
<1>1. NUM \notin Descs
  BY NumAssumption DEF Descs
<1>2. head[p] \in Descs /\ next[head[p]] \in Descs /\ next[next[head[p]]] \in Descs
  BY DEF IInv, TypeOK, ChainsInv, Active
<1> QED
  BY <1>1, <1>2 DEF free_chain, Chain

LEMMA InitIInv == Init => IInv
<1> SUFFICES ASSUME Init PROVE IInv
  OBVIOUS
<1>1. 0 \in Descs /\ 0 \in 0 .. NUM
  BY NumAssumption DEF Descs
<1>2. TypeOK
  BY <1>1 DEF Init, TypeOK, PCs
<1>3. Active = {} /\ Entries(avail) = {} /\ Entries(used) = {} /\ inflight = {}
  BY DEF Init, Active, Entries
<1>4. RingsInv
  BY <1>3 DEF Init, RingsInv, Distinct
<1>5. ChainsInv
  BY <1>3 DEF ChainsInv
<1> QED
  BY <1>2, <1>4, <1>5 DEF Init, IInv, NeverPanics, ReturnsWhenFinished, NoForgottenWaiter

-----------------------------------------------------------------------------
(* Steps.                                                                  *)

\* A new request takes descriptors that are free, so in no chain and no ring.
LEMMA SubmitKeeps ==
  ASSUME NEW p \in Procs, IInv, rw_submit(p)
  PROVE  IInv'
<1> USE DEF IInv
<1>0. pc[p] \in {"out", "woken_free"} /\ p \notin Active
  BY DEF rw_submit, AtAlloc, Active
<1>1. PICK i \in free, j \in free, k \in free :
        /\ i # j /\ i # k /\ j # k
        /\ free' = free \ {i, j, k}
        /\ next' = [next EXCEPT ![i] = j, ![j] = k, ![k] = NUM]
        /\ buf' = [buf EXCEPT ![i] = p]
        /\ status' = [status EXCEPT ![i] = 255]
        /\ avail' = Append(avail, i)
        /\ head' = [head EXCEPT ![p] = i]
  <2> HIDE DEF IInv
  <2> DEFINE Taken(i, j, k) ==
        /\ free' = free \ {i, j, k}
        /\ next' = [next EXCEPT ![i] = j, ![j] = k, ![k] = NUM]
        /\ buf' = [buf EXCEPT ![i] = p]
        /\ status' = [status EXCEPT ![i] = 255]
        /\ avail' = Append(avail, i)
        /\ head' = [head EXCEPT ![p] = i]
  <2>1. \E i \in alloc_desc(free) : \E j \in alloc_desc(free \ {i}) :
          \E k \in alloc_desc(free \ {i, j}) : Taken(i, j, k)
    BY Zenon DEF rw_submit
  <2> HIDE DEF Taken
  <2>2. PICK i \in alloc_desc(free) : \E j \in alloc_desc(free \ {i}) :
          \E k \in alloc_desc(free \ {i, j}) : Taken(i, j, k)
    BY <2>1
  <2>3. PICK j \in alloc_desc(free \ {i}) : \E k \in alloc_desc(free \ {i, j}) : Taken(i, j, k)
    BY <2>2
  <2>4. PICK k \in alloc_desc(free \ {i, j}) : Taken(i, j, k)
    BY <2>3
  <2>5. i \in free /\ j \in free /\ k \in free /\ i # j /\ i # k /\ j # k
    BY DEF alloc_desc
  <2> QED
    BY <2>4, <2>5, Zenon DEF Taken
<1>2. /\ bdisk' = [bdisk EXCEPT ![p] = 1] /\ pc' = [pc EXCEPT ![p] = "sleep_buf"]
      /\ used' = used /\ inflight' = inflight /\ irq' = irq /\ intr' = intr
      /\ panicked' = panicked
  BY DEF rw_submit, device
<1>3. i \in Descs /\ j \in Descs /\ k \in Descs /\ NUM \in 0 .. NUM /\ Descs \subseteq 0 .. NUM
  BY NumAssumption DEF TypeOK, Descs
<1>a. \A q \in Procs : /\ pc'[q] = IF q = p THEN "sleep_buf" ELSE pc[q]
                       /\ head'[q] = IF q = p THEN i ELSE head[q]
                       /\ bdisk'[q] = IF q = p THEN 1 ELSE bdisk[q]
  BY <1>1, <1>2 DEF TypeOK
<1>b. \A d \in Descs : next'[d] = IF d = i THEN j ELSE IF d = j THEN k ELSE IF d = k THEN NUM ELSE next[d]
  BY <1>1, <1>3 DEF TypeOK
<1>c. \A d \in Descs : /\ buf'[d] = IF d = i THEN p ELSE buf[d]
                       /\ status'[d] = IF d = i THEN 255 ELSE status[d]
  BY <1>1, <1>3 DEF TypeOK
<1>d. Entries(avail') = Entries(avail) \cup {i} /\ avail' \in Seq(Descs)
  BY <1>1, <1>3, AppendEntries DEF TypeOK
<1>4. TypeOK'
  <2>1. next' \in [Descs -> 0 .. NUM]
    BY <1>1, <1>3 DEF TypeOK
  <2>2. buf' \in [Descs -> Procs \cup {NoBuf}] /\ head' \in [Procs -> Descs] /\ free' \subseteq Descs
    BY <1>1, <1>3 DEF TypeOK
  <2>3. status' \in [Descs -> {0, 255}] /\ bdisk' \in [Procs -> {0, 1}] /\ pc' \in [Procs -> PCs]
    BY <1>1, <1>2 DEF TypeOK, PCs
  <2> QED
    BY <1>2, <1>d, <2>1, <2>2, <2>3 DEF TypeOK
<1>5. ReturnsWhenFinished'
  BY <1>a DEF ReturnsWhenFinished
<1>6. NoForgottenWaiter'
  <2>1. Descs = 0 .. NUM - 1 /\ IsFiniteSet(Descs)
    BY FS_Interval, NumAssumption DEF Descs
  <2>2. IsFiniteSet(free) /\ free' \subseteq free
    BY <1>1, <2>1, FS_Subset DEF TypeOK
  <2>3. Cardinality(free') <= Cardinality(free) /\ Cardinality(free') \in Nat /\ Cardinality(free) \in Nat
    BY <2>2, FS_Subset, FS_CardinalityType
  <2> QED
    BY <1>a, <2>3 DEF NoForgottenWaiter
<1>7. Active' = Active \cup {p}
  BY <1>a DEF Active
<1>8. \A q \in Active : Chain(q) \subseteq Descs /\ i \notin Chain(q) /\ j \notin Chain(q) /\ k \notin Chain(q)
  BY <1>1, FreeChain DEF ChainsInv
<1>9. \A q \in Active :
        /\ q # p /\ head'[q] = head[q] /\ next'[head[q]] = next[head[q]]
        /\ next'[next[head[q]]] = next[next[head[q]]]
        /\ next'[next[next[head[q]]]] = next[next[next[head[q]]]]
  BY <1>0, <1>8, <1>a, <1>b DEF Chain, Active
<1>10. \A q \in Active : Chain(q)' = Chain(q)
  BY <1>9 DEF Chain
<1>11. /\ head'[p] = i /\ next'[head'[p]] = j /\ next'[next'[head'[p]]] = k
       /\ next'[next'[next'[head'[p]]]] = NUM
  <2>1. next'[i] = j /\ next'[j] = k /\ next'[k] = NUM
    BY <1>1, <1>3, <1>b
  <2>2. head'[p] = i
    BY <1>a
  <2> QED
    BY <2>1, <2>2
<1>12. Chain(p)' = {i, j, k}
  BY <1>11 DEF Chain
<1>13. ChainsInv'
  <2>1. ASSUME NEW q \in Active'
        PROVE  /\ next'[head'[q]] \in Descs /\ next'[next'[head'[q]]] \in Descs
               /\ next'[next'[next'[head'[q]]]] = NUM
               /\ Chain(q)' \cap free' = {}
    <3>1. CASE q = p
      BY <1>1, <1>3, <1>11, <1>12, <3>1
    <3>2. CASE q \in Active
      <4>1. Chain(q)' = Chain(q) /\ Chain(q) \cap free = {}
        BY <1>10, <3>2 DEF ChainsInv
      <4>2. Chain(q)' \cap free' = {}
        BY <1>1, <4>1
      <4>3. /\ next[head[q]] \in Descs /\ next[next[head[q]]] \in Descs
            /\ next[next[next[head[q]]]] = NUM
        BY <3>2 DEF ChainsInv
      <4>4. /\ next'[head'[q]] = next[head[q]]
            /\ next'[next'[head'[q]]] = next[next[head[q]]]
        BY <1>9, <3>2
      <4>5. next'[next'[next'[head'[q]]]] = next[next[next[head[q]]]]
        BY <1>9, <3>2, <4>4
      <4> QED
        BY <4>2, <4>3, <4>4, <4>5
    <3> QED
      BY <1>7, <3>1, <3>2
  <2>2. ASSUME NEW q \in Active', NEW r \in Active', q # r PROVE Chain(q)' \cap Chain(r)' = {}
    <3>1. CASE q \in Active /\ r \in Active
      BY <1>10, <2>2, <3>1 DEF ChainsInv
    <3>2. CASE q = p /\ r \in Active
      BY <1>8, <1>10, <1>12, <3>2
    <3>3. CASE q \in Active /\ r = p
      BY <1>8, <1>10, <1>12, <3>3
    <3> QED
      BY <1>7, <2>2, <3>1, <3>2, <3>3
  <2> QED
    BY <2>1, <2>2 DEF ChainsInv
<1>14. RingsInv'
  <2>1. \A e \in Entries(avail) \cup inflight \cup Entries(used) : e \in Descs /\ e # i /\ buf[e] # p
    <3> SUFFICES ASSUME NEW e \in Entries(avail) \cup inflight \cup Entries(used)
                 PROVE  e \in Descs /\ e # i /\ buf[e] # p
      OBVIOUS
    <3>1. buf[e] \in Active /\ head[buf[e]] = e /\ buf[e] # p
      BY <1>0 DEF RingsInv, Active
    <3> QED
      BY <1>8, <3>1 DEF Chain
  <2>2. \A e \in Entries(avail) \cup inflight \cup Entries(used) :
          buf'[e] \in Procs /\ pc'[buf'[e]] = "sleep_buf" /\ head'[buf'[e]] = e
    BY <1>a, <1>c, <2>1 DEF RingsInv
  <2>3. buf'[i] \in Procs /\ pc'[buf'[i]] = "sleep_buf" /\ head'[buf'[i]] = i
    BY <1>3, <1>a, <1>c
  <2>4. \A e \in Entries(used) : status'[e] = 0
    BY <1>c, <2>1 DEF RingsInv
  <2>5. Distinct(avail')
    BY <1>1, <1>3, <2>1, AppendEntries DEF RingsInv, TypeOK
  <2> QED
    BY <1>2, <1>d, <2>1, <2>2, <2>3, <2>4, <2>5 DEF RingsInv
<1> QED
  BY <1>2, <1>4, <1>5, <1>6, <1>13, <1>14 DEF NeverPanics

\* Waiting for descriptors.
LEMMA WaitKeeps ==
  ASSUME NEW p \in Procs, IInv, rw_wait(p)
  PROVE  IInv'
<1> USE DEF IInv
<1>0. pc[p] \in {"out", "woken_free"} /\ Cardinality(free) < 3
  BY DEF rw_wait, AtAlloc
<1>1. /\ UNCHANGED <<free, next, buf, status, avail, used, inflight, irq, intr, bdisk, head, panicked>>
      /\ pc' = [IF free = {} THEN pc ELSE Wakeup(pc, "sleep_free", "woken_free") EXCEPT ![p] = "sleep_free"]
  BY DEF rw_wait, tables, rings, device
<1>2. \A q \in Procs : pc[q] \in {"sleep_buf", "woken_buf"} => pc'[q] = pc[q]
  BY <1>0, <1>1 DEF Wakeup, TypeOK
<1>3. \A q \in Procs : pc'[q] \in {"sleep_buf", "woken_buf"} => pc'[q] = pc[q]
  BY <1>0, <1>1 DEF Wakeup, TypeOK
<1>4. pc' \in [Procs -> PCs]
  BY <1>1 DEF TypeOK, PCs, Wakeup
<1>5. Active' = Active
  BY <1>2, <1>3 DEF Active
<1>6. TypeOK'
  BY <1>1, <1>4 DEF TypeOK
<1>7. ChainsInv'
  BY <1>1, <1>5 DEF ChainsInv, Chain
<1>8. RingsInv'
  BY <1>1, <1>2 DEF RingsInv
<1>9. ReturnsWhenFinished' /\ NoForgottenWaiter' /\ NeverPanics'
  BY <1>0, <1>1, <1>3 DEF ReturnsWhenFinished, NoForgottenWaiter, NeverPanics
<1> QED
  BY <1>6, <1>7, <1>8, <1>9

\* A request that is finished returns its chain, which nobody else has.
LEMMA ReturnKeeps ==
  ASSUME NEW p \in Procs, IInv, rw_return(p)
  PROVE  IInv'
<1> USE DEF IInv
<1>0. pc[p] = "woken_buf" /\ p \in Active
  BY DEF rw_return, Active
<1>1. free_chain(head[p]) = Chain(p) /\ Chain(p) \subseteq Descs /\ Chain(p) \cap free = {}
  BY <1>0, FreeChain DEF ChainsInv
<1>2. /\ free' = free \cup Chain(p)
      /\ next' = [i \in Descs |-> IF i \in Chain(p) THEN 0 ELSE next[i]]
      /\ panicked' = FALSE
      /\ buf' = [buf EXCEPT ![head[p]] = NoBuf]
      /\ pc' = [Wakeup(pc, "sleep_free", "woken_free") EXCEPT ![p] = "out"]
      /\ UNCHANGED <<status, avail, used, inflight, irq, intr, bdisk, head>>
  BY <1>1 DEF rw_return, rings, device
<1>3. \A q \in Procs : /\ q # p /\ pc[q] \in {"sleep_buf", "woken_buf"} => pc'[q] = pc[q]
                       /\ pc'[q] \in {"sleep_buf", "woken_buf"} => q # p /\ pc'[q] = pc[q]
                       /\ pc'[q] # "sleep_free"
  BY <1>2 DEF Wakeup, TypeOK
<1>4. Active' = Active \ {p}
  BY <1>3 DEF Active
<1>5. TypeOK'
  <2>1. next' \in [Descs -> 0 .. NUM]
    BY <1>2, NumAssumption DEF TypeOK
  <2>2. buf' \in [Descs -> Procs \cup {NoBuf}] /\ free' \subseteq Descs
    BY <1>1, <1>2 DEF TypeOK
  <2>3. pc' \in [Procs -> PCs]
    BY <1>2 DEF TypeOK, PCs, Wakeup
  <2> QED
    BY <1>2, <2>1, <2>2, <2>3 DEF TypeOK
<1>6. ASSUME NEW q \in Active, q # p
      PROVE  /\ next'[head[q]] = next[head[q]]
             /\ next'[next[head[q]]] = next[next[head[q]]]
             /\ next'[next[next[head[q]]]] = next[next[next[head[q]]]]
             /\ Chain(q) \cap free' = {}
  <2>1. Chain(q) \cap Chain(p) = {} /\ Chain(q) \cap free = {} /\ Chain(q) \subseteq Descs
    BY <1>0, <1>6, FreeChain DEF ChainsInv
  <2> QED
    BY <1>2, <2>1 DEF Chain
<1>7. ChainsInv'
  <2>1. ASSUME NEW q \in Active'
        PROVE  /\ q \in Active
               /\ next'[head'[q]] = next[head[q]] /\ next'[next'[head'[q]]] = next[next[head[q]]]
               /\ next'[next'[next'[head'[q]]]] = NUM
               /\ Chain(q)' = Chain(q)
    <3>1. q \in Active /\ q # p /\ head'[q] = head[q] /\ next[next[next[head[q]]]] = NUM
      BY <1>2, <1>4 DEF ChainsInv
    <3>2. next'[head'[q]] = next[head[q]] /\ next'[next'[head'[q]]] = next[next[head[q]]]
      BY <1>6, <3>1
    <3>3. next'[next'[next'[head'[q]]]] = NUM
      BY <1>6, <3>1, <3>2
    <3> QED
      BY <3>1, <3>2, <3>3 DEF Chain
  <2>2. \A q \in Active' : Chain(q)' \cap free' = {}
    BY <1>4, <1>6, <2>1
  <2>3. \A q \in Active' : next[head[q]] \in Descs /\ next[next[head[q]]] \in Descs
    BY <2>1 DEF ChainsInv
  <2>4. \A q, r \in Active' : q # r => Chain(q)' \cap Chain(r)' = {}
    BY <2>1 DEF ChainsInv
  <2> QED
    BY <2>1, <2>2, <2>3, <2>4 DEF ChainsInv
<1>8. RingsInv'
  <2>1. \A e \in Entries(avail) \cup inflight \cup Entries(used) : e # head[p] /\ e \in Descs
    <3> SUFFICES ASSUME NEW e \in Entries(avail) \cup inflight \cup Entries(used)
                 PROVE  e # head[p] /\ e \in Descs
      OBVIOUS
    <3>1. buf[e] \in Active /\ head[buf[e]] = e /\ buf[e] # p
      BY <1>0 DEF RingsInv, Active
    <3>2. Chain(buf[e]) \cap Chain(p) = {} /\ Chain(buf[e]) \subseteq Descs
      BY <1>0, <3>1, FreeChain DEF ChainsInv
    <3>3. e \in Chain(buf[e]) /\ head[p] \in Chain(p)
      BY <3>1 DEF Chain
    <3> QED
      BY <3>2, <3>3
  <2>2. \A e \in Entries(avail) \cup inflight \cup Entries(used) : buf'[e] = buf[e] /\ buf[e] # p
    BY <1>0, <1>2, <2>1 DEF TypeOK, RingsInv
  <2> QED
    BY <1>2, <1>3, <2>2 DEF RingsInv
<1>9. ReturnsWhenFinished' /\ NoForgottenWaiter' /\ NeverPanics'
  BY <1>2, <1>3 DEF ReturnsWhenFinished, NoForgottenWaiter, NeverPanics
<1> QED
  BY <1>5, <1>7, <1>8, <1>9

\* The handler finds a struct buf with status 0, and wakes its process.
LEMMA IntrKeeps ==
  ASSUME IInv, virtio_disk_intr
  PROVE  IInv'
<1> USE DEF IInv
<1>1. CASE intr_start \/ intr_end
  <2>1. /\ UNCHANGED <<free, next, buf, status, avail, used, inflight, bdisk, pc, head, panicked>>
        /\ irq' \in BOOLEAN /\ intr' \in BOOLEAN
    BY <1>1 DEF intr_start, intr_end, tables, rings, device, TypeOK
  <2>2. Active' = Active
    BY <2>1 DEF Active
  <2>3. TypeOK'
    BY <2>1 DEF TypeOK
  <2>4. ChainsInv' /\ RingsInv'
    BY <2>1, <2>2 DEF ChainsInv, Chain, RingsInv
  <2>5. ReturnsWhenFinished' /\ NoForgottenWaiter' /\ NeverPanics'
    BY <2>1 DEF ReturnsWhenFinished, NoForgottenWaiter, NeverPanics
  <2> QED
    BY <2>3, <2>4, <2>5
<1>2. CASE intr_step
  <2> DEFINE i == Head(used)
             p == buf[i]
  <2>1. /\ used # <<>> /\ Tail(used) \in Seq(Descs) /\ i \in Descs
        /\ Entries(used) = Entries(Tail(used)) \cup {i} /\ i \notin Entries(Tail(used))
        /\ Distinct(Tail(used))
    BY <1>2, TailEntries DEF intr_step, TypeOK, RingsInv
  <2>2. status[i] = 0 /\ p \in Procs /\ pc[p] = "sleep_buf" /\ head[p] = i /\ p # NoBuf
    BY <2>1, ProcsAssumption DEF RingsInv
  <2>3. /\ bdisk' = [bdisk EXCEPT ![p] = 0]
        /\ pc' = [pc EXCEPT ![p] = "woken_buf"]
        /\ used' = Tail(used)
        /\ UNCHANGED <<free, next, buf, status, avail, inflight, irq, intr, head, panicked>>
    BY <1>2, <2>2 DEF intr_step, Consumed, tables, device, TypeOK
  <2> HIDE DEF i, p
  <2>4. \A q \in Procs : /\ pc'[q] = IF q = p THEN "woken_buf" ELSE pc[q]
                         /\ bdisk'[q] = IF q = p THEN 0 ELSE bdisk[q]
    BY <2>3 DEF TypeOK
  <2>5. Active' = Active
    BY <2>2, <2>4 DEF Active
  <2>6. TypeOK'
    <3>1. bdisk' \in [Procs -> {0, 1}] /\ pc' \in [Procs -> PCs]
      BY <2>3 DEF TypeOK, PCs
    <3> QED
      BY <2>1, <2>3, <3>1 DEF TypeOK
  <2>7. ChainsInv'
    BY <2>3, <2>5 DEF ChainsInv, Chain
  <2>8. RingsInv'
    <3>1. \A e \in Entries(avail) \cup inflight \cup Entries(Tail(used)) :
            e # i /\ e \in Entries(avail) \cup inflight \cup Entries(used)
      BY <2>1 DEF RingsInv
    <3>2. \A e \in Entries(avail) \cup inflight \cup Entries(Tail(used)) :
            buf[e] \in Procs /\ buf[e] # p /\ pc[buf[e]] = "sleep_buf" /\ head[buf[e]] = e
      BY <2>2, <3>1 DEF RingsInv
    <3> QED
      BY <2>1, <2>3, <2>4, <3>2 DEF RingsInv
  <2>9. ReturnsWhenFinished' /\ NoForgottenWaiter' /\ NeverPanics'
    BY <2>3, <2>4 DEF ReturnsWhenFinished, NoForgottenWaiter, NeverPanics
  <2> QED
    BY <2>6, <2>7, <2>8, <2>9
<1> QED
  BY <1>1, <1>2 DEF virtio_disk_intr

\* kill() of a process that waits for descriptors.
LEMMA KillKeeps ==
  ASSUME "sleep_buf" \notin Kills, NEW p \in Procs, IInv, kill(p)
  PROVE  IInv'
<1> USE DEF IInv
<1>1. /\ pc[p] = "sleep_free" /\ pc' = [pc EXCEPT ![p] = "woken_free"]
      /\ UNCHANGED <<free, next, buf, status, avail, used, inflight, irq, intr, bdisk, head, panicked>>
  <2>1. pc[p] = "sleep_free"
    BY KillsAssumption DEF kill
  <2> QED
    BY <2>1 DEF kill, tables, rings, device, TypeOK
<1>2. \A q \in Procs : pc'[q] = IF q = p THEN "woken_free" ELSE pc[q]
  BY <1>1 DEF TypeOK
<1>3. Active' = Active
  BY <1>1, <1>2 DEF Active
<1>4. TypeOK'
  BY <1>1 DEF TypeOK, PCs
<1>5. ChainsInv'
  BY <1>1, <1>3 DEF ChainsInv, Chain
<1>6. RingsInv'
  BY <1>1, <1>2 DEF RingsInv
<1>7. ReturnsWhenFinished' /\ NoForgottenWaiter' /\ NeverPanics'
  BY <1>1, <1>2 DEF ReturnsWhenFinished, NoForgottenWaiter, NeverPanics
<1> QED
  BY <1>4, <1>5, <1>6, <1>7

\* The device moves an entry from one place to the next.
LEMMA DeviceKeeps ==
  ASSUME IInv, Device
  PROVE  IInv'
<1> USE DEF IInv
<1>1. CASE dev_take
  <2> DEFINE i == Head(avail)
  <2>1. /\ Tail(avail) \in Seq(Descs) /\ i \in Descs
        /\ Entries(avail) = Entries(Tail(avail)) \cup {i} /\ i \notin Entries(Tail(avail))
        /\ Distinct(Tail(avail))
    BY <1>1, TailEntries DEF dev_take, TypeOK, RingsInv
  <2>2. /\ inflight' = inflight \cup {i} /\ avail' = Tail(avail)
        /\ UNCHANGED <<free, next, buf, status, used, irq, intr, bdisk, pc, head, panicked>>
    BY <1>1 DEF dev_take, tables
  <2> HIDE DEF i
  <2>3. Active' = Active
    BY <2>2 DEF Active
  <2>4. TypeOK'
    BY <2>1, <2>2 DEF TypeOK
  <2>5. ChainsInv'
    BY <2>2, <2>3 DEF ChainsInv, Chain
  <2>6. RingsInv'
    BY <2>1, <2>2 DEF RingsInv
  <2>7. ReturnsWhenFinished' /\ NoForgottenWaiter' /\ NeverPanics'
    BY <2>2 DEF ReturnsWhenFinished, NoForgottenWaiter, NeverPanics
  <2> QED
    BY <2>4, <2>5, <2>6, <2>7
<1>2. ASSUME NEW i \in Descs, dev_complete(i) PROVE IInv'
  <2>1. /\ i \in inflight /\ inflight' = inflight \ {i} /\ used' = Append(used, i)
        /\ status' = [status EXCEPT ![i] = 0] /\ irq' = TRUE
        /\ UNCHANGED <<free, next, buf, avail, intr, bdisk, pc, head, panicked>>
    BY <1>2 DEF dev_complete
  <2>2. i \notin Entries(used)
    BY <2>1 DEF RingsInv
  <2>3. used' \in Seq(Descs) /\ Entries(used') = Entries(used) \cup {i} /\ Distinct(used')
    BY <2>1, <2>2, AppendEntries DEF TypeOK, RingsInv
  <2>4. Active' = Active
    BY <2>1 DEF Active
  <2>5. TypeOK'
    <3>1. status' \in [Descs -> {0, 255}]
      BY <2>1 DEF TypeOK
    <3>2. irq' \in BOOLEAN
      BY <2>1
    <3> QED
      BY <2>1, <2>3, <3>1, <3>2 DEF TypeOK
  <2>6. ChainsInv'
    BY <2>1, <2>4 DEF ChainsInv, Chain
  <2>7. RingsInv'
    <3>1. \A e \in Entries(used) \cup {i} : status'[e] = 0
      <4>1. Entries(used) \subseteq Descs
        BY DEF Entries, TypeOK
      <4> QED
        BY <2>1, <4>1 DEF TypeOK, RingsInv
    <3> QED
      BY <2>1, <2>3, <3>1 DEF RingsInv
  <2>8. ReturnsWhenFinished' /\ NoForgottenWaiter' /\ NeverPanics'
    BY <2>1 DEF ReturnsWhenFinished, NoForgottenWaiter, NeverPanics
  <2> QED
    BY <2>5, <2>6, <2>7, <2>8
<1> QED
  BY <1>1, <1>2 DEF Device

-----------------------------------------------------------------------------

LEMMA StepKeeps ==
  ASSUME "sleep_buf" \notin Kills
  PROVE  IInv /\ [Next]_vars => IInv'
<1> SUFFICES ASSUME IInv, [Next]_vars PROVE IInv'
  OBVIOUS
<1>1. CASE Next
  BY <1>1, SubmitKeeps, WaitKeeps, ReturnKeeps, IntrKeeps, KillKeeps, DeviceKeeps DEF Next, rw
<1>2. CASE UNCHANGED vars
  BY <1>2 DEF vars, IInv, TypeOK, NeverPanics, ReturnsWhenFinished, NoForgottenWaiter, ChainsInv,
     Chain, Active, RingsInv
<1> QED
  BY <1>1, <1>2

\* The driver reaches none of its panics ("virtio_disk_intr status", "free_desc")
\* and no null b, with any number of processes and descriptors.
THEOREM DriverNeverPanics ==
  ASSUME "sleep_buf" \notin Kills
  PROVE  Spec => []NeverPanics
<1>1. IInv => NeverPanics
  BY DEF IInv
<1> QED
  BY <1>1, InitIInv, StepKeeps, PTL DEF Spec

\* virtio_disk_rw returns only from a request that the handler has marked finished.
THEOREM DriverReturnsWhenFinished ==
  ASSUME "sleep_buf" \notin Kills
  PROVE  Spec => []ReturnsWhenFinished
<1>1. IInv => ReturnsWhenFinished
  BY DEF IInv
<1> QED
  BY <1>1, InitIInv, StepKeeps, PTL DEF Spec

\* Nobody sleeps on free[0] while there are descriptors for a request.
THEOREM DriverForgetsNobody ==
  ASSUME "sleep_buf" \notin Kills
  PROVE  Spec => []NoForgottenWaiter
<1>1. IInv => NoForgottenWaiter
  BY DEF IInv
<1> QED
  BY <1>1, InitIInv, StepKeeps, PTL DEF Spec
=============================================================================
