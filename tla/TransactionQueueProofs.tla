----------------------- MODULE TransactionQueueProofs -----------------------
(***************************************************************************)
(* The offline queue of the app, for any number of requests, attempts and  *)
(* restarts: which payments can be made twice, and what the mark           *)
(* "processing" means.                                                     *)
(***************************************************************************)
EXTENDS TransactionQueue, WellFoundedInduction, TLAPS

Tx == [id : Txs, attempts : Nat, status : {"pending", "processing"}]
Item == [id : Txs, attempts : Nat]

\* No transaction is in a list twice.
Distinct(q) == \A i, j \in DOMAIN q : q[i].id = q[j].id => i = j

-----------------------------------------------------------------------------
(* Filtering a list *)

\* Of a set of numbers that is not empty one is the least.  The provers cannot
\* use induction theorems; arguments below take a least counterexample.
LEMMA LeastNumber ==
  ASSUME NEW S \in SUBSET Nat, S # {}
  PROVE  \E m \in S : \A y \in S : ~(y < m)
  <1> DEFINE R == OpToRel(<, Nat)
  <1>1. IsWellFoundedOn(R, Nat)
    BY NatLessThanWellFounded
  <1>2. PICK m \in S : \A y \in S : ~(<<y, m>> \in R)
    <2> HIDE DEF R
    <2> QED  BY <1>1, WFMin
  <1>3. \A y \in S : ~(y < m)
    BY <1>2 DEF OpToRel
  <1> QED  BY <1>3

\* g holds what the loop of a filter has kept after each of the first n steps.
Filters(g, q, S, n) ==
  g = [i \in 0..n |->
         IF i = 0 THEN <<>>
         ELSE IF q[i].id \in S THEN g[i - 1] ELSE Append(g[i - 1], q[i])]

\* There is such a function for every number of steps.
LEMMA FilterExists ==
  ASSUME NEW q, NEW S, NEW n \in Nat
  PROVE  \E g : Filters(g, q, S, n)
  <1> DEFINE Bad == {k \in Nat : ~\E g : Filters(g, q, S, k)}
  <1>1. SUFFICES Bad = {}
    OBVIOUS
  <1>2. SUFFICES ASSUME Bad # {} PROVE FALSE
    OBVIOUS
  <1>3. PICK m \in Bad : \A y \in Bad : ~(y < m)
    <2>1. Bad \in SUBSET Nat
      OBVIOUS
    <2> HIDE DEF Bad
    <2> QED  BY <1>2, <2>1, LeastNumber
  <1>4. m \in Nat
    OBVIOUS
  <1>5. CASE m = 0
    <2> DEFINE h == [i \in 0..0 |-> <<>>]
    <2>1. Filters(h, q, S, 0)
      BY DEF Filters
    <2> QED  BY <1>5, <2>1
  <1>6. CASE m # 0
    <2>1. m - 1 \in Nat /\ m - 1 < m
      BY <1>4, <1>6
    <2>2. PICK g : Filters(g, q, S, m - 1)
      BY <1>3, <2>1
    <2> DEFINE last == IF q[m].id \in S THEN g[m - 1] ELSE Append(g[m - 1], q[m])
               h == [i \in 0..m |-> IF i = m THEN last ELSE g[i]]
               e(i) == IF i = 0 THEN <<>>
                       ELSE IF q[i].id \in S THEN h[i - 1]
                                             ELSE Append(h[i - 1], q[i])
    <2>3. ASSUME NEW i \in 0..m PROVE h[i] = e(i)
      <3>1. CASE i = m
        <4>1. h[m] = last /\ h[m - 1] = g[m - 1]
          BY <1>4, <1>6
        <4> HIDE DEF h
        <4> QED  BY <1>6, <3>1, <4>1
      <3>2. CASE i # m
        <4>1. i \in 0..(m - 1)
          BY <1>4, <3>2
        <4>2. g[i] = IF i = 0 THEN <<>>
                     ELSE IF q[i].id \in S THEN g[i - 1]
                                           ELSE Append(g[i - 1], q[i])
          BY <2>2, <4>1 DEF Filters
        <4>3. h[i] = g[i] /\ (i # 0 => h[i - 1] = g[i - 1])
          BY <1>4, <4>1
        <4> HIDE DEF h
        <4> QED  BY <4>2, <4>3
      <3> QED  BY <3>1, <3>2
    <2>4. h = [i \in 0..m |-> e(i)]
      <3>1. h = [i \in 0..m |-> h[i]]
        OBVIOUS
      <3> HIDE DEF h, e
      <3> QED  BY <2>3, <3>1
    <2>5. Filters(h, q, S, m)
      <3> HIDE DEF h
      <3> QED  BY <2>4 DEF Filters
    <2> QED  BY <2>5
  <1> QED  BY <1>5, <1>6

\* So the function in the definition of Without is one.
LEMMA WithoutFilters ==
  ASSUME NEW q, Len(q) \in Nat, NEW S
  PROVE  \E g : Filters(g, q, S, Len(q)) /\ Without(q, S) = g[Len(q)]
  <1> DEFINE kept == CHOOSE g : Filters(g, q, S, Len(q))
  <1>1. Filters(kept, q, S, Len(q))
    BY FilterExists
  <1>2. Without(q, S) = kept[Len(q)]
    BY DEF Without, Filters
  <1> QED  BY <1>1, <1>2

\* What a filter keeps: transactions of the list that are not in S, each of
\* them once if the list has each once.
Sifted(r, q, S, n) ==
  /\ r \in Seq(Tx)
  /\ \A j \in 1..Len(r) : \E i \in 1..n : r[j] = q[i] /\ q[i].id \notin S
  /\ Distinct(q) => Distinct(r)

\* One more transaction is passed over or appended.
LEMMA SiftOne ==
  ASSUME NEW q \in Seq(Tx), NEW S, NEW n \in 1..Len(q), NEW r,
         Sifted(r, q, S, n - 1)
  PROVE  IF q[n].id \in S THEN Sifted(r, q, S, n)
                          ELSE Sifted(Append(r, q[n]), q, S, n)
  <1>1. r \in Seq(Tx) /\ q[n] \in Tx
    BY DEF Sifted
  <1>2. \A j \in 1..Len(r) : \E i \in 1..(n - 1) : r[j] = q[i] /\ q[i].id \notin S
    BY DEF Sifted
  <1>3. \A j \in 1..Len(r) : \E i \in 1..n : r[j] = q[i] /\ q[i].id \notin S
    BY <1>2
  <1>4. CASE q[n].id \in S
    BY <1>1, <1>3, <1>4 DEF Sifted
  <1>5. CASE q[n].id \notin S
    <2>1. PICK a : a = Append(r, q[n])
      OBVIOUS
    <2>2. /\ a \in Seq(Tx) /\ Len(a) = Len(r) + 1
          /\ \A j \in 1..Len(a) : a[j] = IF j <= Len(r) THEN r[j] ELSE q[n]
      BY <1>1, <2>1
    <2>3. \A j \in 1..Len(a) : \E i \in 1..n : a[j] = q[i] /\ q[i].id \notin S
      <3> SUFFICES ASSUME NEW j \in 1..Len(a)
                   PROVE  \E i \in 1..n : a[j] = q[i] /\ q[i].id \notin S
        OBVIOUS
      <3>1. CASE j <= Len(r)
        BY <1>1, <1>3, <2>2, <3>1
      <3>2. CASE ~(j <= Len(r))
        BY <1>5, <2>2, <3>2
      <3> QED  BY <3>1, <3>2
    <2>4. ASSUME Distinct(q) PROVE Distinct(a)
      <3>1. Distinct(r)
        BY <2>4 DEF Sifted
      <3>2. \A j \in 1..Len(r) : r[j].id # q[n].id
        <4> SUFFICES ASSUME NEW j \in 1..Len(r), r[j].id = q[n].id PROVE FALSE
          OBVIOUS
        <4>1. PICK i \in 1..(n - 1) : r[j] = q[i]
          BY <1>2
        <4>2. i \in DOMAIN q /\ n \in DOMAIN q /\ i # n
          BY <4>1
        <4> QED  BY <2>4, <4>1, <4>2 DEF Distinct
      <3>3. SUFFICES ASSUME NEW j \in DOMAIN a, NEW k \in DOMAIN a,
                            a[j].id = a[k].id
                     PROVE  j = k
        BY DEF Distinct
      <3>4. j \in 1..Len(a) /\ k \in 1..Len(a) /\ Len(r) \in Nat
        BY <1>1, <2>2
      <3>5. CASE j <= Len(r) /\ k <= Len(r)
        <4>1. j \in DOMAIN r /\ k \in DOMAIN r
          BY <1>1, <3>4, <3>5
        <4>2. a[j] = r[j] /\ a[k] = r[k]
          BY <2>2, <3>4, <3>5
        <4> QED  BY <3>1, <3>3, <4>1, <4>2 DEF Distinct
      <3>6. CASE ~(j <= Len(r)) /\ ~(k <= Len(r))
        BY <2>2, <3>4, <3>6
      <3>7. CASE j <= Len(r) /\ ~(k <= Len(r))
        BY <2>2, <3>2, <3>3, <3>4, <3>7
      <3>8. CASE ~(j <= Len(r)) /\ k <= Len(r)
        BY <2>2, <3>2, <3>3, <3>4, <3>8
      <3> QED  BY <3>5, <3>6, <3>7, <3>8
    <2> QED  BY <1>5, <2>1, <2>2, <2>3, <2>4 DEF Sifted
  <1> QED  BY <1>4, <1>5

\* Without keeps the type and the distinctness of a list.
LEMMA WithoutSifts ==
  ASSUME NEW q \in Seq(Tx), NEW S
  PROVE  Sifted(Without(q, S), q, S, Len(q))
  <1>0. Len(q) \in Nat
    OBVIOUS
  <1>1. PICK g : Filters(g, q, S, Len(q)) /\ Without(q, S) = g[Len(q)]
    BY <1>0, WithoutFilters
  <1> DEFINE Bad == {k \in 0..Len(q) : ~Sifted(g[k], q, S, k)}
  <1>2. SUFFICES Bad = {}
    BY <1>0, <1>1
  <1>3. SUFFICES ASSUME Bad # {} PROVE FALSE
    OBVIOUS
  <1>4. PICK m \in Bad : \A y \in Bad : ~(y < m)
    <2>1. Bad \in SUBSET Nat
      OBVIOUS
    <2> HIDE DEF Bad
    <2> QED  BY <1>3, <2>1, LeastNumber
  <1>5. m \in 0..Len(q) /\ ~Sifted(g[m], q, S, m)
    BY <1>4
  <1>6. CASE m = 0
    <2>1. g[0] = <<>>
      BY <1>0, <1>1 DEF Filters
    <2>2. Sifted(<<>>, q, S, 0)
      BY DEF Sifted, Distinct
    <2> QED  BY <1>5, <1>6, <2>1, <2>2
  <1>7. CASE m # 0
    <2>1. m \in 1..Len(q) /\ m - 1 \in 0..Len(q) /\ m - 1 < m
      BY <1>0, <1>5, <1>7
    <2>2. Sifted(g[m - 1], q, S, m - 1)
      BY <1>4, <2>1
    <2>3. g[m] = IF q[m].id \in S THEN g[m - 1] ELSE Append(g[m - 1], q[m])
      BY <1>1, <1>5, <1>7 DEF Filters
    <2>4. IF q[m].id \in S THEN Sifted(g[m - 1], q, S, m)
                           ELSE Sifted(Append(g[m - 1], q[m]), q, S, m)
      BY <2>1, <2>2, SiftOne
    <2> QED  BY <1>5, <2>3, <2>4
  <1> QED  BY <1>6, <1>7

-----------------------------------------------------------------------------
(* What the operations do to a list of transactions *)

QueueOK(q) == q \in Seq(Tx) /\ Distinct(q)

\* The transactions of a list that are marked as processing.
Processing(q) == {q[i].id : i \in {k \in DOMAIN q : q[k].status = "processing"}}

\* Filtering loses transactions and nothing else.
LEMMA WithoutFacts ==
  ASSUME NEW q, QueueOK(q), NEW S
  PROVE  /\ QueueOK(Without(q, S))
         /\ Ids(Without(q, S)) \subseteq Ids(q) \ S
         /\ Processing(Without(q, S)) \subseteq Processing(q) \ S
  <1>1. PICK r : r = Without(q, S)
    OBVIOUS
  <1>2. q \in Seq(Tx) /\ Distinct(q) /\ Sifted(r, q, S, Len(q))
    BY <1>1, WithoutSifts DEF QueueOK
  <1>3. r \in Seq(Tx) /\ Distinct(r)
    BY <1>2 DEF Sifted
  <1>4. \A j \in DOMAIN r : \E i \in DOMAIN q : r[j] = q[i] /\ q[i].id \notin S
    BY <1>2, <1>3 DEF Sifted
  <1>5. Ids(r) \subseteq Ids(q) \ S
    BY <1>4 DEF Ids
  <1>6. Processing(r) \subseteq Processing(q) \ S
    BY <1>4 DEF Processing
  <1> QED  BY <1>1, <1>3, <1>5, <1>6 DEF QueueOK

\* The smaller of two numbers is one of them.
LEMMA MinOfTwo ==
  ASSUME NEW a \in Nat, NEW b \in Nat
  PROVE  Min({a, b}) = IF a <= b THEN a ELSE b
  <1>1. \E x \in {a, b} : \A y \in {a, b} : x <= y
    <2>1. CASE a <= b
      BY <2>1
    <2>2. CASE ~(a <= b)
      BY <2>2
    <2> QED  BY <2>1, <2>2
  <1>2. PICK m : m = Min({a, b})
    OBVIOUS
  <1>3. m \in {a, b} /\ \A y \in {a, b} : m <= y
    BY <1>1, <1>2 DEF Min
  <1> QED  BY <1>2, <1>3

\* Marking changes no transaction but its status and attempts.
LEMMA MarkedFacts ==
  ASSUME NEW q, QueueOK(q), NEW t \in Txs, NEW more \in Nat,
         NEW status \in {"pending", "processing"}
  PROVE  /\ QueueOK(Marked(q, t, status, more))
         /\ Ids(Marked(q, t, status, more)) = Ids(q)
         /\ Processing(Marked(q, t, status, more)) \subseteq
              IF status = "pending" THEN Processing(q) \ {t}
                                    ELSE Processing(q) \cup {t}
  <1>1. PICK r : r = Marked(q, t, status, more)
    OBVIOUS
  <1>2. q \in Seq(Tx) /\ Distinct(q)
    BY DEF QueueOK
  <1>3. \A i \in DOMAIN q :
          /\ q[i] \in Tx
          /\ Min({q[i].attempts + more, MAX_ATTEMPTS}) \in Nat
    <2> SUFFICES ASSUME NEW i \in DOMAIN q
                 PROVE  /\ q[i] \in Tx
                        /\ Min({q[i].attempts + more, MAX_ATTEMPTS}) \in Nat
      OBVIOUS
    <2>1. q[i] \in Tx
      BY <1>2
    <2>2. q[i].attempts + more \in Nat
      BY <2>1 DEF Tx
    <2> QED  BY <2>1, <2>2, MinOfTwo, TransactionAssumption
  <1>4. DOMAIN r = DOMAIN q
    BY <1>1 DEF Marked
  <1>5. \A i \in DOMAIN q : /\ r[i] \in Tx
                            /\ r[i].id = q[i].id
                            /\ r[i].status = IF q[i].id = t THEN status
                                                            ELSE q[i].status
    <2> SUFFICES ASSUME NEW i \in DOMAIN q
                 PROVE  /\ r[i] \in Tx
                        /\ r[i].id = q[i].id
                        /\ r[i].status = IF q[i].id = t THEN status
                                                        ELSE q[i].status
      OBVIOUS
    <2>1. PICK n \in Nat : n = Min({q[i].attempts + more, MAX_ATTEMPTS})
      BY <1>3
    <2>2. r[i] = IF q[i].id = t
                 THEN [id |-> t, attempts |-> n, status |-> status]
                 ELSE q[i]
      BY <1>1, <2>1 DEF Marked
    <2>3. q[i] \in Tx
      BY <1>3
    <2>4. CASE q[i].id = t
      BY <2>2, <2>4 DEF Tx
    <2>5. CASE q[i].id # t
      BY <2>2, <2>3, <2>5
    <2> QED  BY <2>4, <2>5
  <1>6. r \in Seq(Tx)
    <2>1. r = [i \in 1..Len(q) |-> r[i]] /\ DOMAIN q = 1..Len(q)
      BY <1>1, <1>2 DEF Marked
    <2> QED  BY <1>2, <1>5, <2>1
  <1>7. Distinct(r)
    BY <1>2, <1>4, <1>5 DEF Distinct
  <1>8. Ids(r) = Ids(q)
    BY <1>4, <1>5 DEF Ids
  <1>9. Processing(r) \subseteq IF status = "pending" THEN Processing(q) \ {t}
                                                      ELSE Processing(q) \cup {t}
    BY <1>4, <1>5 DEF Processing
  <1> QED  BY <1>1, <1>6, <1>7, <1>8, <1>9 DEF QueueOK

\* The copy processQueue() works on names the same transactions.
LEMMA CopyFacts ==
  ASSUME NEW q, QueueOK(q)
  PROVE  /\ Copy(q) \in Seq(Item)
         /\ Distinct(Copy(q))
         /\ Ids(Copy(q)) = Ids(q)
  <1>1. PICK r : r = Copy(q)
    OBVIOUS
  <1>2. q \in Seq(Tx) /\ Distinct(q)
    BY DEF QueueOK
  <1>3. /\ DOMAIN r = DOMAIN q
        /\ \A i \in DOMAIN q : r[i] \in Item /\ r[i].id = q[i].id
    <2>1. DOMAIN r = DOMAIN q
      BY <1>1 DEF Copy
    <2>2. ASSUME NEW i \in DOMAIN q PROVE r[i] \in Item /\ r[i].id = q[i].id
      <3>1. q[i] \in Tx
        BY <1>2
      <3>2. r[i] = [id |-> q[i].id, attempts |-> q[i].attempts]
        BY <1>1 DEF Copy
      <3> QED  BY <3>1, <3>2 DEF Tx, Item
    <2> QED  BY <2>1, <2>2
  <1>4. r \in Seq(Item)
    <2>1. r = [i \in 1..Len(q) |-> r[i]] /\ DOMAIN q = 1..Len(q)
      BY <1>1, <1>2 DEF Copy
    <2> QED  BY <1>2, <1>3, <2>1
  <1>5. Distinct(r) /\ Ids(r) = Ids(q)
    BY <1>2, <1>3 DEF Distinct, Ids
  <1> QED  BY <1>1, <1>4, <1>5

\* Queueing a request adds it as pending and drops those of the same key.
LEMMA QueuedFacts ==
  ASSUME QueueOK(queue), NEW t \in Txs
  PROVE  /\ QueueOK(Queued(t))
         /\ Ids(Queued(t)) \subseteq Ids(queue) \cup {t}
         /\ Processing(Queued(t)) \subseteq Processing(queue)
  <1>1. PICK r : r = Without(queue, SameKey(t))
    OBVIOUS
  <1>2. PICK x : x = [id |-> t, attempts |-> 0, status |-> "pending"]
    OBVIOUS
  <1>3. /\ QueueOK(r)
        /\ Ids(r) \subseteq Ids(queue) \ SameKey(t)
        /\ Processing(r) \subseteq Processing(queue)
    BY <1>1, WithoutFacts
  <1>4. x \in Tx /\ x.id = t /\ x.status = "pending"
    BY <1>2 DEF Tx
  <1>5. t \in SameKey(t)
    BY DEF SameKey
  <1>6. PICK a : a = Append(r, x)
    OBVIOUS
  <1>7. r \in Seq(Tx) /\ Distinct(r)
    BY <1>3 DEF QueueOK
  <1>8. /\ a \in Seq(Tx) /\ Len(a) = Len(r) + 1
        /\ \A j \in 1..Len(a) : a[j] = IF j <= Len(r) THEN r[j] ELSE x
        /\ DOMAIN a = 1..Len(a) /\ DOMAIN r = 1..Len(r) /\ Len(r) \in Nat
    BY <1>4, <1>6, <1>7
  <1>9. \A j \in DOMAIN r : r[j].id # t
    BY <1>3, <1>5 DEF Ids
  <1>10. Distinct(a)
    <2> SUFFICES ASSUME NEW j \in DOMAIN a, NEW k \in DOMAIN a, a[j].id = a[k].id
                 PROVE  j = k
      BY DEF Distinct
    <2>1. CASE j <= Len(r) /\ k <= Len(r)
      <3>1. j \in DOMAIN r /\ k \in DOMAIN r /\ a[j] = r[j] /\ a[k] = r[k]
        BY <1>8, <2>1
      <3> QED  BY <1>7, <3>1 DEF Distinct
    <2>2. CASE ~(j <= Len(r)) /\ ~(k <= Len(r))
      BY <1>8, <2>2
    <2>3. CASE j <= Len(r) /\ ~(k <= Len(r))
      BY <1>4, <1>8, <1>9, <2>3
    <2>4. CASE ~(j <= Len(r)) /\ k <= Len(r)
      BY <1>4, <1>8, <1>9, <2>4
    <2> QED  BY <2>1, <2>2, <2>3, <2>4
  <1>11. \A j \in DOMAIN a : a[j] = x \/ \E i \in DOMAIN r : a[j] = r[i]
    BY <1>8
  <1>12. Ids(a) \subseteq Ids(r) \cup {t}
    BY <1>4, <1>11 DEF Ids
  <1>13. Processing(a) \subseteq Processing(r)
    BY <1>4, <1>11 DEF Processing
  <1>14. a = Queued(t)
    BY <1>1, <1>2, <1>6 DEF Queued
  <1> QED  BY <1>3, <1>8, <1>10, <1>12, <1>13, <1>14 DEF QueueOK

\* The head of a list without repetitions is not in its tail.
LEMMA TailFacts ==
  ASSUME NEW list \in Seq(Item), list # <<>>, Distinct(list)
  PROVE  /\ Tail(list) \in Seq(Item)
         /\ Distinct(Tail(list))
         /\ Ids(Tail(list)) \subseteq Ids(list) \ {Head(list).id}
         /\ Head(list).id \in Ids(list)
         /\ Head(list).id \in Txs
  <1>1. PICK r : r = Tail(list)
    OBVIOUS
  <1>2. /\ r \in Seq(Item) /\ Len(r) = Len(list) - 1 /\ Len(list) > 0
        /\ \A j \in 1..Len(r) : r[j] = list[j + 1]
        /\ DOMAIN r = 1..Len(r) /\ DOMAIN list = 1..Len(list)
        /\ Len(list) \in Nat /\ Head(list) = list[1]
    BY <1>1
  <1>3. \A j \in DOMAIN r : j + 1 \in DOMAIN list /\ r[j] = list[j + 1]
    BY <1>2
  <1>4. Distinct(r)
    <2> SUFFICES ASSUME NEW j \in DOMAIN r, NEW k \in DOMAIN r, r[j].id = r[k].id
                 PROVE  j = k
      BY DEF Distinct
    <2>1. j + 1 = k + 1
      BY <1>3 DEF Distinct
    <2> QED  BY <1>2, <2>1
  <1>5. 1 \in DOMAIN list /\ \A j \in DOMAIN r : j + 1 # 1
    BY <1>2
  <1>6. Ids(r) \subseteq Ids(list) \ {list[1].id}
    BY <1>3, <1>5 DEF Ids, Distinct
  <1>7. list[1].id \in Ids(list) /\ list[1].id \in Txs
    <2>1. list[1] \in Item
      BY <1>2
    <2> QED  BY <1>5, <2>1 DEF Ids, Item
  <1> QED  BY <1>1, <1>2, <1>4, <1>6, <1>7

-----------------------------------------------------------------------------
(* The inductive invariant *)

RunOK(r) ==
  /\ r \in [pc : {"idle", "sending", "sent", "dropped"}, list : Seq(Item)]
  /\ Distinct(r.list)
  /\ r.pc \in {"sending", "sent"} => r.list # <<>>

TxTypeOK ==
  /\ QueueOK(queue) /\ QueueOK(disk) /\ QueueOK(loading)
  /\ RunOK(run)
  /\ effects \in [Txs -> 0..2]

\* What the run may still send.
AheadOf(r) == IF r.pc = "sent" THEN Ids(Tail(r.list)) ELSE Ids(r.list)

\* A payment is made, queued or saved only after it was asked for.
OnlyAsked ==
  /\ asked \subseteq Txs
  /\ direct \cup Ids(queue) \cup Ids(disk) \cup Ids(loading) \cup Ids(run.list)
       \subseteq asked
  /\ \A t \in Txs : effects[t] > 0 => t \in asked

\* A payment being sent directly is neither queued nor in the run's copy.
DirectNotQueued == direct \cap (Ids(queue) \cup Ids(run.list)) = {}

\* A payment that was made for certain is not going to be sent again.
Settled ==
  \A t \in Txs : effects[t] > 0 /\ t \notin uncertain =>
    t \notin direct \cup Ids(queue) \cup AheadOf(run)

\* Until the saved queue arrives nothing is under way, and a payment in it
\* that was made counts as uncertain.
Booting ==
  "hydrate" \in boot =>
    /\ queue = <<>> /\ run = IdleRun /\ direct = {}
    /\ restored = Ids(loading)
    /\ \A t \in Ids(loading) : effects[t] > 0 => t \in uncertain

\* ProcessingIsInHand, of the set of marked transactions.
MarkedInHand ==
  \A t \in Processing(queue) : \/ run.pc = "sending" /\ t = Current
                               \/ t \in restored

SendInv ==
  /\ TxTypeOK
  /\ OnlyAsked
  /\ DirectNotQueued
  /\ Settled
  /\ Booting
  /\ SentOnceUnlessUncertain
  /\ MarkedInHand

\* An empty queue and the idle run.
LEMMA EmptyFacts ==
  /\ QueueOK(<<>>) /\ Ids(<<>>) = {} /\ Processing(<<>>) = {}
  /\ RunOK(IdleRun) /\ Ids(IdleRun.list) = {} /\ AheadOf(IdleRun) = {}
  /\ IdleRun.pc = "idle" /\ IdleRun.list = <<>>
  <1>1. QueueOK(<<>>) /\ Ids(<<>>) = {} /\ Processing(<<>>) = {}
    BY DEF QueueOK, Distinct, Ids, Processing
  <1>2. IdleRun.pc = "idle" /\ IdleRun.list = <<>>
    BY DEF IdleRun
  <1>3. RunOK(IdleRun)
    BY DEF RunOK, IdleRun, Distinct
  <1> QED  BY <1>1, <1>2, <1>3 DEF AheadOf

\* A fresh app has nothing to send.
LEMMA InitSend == Init => SendInv
  <1> SUFFICES ASSUME Init PROVE SendInv
    OBVIOUS
  <1>1. queue = <<>> /\ disk = <<>> /\ loading = <<>> /\ run = IdleRun /\ direct = {} /\ asked = {}
        /\ restored = {} /\ \A t \in Txs : effects[t] = 0
    BY DEF Init
  <1>2. TxTypeOK
    BY <1>1, EmptyFacts DEF Init, TxTypeOK
  <1>3. OnlyAsked /\ DirectNotQueued
    BY <1>1, EmptyFacts DEF OnlyAsked, DirectNotQueued
  <1>4. Settled /\ SentOnceUnlessUncertain
    BY <1>1 DEF Settled, SentOnceUnlessUncertain
  <1>5. Booting /\ MarkedInHand
    BY <1>1, EmptyFacts DEF Booting, MarkedInHand
  <1> QED  BY <1>2, <1>3, <1>4, <1>5 DEF SendInv

\* A run is whatever its program counter and its list make it.
LEMMA RunFields ==
  ASSUME NEW pc \in {"idle", "sending", "sent", "dropped"},
         NEW list \in Seq(Item), Distinct(list),
         pc \in {"sending", "sent"} => list # <<>>
  PROVE  /\ RunOK([pc |-> pc, list |-> list])
         /\ [pc |-> pc, list |-> list].pc = pc
         /\ [pc |-> pc, list |-> list].list = list
  BY DEF RunOK

\* Going on with a list sends, drops or marks only what is in it.
LEMMA GoOnFacts ==
  ASSUME NEW q, QueueOK(q), NEW list \in Seq(Item), Distinct(list), NEW online,
         GoOn(q, list, online)
  PROVE  /\ QueueOK(queue') /\ Ids(queue') \subseteq Ids(q)
         /\ RunOK(run') /\ Ids(run'.list) \subseteq Ids(list)
         /\ run'.pc # "sent"
         /\ Processing(queue') \subseteq
              Processing(q) \cup
                (IF run'.pc = "sending" THEN {Head(run'.list).id} ELSE {})
         /\ list = <<>> => queue' = q /\ run' = IdleRun
  <1>1. CASE list = <<>> \/ ~online
    <2>1. queue' = q /\ run' = IdleRun
      BY <1>1 DEF GoOn
    <2> QED  BY <2>1, EmptyFacts
  <1>2. CASE ~(list = <<>> \/ ~online) /\ Head(list).id \in stale
    <2>1. PICK t : t = Head(list).id
      OBVIOUS
    <2>2. PICK rest \in Seq(Item) : rest = Tail(list)
      BY <1>2, TailFacts
    <2>3. queue' = Without(q, {t}) /\ run' = [pc |-> "dropped", list |-> rest]
      BY <1>2, <2>1, <2>2 DEF GoOn
    <2>4. Distinct(rest) /\ Ids(rest) \subseteq Ids(list)
      BY <1>2, <2>2, TailFacts
    <2>5. /\ RunOK(run') /\ run'.pc = "dropped" /\ run'.list = rest
      BY <2>3, <2>4, RunFields
    <2>6. /\ QueueOK(queue') /\ Ids(queue') \subseteq Ids(q)
          /\ Processing(queue') \subseteq Processing(q)
      BY <2>3, WithoutFacts
    <2> QED  BY <1>2, <2>4, <2>5, <2>6
  <1>3. CASE ~(list = <<>> \/ ~online) /\ Head(list).id \notin stale
    <2>1. PICK t \in Txs : t = Head(list).id
      BY <1>3, TailFacts
    <2>2. /\ queue' = Marked(q, t, "processing", 1)
          /\ run' = [pc |-> "sending", list |-> list]
      BY <1>3, <2>1 DEF GoOn
    <2>3. /\ RunOK(run') /\ run'.pc = "sending" /\ run'.list = list
      BY <1>3, <2>2, RunFields
    <2>4. /\ QueueOK(queue') /\ Ids(queue') = Ids(q)
          /\ Processing(queue') \subseteq Processing(q) \cup {t}
      BY <2>2, MarkedFacts
    <2> QED  BY <1>3, <2>1, <2>3, <2>4
  <1> QED  BY <1>1, <1>2, <1>3

\* What one payment does to the history.
LEMMA MadeFacts ==
  ASSUME effects \in [Txs -> 0..2], NEW t \in Txs, Made(t)
  PROVE  /\ effects' \in [Txs -> 0..2]
         /\ \A u \in Txs \ {t} : effects'[u] = effects[u]
         /\ effects'[t] > 0
         /\ effects'[t] > 1 => effects[t] > 0
  <1>1. PICK n \in Nat : n = effects[t]
    OBVIOUS
  <1>2. n \in 0..2
    BY <1>1
  <1>3. Min({n + 1, 2}) = IF n + 1 <= 2 THEN n + 1 ELSE 2
    BY MinOfTwo
  <1>4. PICK m : m = Min({n + 1, 2})
    OBVIOUS
  <1>5. m \in 1..2 /\ (m > 1 => n > 0)
    BY <1>2, <1>3, <1>4
  <1>6. effects' = [effects EXCEPT ![t] = m]
    BY <1>1, <1>4 DEF Made
  <1> QED  BY <1>1, <1>5, <1>6

\* What the invariant says of the transaction in hand.
LEMMA CurrentFacts ==
  ASSUME SendInv, run.pc \in {"sending", "sent"}
  PROVE  /\ Current \in Txs
         /\ Current \in Ids(run.list)
         /\ run.list \in Seq(Item) /\ run.list # <<>>
         /\ Tail(run.list) \in Seq(Item) /\ Distinct(Tail(run.list))
         /\ Ids(Tail(run.list)) \subseteq Ids(run.list) \ {Current}
  <1>1. run.list \in Seq(Item) /\ Distinct(run.list) /\ run.list # <<>>
    BY DEF SendInv, TxTypeOK, RunOK
  <1> QED  BY <1>1, TailFacts DEF Current

\* A step that is told of no payment: at most the call in hand, which may have
\* paid, ends in an error.
NoneReported ==
  /\ UNCHANGED restored
  /\ \/ run.pc = "sending" /\ WalletFails(Current)
     \/ UNCHANGED <<effects, uncertain>>

\* A payment such a step makes was asked for and counts as uncertain.
LEMMA NoneReportedFacts ==
  ASSUME SendInv, NoneReported
  PROVE  /\ effects' \in [Txs -> 0..2]
         /\ uncertain \subseteq uncertain' /\ restored' = restored
         /\ \A u \in Txs : \/ effects'[u] = effects[u]
                           \/ run.pc = "sending" /\ u \in asked /\ u \in uncertain'
  <1>1. effects \in [Txs -> 0..2]
    BY DEF SendInv, TxTypeOK
  <1>2. CASE UNCHANGED <<effects, uncertain>>
    BY <1>1, <1>2 DEF NoneReported
  <1>3. CASE /\ run.pc = "sending" /\ Made(Current)
             /\ uncertain' = uncertain \cup {Current}
    <2>1. Current \in Txs /\ Current \in Ids(run.list)
      BY <1>3, CurrentFacts
    <2>2. Current \in asked
      BY <2>1 DEF SendInv, OnlyAsked
    <2>3. /\ effects' \in [Txs -> 0..2]
          /\ \A u \in Txs \ {Current} : effects'[u] = effects[u]
      BY <1>1, <1>3, <2>1, MadeFacts
    <2> QED  BY <1>3, <2>2, <2>3 DEF NoneReported
  <1> QED  BY <1>2, <1>3 DEF NoneReported, WalletFails

\* A step that is told of no payment and only loses or keeps what is queued
\* and what is ahead.
LEMMA QuietStep ==
  ASSUME SendInv, QueueOK(queue'), RunOK(run'),
         Ids(queue') \subseteq Ids(queue),
         Ids(run'.list) \subseteq Ids(run.list) \cup Ids(queue),
         AheadOf(run') \subseteq AheadOf(run) \cup Ids(queue),
         "hydrate" \in boot' =>
           "hydrate" \in boot /\ queue' = <<>> /\ run' = IdleRun,
         MarkedInHand',
         NoneReported, UNCHANGED <<storage, direct, asked>>
  PROVE  SendInv'
  <1> USE DEF storage
  <1>1. /\ effects' \in [Txs -> 0..2]
        /\ uncertain \subseteq uncertain' /\ restored' = restored
        /\ \A u \in Txs : \/ effects'[u] = effects[u]
                          \/ run.pc = "sending" /\ u \in asked /\ u \in uncertain'
    BY NoneReportedFacts
  <1>2. /\ TxTypeOK /\ OnlyAsked /\ DirectNotQueued /\ Settled /\ Booting
        /\ SentOnceUnlessUncertain
    BY DEF SendInv
  <1>3. TxTypeOK'
    BY <1>1, <1>2 DEF TxTypeOK
  <1>4. OnlyAsked' /\ DirectNotQueued'
    BY <1>1, <1>2 DEF OnlyAsked, DirectNotQueued
  <1>5. Settled'
    BY <1>1, <1>2 DEF Settled
  <1>6. Booting'
    <2> SUFFICES ASSUME "hydrate" \in boot' PROVE Booting'
      BY DEF Booting
    <2>1. /\ "hydrate" \in boot /\ queue' = <<>> /\ run' = IdleRun /\ direct = {}
          /\ run = IdleRun /\ restored = Ids(loading)
          /\ \A t \in Ids(loading) : effects[t] > 0 => t \in uncertain
      BY <1>2 DEF Booting
    <2>2. \A u \in Txs : effects'[u] = effects[u]
      BY <1>1, <2>1, EmptyFacts
    <2>3. Ids(loading) \subseteq Txs
      BY <1>2 DEF OnlyAsked
    <2> QED  BY <1>1, <2>1, <2>2, <2>3 DEF Booting
  <1>7. SentOnceUnlessUncertain'
    BY <1>1, <1>2 DEF SentOnceUnlessUncertain
  <1> QED  BY <1>3, <1>4, <1>5, <1>6, <1>7 DEF SendInv

\* A call of processQueue() copies what is queued, or does nothing.
LEMMA ProcessFacts ==
  ASSUME SendInv, NEW online, ProcessQueue(online)
  PROVE  /\ QueueOK(queue') /\ RunOK(run')
         /\ Ids(queue') \subseteq Ids(queue)
         /\ Ids(run'.list) \subseteq Ids(run.list) \cup Ids(queue)
         /\ AheadOf(run') \subseteq AheadOf(run) \cup Ids(queue)
         /\ "hydrate" \in boot => queue' = <<>> /\ run' = IdleRun
         /\ restored' = restored => MarkedInHand'
  <1>0. QueueOK(queue) /\ RunOK(run) /\ MarkedInHand
    BY DEF SendInv, TxTypeOK
  <1>1. CASE UNCHANGED <<queue, run>>
    BY <1>0, <1>1 DEF SendInv, Booting, MarkedInHand, Current
  <1>2. CASE run.pc = "idle" /\ GoOn(queue, Copy(queue), online)
    <2>1. PICK list \in Seq(Item) : list = Copy(queue)
      BY <1>0, CopyFacts
    <2>2. Distinct(list) /\ Ids(list) = Ids(queue)
      BY <1>0, <2>1, CopyFacts
    <2>3. /\ QueueOK(queue') /\ Ids(queue') \subseteq Ids(queue)
          /\ RunOK(run') /\ Ids(run'.list) \subseteq Ids(list)
          /\ run'.pc # "sent"
          /\ Processing(queue') \subseteq
               Processing(queue) \cup
                 (IF run'.pc = "sending" THEN {Head(run'.list).id} ELSE {})
          /\ list = <<>> => queue' = queue /\ run' = IdleRun
      BY <1>0, <1>2, <2>1, <2>2, GoOnFacts
    <2>4. AheadOf(run') \subseteq Ids(queue)
      BY <2>2, <2>3 DEF AheadOf
    <2>5. ASSUME "hydrate" \in boot PROVE queue' = <<>> /\ run' = IdleRun
      <3>1. queue = <<>>
        BY <2>5 DEF SendInv, Booting
      <3>2. list = <<>>
        BY <2>1, <3>1 DEF Copy
      <3> QED  BY <2>3, <3>1, <3>2
    <2>6. ASSUME restored' = restored PROVE MarkedInHand'
      BY <1>0, <1>2, <2>3, <2>6 DEF MarkedInHand, Current
    <2> QED  BY <2>2, <2>3, <2>4, <2>5, <2>6
  <1> QED  BY <1>1, <1>2 DEF ProcessQueue

\* A payment was sent.
LEMMA SentStep == SendInv /\ Sent => SendInv'
  <1> SUFFICES ASSUME SendInv, Sent PROVE SendInv'
    OBVIOUS
  <1> USE DEF history, storage
  <1>1. PICK t \in Txs : t = Current
    BY CurrentFacts DEF Sent
  <1>2. /\ run.pc = "sending" /\ Made(t)
        /\ queue' = Without(queue, {t}) /\ run' = [run EXCEPT !.pc = "sent"]
        /\ UNCHANGED <<storage, direct, asked, boot, uncertain, restored>>
    BY <1>1 DEF Sent
  <1>3. /\ TxTypeOK /\ OnlyAsked /\ DirectNotQueued /\ Settled /\ Booting
        /\ SentOnceUnlessUncertain /\ MarkedInHand
    BY DEF SendInv
  <1>4. /\ t \in Ids(run.list) /\ Tail(run.list) \in Seq(Item)
        /\ Ids(Tail(run.list)) \subseteq Ids(run.list) \ {t}
    BY <1>1, <1>2, CurrentFacts
  <1>5. /\ QueueOK(queue') /\ Ids(queue') \subseteq Ids(queue) \ {t}
        /\ Processing(queue') \subseteq Processing(queue) \ {t}
    BY <1>2, <1>3, WithoutFacts DEF TxTypeOK
  <1>6. RunOK(run') /\ run'.pc = "sent" /\ run'.list = run.list
    BY <1>2, <1>3 DEF TxTypeOK, RunOK
  <1>7. /\ effects' \in [Txs -> 0..2] /\ effects'[t] > 0
        /\ \A u \in Txs \ {t} : effects'[u] = effects[u]
        /\ effects'[t] > 1 => effects[t] > 0
    BY <1>2, <1>3, MadeFacts DEF TxTypeOK
  <1>8. AheadOf(run) = Ids(run.list) /\ AheadOf(run') = Ids(Tail(run.list))
    BY <1>2, <1>6 DEF AheadOf
  <1>9. TxTypeOK'
    BY <1>2, <1>3, <1>5, <1>6, <1>7 DEF TxTypeOK
  <1>10. OnlyAsked' /\ DirectNotQueued'
    BY <1>2, <1>3, <1>4, <1>5, <1>6, <1>7 DEF OnlyAsked, DirectNotQueued
  <1>11. Settled'
    <2>1. t \notin direct
      BY <1>3, <1>4 DEF DirectNotQueued
    <2>2. t \notin Ids(queue') \cup AheadOf(run')
      BY <1>4, <1>5, <1>8
    <2> QED  BY <1>2, <1>3, <1>4, <1>5, <1>7, <1>8, <2>1, <2>2 DEF Settled
  <1>12. Booting'
    <2>1. "hydrate" \notin boot
      BY <1>2, <1>3, EmptyFacts DEF Booting
    <2> QED  BY <1>2, <2>1 DEF Booting
  <1>13. SentOnceUnlessUncertain'
    <2>1. effects[t] > 0 => t \in uncertain
      BY <1>3, <1>4, <1>8 DEF Settled
    <2> QED  BY <1>2, <1>3, <1>7, <2>1 DEF SentOnceUnlessUncertain
  <1>14. MarkedInHand'
    BY <1>1, <1>2, <1>3, <1>5 DEF MarkedInHand
  <1> QED
    BY <1>9, <1>10, <1>11, <1>12, <1>13, <1>14 DEF SendInv

\* The run ends without a payment being made for certain.
LEMMA NetworkErrorStep == SendInv /\ NetworkError => SendInv'
  <1> SUFFICES ASSUME SendInv, NetworkError PROVE SendInv'
    OBVIOUS
  <1>1. PICK t \in Txs : t = Current
    BY CurrentFacts DEF NetworkError
  <1>2. /\ run.pc = "sending" /\ queue' = Marked(queue, t, "pending", 0)
        /\ run' = IdleRun
        /\ UNCHANGED <<storage, direct, asked, boot>>
        /\ NoneReported
    BY <1>1 DEF NetworkError, NoneReported
  <1>3. QueueOK(queue) /\ Booting /\ MarkedInHand
    BY DEF SendInv, TxTypeOK
  <1>4. /\ QueueOK(queue') /\ Ids(queue') = Ids(queue)
        /\ Processing(queue') \subseteq Processing(queue) \ {t}
    BY <1>2, <1>3, MarkedFacts
  <1>5. RunOK(run') /\ Ids(run'.list) = {} /\ AheadOf(run') = {}
    BY <1>2, EmptyFacts
  <1>6. "hydrate" \notin boot'
    BY <1>2, <1>3, EmptyFacts DEF Booting
  <1>7. MarkedInHand'
    BY <1>1, <1>2, <1>3, <1>4 DEF MarkedInHand, NoneReported
  <1> QED  BY <1>2, <1>4, <1>5, <1>6, <1>7, QuietStep

\* The transaction in hand is dropped.
LEMMA DropStep ==
  ASSUME SendInv, run.pc \in {"sending", "sent"}, Drop,
         NoneReported, UNCHANGED <<storage, direct, asked, boot>>
  PROVE  SendInv'
  <1>1. PICK t \in Txs : t = Current
    BY CurrentFacts
  <1>2. PICK rest \in Seq(Item) : rest = Tail(run.list)
    BY CurrentFacts
  <1>3. queue' = Without(queue, {t}) /\ run' = [pc |-> "dropped", list |-> rest]
    BY <1>1, <1>2 DEF Drop
  <1>4. Distinct(rest) /\ Ids(rest) \subseteq Ids(run.list)
    BY <1>2, CurrentFacts
  <1>5. RunOK(run') /\ run'.pc = "dropped" /\ run'.list = rest
    BY <1>3, <1>4, RunFields
  <1>6. QueueOK(queue) /\ MarkedInHand /\ Booting
    BY DEF SendInv, TxTypeOK
  <1>7. /\ QueueOK(queue') /\ Ids(queue') \subseteq Ids(queue)
        /\ Processing(queue') \subseteq Processing(queue) \ {t}
    BY <1>3, <1>6, WithoutFacts
  <1>8. AheadOf(run') = Ids(rest) /\ Ids(rest) \subseteq AheadOf(run)
    BY <1>2, <1>4, <1>5 DEF AheadOf
  <1>9. "hydrate" \notin boot'
    BY <1>6, EmptyFacts DEF Booting
  <1>10. MarkedInHand'
    BY <1>1, <1>6, <1>7 DEF MarkedInHand, NoneReported
  <1> QED  BY <1>4, <1>5, <1>7, <1>8, <1>9, <1>10, QuietStep

\* The loop goes on with what is ahead, its transaction no longer marked.
LEMMA GoOnStep ==
  ASSUME SendInv, run.pc # "idle",
         NEW q, QueueOK(q), Ids(q) \subseteq Ids(queue),
         \A t \in Processing(q) : t \in restored,
         NEW list \in Seq(Item), Distinct(list),
         Ids(list) \subseteq Ids(run.list), Ids(list) \subseteq AheadOf(run),
         NEW online, GoOn(q, list, online),
         NoneReported, UNCHANGED <<storage, direct, asked, boot>>
  PROVE  SendInv'
  <1>1. /\ QueueOK(queue') /\ Ids(queue') \subseteq Ids(q)
        /\ RunOK(run') /\ Ids(run'.list) \subseteq Ids(list)
        /\ run'.pc # "sent"
        /\ Processing(queue') \subseteq
             Processing(q) \cup
               (IF run'.pc = "sending" THEN {Head(run'.list).id} ELSE {})
    BY GoOnFacts
  <1>2. AheadOf(run') \subseteq Ids(list)
    BY <1>1 DEF AheadOf
  <1>3. "hydrate" \notin boot'
    BY EmptyFacts DEF SendInv, Booting
  <1>4. MarkedInHand'
    BY <1>1 DEF MarkedInHand, Current, NoneReported
  <1> QED  BY <1>1, <1>2, <1>3, <1>4, QuietStep

\* A payment or the notification after it failed.
LEMMA OtherErrorStep == SendInv /\ OtherError => SendInv'
  <1> SUFFICES ASSUME SendInv, OtherError PROVE SendInv'
    OBVIOUS
  <1>1. /\ run.pc \in {"sending", "sent"}
        /\ NoneReported /\ UNCHANGED <<storage, direct, asked, boot>>
        /\ \/ Drop
           \/ GoOn(Marked(queue, Current, "pending", 0), Tail(run.list), isOnline)
    BY DEF OtherError, NoneReported
  <1>2. CASE Drop
    BY <1>1, <1>2, DropStep
  <1>3. CASE GoOn(Marked(queue, Current, "pending", 0), Tail(run.list), isOnline)
    <2>1. PICK t \in Txs : t = Current
      BY <1>1, CurrentFacts
    <2>2. PICK q : q = Marked(queue, t, "pending", 0)
      OBVIOUS
    <2>3. PICK rest \in Seq(Item) : rest = Tail(run.list)
      BY <1>1, CurrentFacts
    <2>4. GoOn(q, rest, isOnline)
      BY <1>3, <2>1, <2>2, <2>3
    <2>5. QueueOK(queue) /\ MarkedInHand
      BY DEF SendInv, TxTypeOK
    <2>6. /\ QueueOK(q) /\ Ids(q) = Ids(queue)
          /\ Processing(q) \subseteq Processing(queue) \ {t}
      BY <2>2, <2>5, MarkedFacts
    <2>7. \A u \in Processing(q) : u \in restored
      BY <2>1, <2>5, <2>6 DEF MarkedInHand
    <2>8. /\ Distinct(rest) /\ Ids(rest) \subseteq Ids(run.list)
          /\ Ids(rest) \subseteq AheadOf(run)
      BY <1>1, <2>3, CurrentFacts DEF AheadOf
    <2> QED  BY <1>1, <2>4, <2>6, <2>7, <2>8, GoOnStep
  <1> QED  BY <1>1, <1>2, <1>3

\* A notification returned.
LEMMA NotifiedStep == SendInv /\ Notified => SendInv'
  <1> SUFFICES ASSUME SendInv, Notified PROVE SendInv'
    OBVIOUS
  <1>1. NoneReported /\ UNCHANGED <<storage, direct, asked, boot>>
    BY DEF Notified, NoneReported, history
  <1>2. QueueOK(queue) /\ RunOK(run) /\ MarkedInHand
    BY DEF SendInv, TxTypeOK
  <1>3. CASE run.pc = "sent" /\ GoOn(queue, Tail(run.list), isOnline)
    <2>1. PICK rest \in Seq(Item) : rest = Tail(run.list)
      BY <1>3, CurrentFacts
    <2>2. /\ Distinct(rest) /\ Ids(rest) \subseteq Ids(run.list)
          /\ Ids(rest) \subseteq AheadOf(run)
      BY <1>3, <2>1, CurrentFacts DEF AheadOf
    <2>3. \A u \in Processing(queue) : u \in restored
      BY <1>2, <1>3 DEF MarkedInHand
    <2> QED  BY <1>1, <1>2, <1>3, <2>1, <2>2, <2>3, GoOnStep
  <1>4. CASE run.pc = "dropped" /\ GoOn(queue, run.list, isOnline)
    <2>1. run.list \in Seq(Item) /\ Distinct(run.list) /\ AheadOf(run) = Ids(run.list)
      BY <1>2, <1>4 DEF RunOK, AheadOf
    <2>2. \A u \in Processing(queue) : u \in restored
      BY <1>2, <1>4 DEF MarkedInHand
    <2> QED  BY <1>1, <1>2, <1>4, <2>1, <2>2, GoOnStep
  <1> QED  BY <1>3, <1>4 DEF Notified

\* A notification failed.
LEMMA NotifyThrowsStep == SendInv /\ NotifyThrows => SendInv'
  <1> SUFFICES ASSUME SendInv, NotifyThrows PROVE SendInv'
    OBVIOUS
  <1>1. /\ run.pc = "dropped" /\ run' = IdleRun
        /\ NoneReported /\ UNCHANGED <<queue, storage, direct, asked, boot>>
    BY DEF NotifyThrows, NoneReported, history
  <1>2. QueueOK(queue) /\ MarkedInHand /\ Booting
    BY DEF SendInv, TxTypeOK
  <1>3. RunOK(run') /\ Ids(run'.list) = {} /\ AheadOf(run') = {}
    BY <1>1, EmptyFacts
  <1>4. "hydrate" \notin boot'
    BY <1>1, <1>2, EmptyFacts DEF Booting
  <1>5. MarkedInHand'
    BY <1>1, <1>2 DEF MarkedInHand, NoneReported
  <1> QED  BY <1>1, <1>2, <1>3, <1>4, <1>5, QuietStep
-----------------------------------------------------------------------------
(* Requests, connectivity, time and storage *)

\* A payment that was not asked for is neither queued nor made.
LEMMA OfflineStep ==
  ASSUME NEW t \in Txs, SendInv, ExecuteOffline(t)
  PROVE  SendInv'
  <1> USE DEF history, storage
  <1>1. /\ Ready /\ t \notin asked /\ asked' = asked \cup {t}
        /\ queue' = Queued(t)
        /\ UNCHANGED <<storage, run, direct, boot, effects, uncertain, restored>>
    BY DEF ExecuteOffline, Asks
  <1>2. /\ TxTypeOK /\ OnlyAsked /\ DirectNotQueued /\ Settled /\ Booting
        /\ SentOnceUnlessUncertain /\ MarkedInHand
    BY DEF SendInv
  <1>3. /\ QueueOK(queue') /\ Ids(queue') \subseteq Ids(queue) \cup {t}
        /\ Processing(queue') \subseteq Processing(queue)
    BY <1>1, <1>2, QueuedFacts DEF TxTypeOK
  <1>4. t \notin direct /\ ~(effects[t] > 0)
    BY <1>1, <1>2 DEF OnlyAsked
  <1>5. TxTypeOK'
    BY <1>1, <1>2, <1>3 DEF TxTypeOK
  <1>6. OnlyAsked' /\ DirectNotQueued'
    BY <1>1, <1>2, <1>3, <1>4 DEF OnlyAsked, DirectNotQueued
  <1>7. Settled'
    BY <1>1, <1>2, <1>3, <1>4 DEF Settled
  <1>8. Booting' /\ SentOnceUnlessUncertain'
    BY <1>1, <1>2 DEF Booting, Ready, SentOnceUnlessUncertain
  <1>9. MarkedInHand'
    BY <1>1, <1>2, <1>3 DEF MarkedInHand, Current
  <1> QED  BY <1>5, <1>6, <1>7, <1>8, <1>9 DEF SendInv

\* A direct call begins: nothing of its transaction is queued or under way.
LEMMA DirectStep ==
  ASSUME NEW t \in Txs, SendInv, ExecuteDirectly(t)
  PROVE  SendInv'
  <1> USE DEF history, storage
  <1>1. /\ Ready /\ t \notin asked /\ asked' = asked \cup {t}
        /\ direct' = direct \cup {t}
        /\ UNCHANGED <<queue, storage, run, boot, effects, uncertain, restored>>
    BY DEF ExecuteDirectly, Asks
  <1>2. /\ TxTypeOK /\ OnlyAsked /\ DirectNotQueued /\ Settled /\ Booting
        /\ SentOnceUnlessUncertain /\ MarkedInHand
    BY DEF SendInv
  <1>3. t \notin Ids(queue) \cup Ids(run.list) /\ ~(effects[t] > 0)
    BY <1>1, <1>2 DEF OnlyAsked
  <1>4. TxTypeOK'
    BY <1>1, <1>2 DEF TxTypeOK
  <1>5. OnlyAsked' /\ DirectNotQueued'
    BY <1>1, <1>2, <1>3 DEF OnlyAsked, DirectNotQueued
  <1>6. Settled'
    BY <1>1, <1>2, <1>3 DEF Settled
  <1>7. Booting' /\ SentOnceUnlessUncertain'
    BY <1>1, <1>2 DEF Booting, Ready, SentOnceUnlessUncertain
  <1>8. MarkedInHand'
    BY <1>1, <1>2 DEF MarkedInHand, Current
  <1> QED  BY <1>4, <1>5, <1>6, <1>7, <1>8 DEF SendInv

\* What the invariant says of a payment that is being sent directly.
LEMMA DirectFacts ==
  ASSUME NEW t \in Txs, SendInv, t \in direct
  PROVE  /\ t \in asked /\ t \notin Ids(queue) \cup Ids(run.list) \cup AheadOf(run)
         /\ effects[t] > 0 => t \in uncertain
         /\ "hydrate" \notin boot
  <1>1. t \in asked /\ t \notin Ids(queue) \cup Ids(run.list)
    BY DEF SendInv, OnlyAsked, DirectNotQueued
  <1>2. AheadOf(run) \subseteq Ids(run.list)
    <2>1. CASE run.pc = "sent"
      BY <2>1, CurrentFacts DEF AheadOf
    <2>2. CASE run.pc # "sent"
      BY <2>2 DEF AheadOf
    <2> QED  BY <2>1, <2>2
  <1> QED  BY <1>1, <1>2 DEF SendInv, Settled, Booting

\* A direct call ends, with or without having paid.
LEMMA DirectEndsStep ==
  ASSUME NEW t \in Txs, SendInv, DirectEnds(t)
  PROVE  SendInv'
  <1> USE DEF history, storage
  <1>1. /\ t \in direct /\ direct' = direct \ {t}
        /\ Made(t) \/ UNCHANGED effects
        /\ UNCHANGED <<queue, storage, run, asked, boot, uncertain, restored>>
    BY DEF DirectEnds
  <1>2. /\ TxTypeOK /\ OnlyAsked /\ DirectNotQueued /\ Settled /\ Booting
        /\ SentOnceUnlessUncertain /\ MarkedInHand
    BY DEF SendInv
  <1>3. /\ t \in asked /\ t \notin Ids(queue) \cup Ids(run.list) \cup AheadOf(run)
        /\ effects[t] > 0 => t \in uncertain
        /\ "hydrate" \notin boot
    BY <1>1, DirectFacts
  <1>4. /\ effects' \in [Txs -> 0..2]
        /\ \A u \in Txs \ {t} : effects'[u] = effects[u]
        /\ effects'[t] > 1 => effects[t] > 0
    <2>1. CASE Made(t)
      BY <1>2, <2>1, MadeFacts DEF TxTypeOK
    <2>2. CASE UNCHANGED effects
      BY <1>2, <2>2 DEF TxTypeOK
    <2> QED  BY <1>1, <2>1, <2>2
  <1>5. TxTypeOK'
    BY <1>1, <1>2, <1>4 DEF TxTypeOK
  <1>6. OnlyAsked' /\ DirectNotQueued'
    BY <1>1, <1>2, <1>3, <1>4 DEF OnlyAsked, DirectNotQueued
  <1>7. Settled'
    BY <1>1, <1>2, <1>3, <1>4 DEF Settled
  <1>8. Booting' /\ SentOnceUnlessUncertain'
    BY <1>1, <1>2, <1>3, <1>4 DEF Booting, SentOnceUnlessUncertain
  <1>9. MarkedInHand'
    BY <1>1, <1>2 DEF MarkedInHand, Current
  <1> QED  BY <1>5, <1>6, <1>7, <1>8, <1>9 DEF SendInv

\* The request goes to the queue; whether it was made is not known.
LEMMA DirectErrorStep ==
  ASSUME NEW t \in Txs, SendInv, DirectNetworkError(t)
  PROVE  SendInv'
  <1> USE DEF history, storage
  <1>1. /\ t \in direct /\ direct' = direct \ {t} /\ queue' = Queued(t)
        /\ WalletFails(t)
        /\ UNCHANGED <<storage, run, asked, boot, restored>>
    BY DEF DirectNetworkError
  <1>2. /\ TxTypeOK /\ OnlyAsked /\ DirectNotQueued /\ Settled /\ Booting
        /\ SentOnceUnlessUncertain /\ MarkedInHand
    BY DEF SendInv
  <1>3. /\ t \in asked /\ t \notin Ids(queue) \cup Ids(run.list) \cup AheadOf(run)
        /\ effects[t] > 0 => t \in uncertain
        /\ "hydrate" \notin boot
    BY <1>1, DirectFacts
  <1>4. /\ QueueOK(queue') /\ Ids(queue') \subseteq Ids(queue) \cup {t}
        /\ Processing(queue') \subseteq Processing(queue)
    BY <1>1, <1>2, QueuedFacts DEF TxTypeOK
  <1>5. /\ effects' \in [Txs -> 0..2]
        /\ \A u \in Txs \ {t} : effects'[u] = effects[u]
        /\ effects'[t] > 0 => t \in uncertain'
        /\ uncertain \subseteq uncertain'
    <2>1. CASE Made(t) /\ uncertain' = uncertain \cup {t}
      BY <1>2, <2>1, MadeFacts DEF TxTypeOK
    <2>2. CASE UNCHANGED <<effects, uncertain>>
      BY <1>2, <1>3, <2>2 DEF TxTypeOK
    <2> QED  BY <1>1, <2>1, <2>2 DEF WalletFails
  <1>6. TxTypeOK'
    BY <1>1, <1>2, <1>4, <1>5 DEF TxTypeOK
  <1>7. OnlyAsked' /\ DirectNotQueued'
    BY <1>1, <1>2, <1>3, <1>4, <1>5 DEF OnlyAsked, DirectNotQueued
  <1>8. Settled'
    <2> SUFFICES ASSUME NEW u \in Txs, effects'[u] > 0, u \notin uncertain'
                 PROVE  u \notin direct' \cup Ids(queue') \cup AheadOf(run')
      BY DEF Settled
    <2>1. u # t /\ effects[u] > 0 /\ u \notin uncertain
      BY <1>5
    <2> QED  BY <1>1, <1>2, <1>4, <2>1 DEF Settled
  <1>9. SentOnceUnlessUncertain'
    <2> SUFFICES ASSUME NEW u \in Txs, effects'[u] > 1 PROVE u \in uncertain'
      BY DEF SentOnceUnlessUncertain
    <2>1. effects'[u] \in 0..2
      BY <1>5
    <2>2. CASE u = t
      BY <1>5, <2>1, <2>2
    <2>3. CASE u # t
      BY <1>2, <1>5, <2>3 DEF SentOnceUnlessUncertain
    <2> QED  BY <2>2, <2>3
  <1>10. Booting'
    BY <1>1, <1>3 DEF Booting
  <1>11. MarkedInHand'
    BY <1>1, <1>2, <1>4 DEF MarkedInHand, Current
  <1> QED  BY <1>6, <1>7, <1>8, <1>9, <1>10, <1>11 DEF SendInv

\* Removing transactions leaves the run alone.
LEMMA RemoveStep ==
  ASSUME NEW S, SendInv, RemoveTransactions(S)
  PROVE  SendInv'
  <1>1. /\ Ready /\ queue' = Without(queue, S)
        /\ UNCHANGED <<storage, run, direct, asked, boot, history>>
    BY DEF RemoveTransactions
  <1>0. NoneReported
    BY <1>1 DEF NoneReported, history
  <1>2. QueueOK(queue) /\ RunOK(run) /\ MarkedInHand
    BY DEF SendInv, TxTypeOK
  <1>3. /\ QueueOK(queue') /\ Ids(queue') \subseteq Ids(queue)
        /\ Processing(queue') \subseteq Processing(queue)
    BY <1>1, <1>2, WithoutFacts
  <1>4. MarkedInHand'
    BY <1>1, <1>2, <1>3 DEF MarkedInHand, Current, history
  <1>5. "hydrate" \notin boot' /\ RunOK(run')
    BY <1>1, <1>2 DEF Ready
  <1> QED  BY <1>0, <1>1, <1>3, <1>4, <1>5, QuietStep

\* processQueue() is called, or not, at any time.
LEMMA CallStep ==
  ASSUME SendInv,
         (\E online : ProcessQueue(online)) \/ UNCHANGED <<queue, run>>,
         "hydrate" \in boot' => "hydrate" \in boot,
         UNCHANGED <<storage, direct, asked, history>>
  PROVE  SendInv'
  <1>0. NoneReported
    BY DEF NoneReported, history
  <1>1. CASE \E online : ProcessQueue(online)
    <2>1. PICK online : ProcessQueue(online)
      BY <1>1
    <2>2. /\ QueueOK(queue') /\ RunOK(run')
          /\ Ids(queue') \subseteq Ids(queue)
          /\ Ids(run'.list) \subseteq Ids(run.list) \cup Ids(queue)
          /\ AheadOf(run') \subseteq AheadOf(run) \cup Ids(queue)
          /\ "hydrate" \in boot => queue' = <<>> /\ run' = IdleRun
          /\ restored' = restored => MarkedInHand'
      BY <2>1, ProcessFacts
    <2> QED  BY <1>0, <2>2, QuietStep DEF history
  <1>2. CASE UNCHANGED <<queue, run>>
    <2>1. QueueOK(queue) /\ RunOK(run) /\ MarkedInHand /\ Booting
      BY DEF SendInv, TxTypeOK
    <2>2. "hydrate" \in boot' =>
            "hydrate" \in boot /\ queue' = <<>> /\ run' = IdleRun
      BY <1>2, <2>1 DEF Booting
    <2>3. MarkedInHand'
      BY <1>2, <2>1 DEF MarkedInHand, Current, history
    <2>4. QueueOK(queue') /\ RunOK(run')
      BY <1>2, <2>1
    <2> QED  BY <1>0, <1>2, <2>2, <2>3, <2>4, QuietStep
  <1> QED  BY <1>1, <1>2

\* Connectivity, its refresh and the mount of a screen only start runs.
LEMMA ConnectivityStep ==
  SendInv /\ (ConnectivityChanges \/ RefreshConnectivity \/ Mount) => SendInv'
  <1> SUFFICES ASSUME SendInv, ConnectivityChanges \/ RefreshConnectivity \/ Mount
               PROVE  SendInv'
    OBVIOUS
  <1>1. /\ (\E online : ProcessQueue(online)) \/ UNCHANGED <<queue, run>>
        /\ UNCHANGED <<storage, direct, asked, history>>
        /\ "hydrate" \in boot' => "hydrate" \in boot
    <2>1. CASE ConnectivityChanges
      BY <2>1 DEF ConnectivityChanges
    <2>2. CASE RefreshConnectivity
      BY <2>2 DEF RefreshConnectivity
    <2>3. CASE Mount
      BY <2>3 DEF Mount
    <2> QED  BY <2>1, <2>2, <2>3
  <1> QED  BY <1>1, CallStep

\* The queue is saved, or the empty one before the saved queue has arrived.
LEMMA SaveStep == SendInv /\ Save => SendInv'
  <1> SUFFICES ASSUME SendInv, Save PROVE SendInv'
    OBVIOUS
  <1>1. /\ disk' = queue
        /\ UNCHANGED <<queue, loading, run, direct, asked, boot, effects, uncertain, restored>>
    BY DEF Save, history
  <1>2. /\ TxTypeOK /\ OnlyAsked /\ DirectNotQueued /\ Settled /\ Booting
        /\ SentOnceUnlessUncertain /\ MarkedInHand
    BY DEF SendInv
  <1>3. TxTypeOK'
    BY <1>1, <1>2 DEF TxTypeOK
  <1>4. OnlyAsked' /\ DirectNotQueued'
    BY <1>1, <1>2 DEF OnlyAsked, DirectNotQueued
  <1>5. Settled' /\ SentOnceUnlessUncertain'
    BY <1>1, <1>2 DEF Settled, SentOnceUnlessUncertain
  <1>6. Booting' /\ MarkedInHand'
    BY <1>1, <1>2 DEF Booting, MarkedInHand, Current
  <1> QED  BY <1>3, <1>4, <1>5, <1>6 DEF SendInv

\* The saved queue arrives, or none: its marks are the restored ones.
LEMMA HydrateStep == SendInv /\ Hydrate => SendInv'
  <1> SUFFICES ASSUME SendInv, Hydrate PROVE SendInv'
    OBVIOUS
  <1>1. /\ "hydrate" \in boot /\ "hydrate" \notin boot'
        /\ queue' \in {loading, <<>>} /\ loading' = <<>>
        /\ UNCHANGED <<disk, run, direct, asked, effects, uncertain, restored>>
    BY DEF Hydrate, history
  <1>2. /\ TxTypeOK /\ OnlyAsked /\ Booting /\ SentOnceUnlessUncertain
    BY DEF SendInv
  <1>3. /\ run = IdleRun /\ direct = {} /\ restored = Ids(loading)
        /\ \A t \in Ids(loading) : effects[t] > 0 => t \in uncertain
    BY <1>1, <1>2 DEF Booting
  <1>4. Processing(loading) \subseteq Ids(loading)
    BY DEF Processing, Ids
  <1>5. /\ QueueOK(queue') /\ Ids(queue') \subseteq Ids(loading)
        /\ Processing(queue') \subseteq Ids(loading)
        /\ QueueOK(loading') /\ Ids(loading') = {}
    BY <1>1, <1>2, <1>4, EmptyFacts DEF TxTypeOK
  <1>6. TxTypeOK'
    BY <1>1, <1>2, <1>5 DEF TxTypeOK
  <1>7. OnlyAsked' /\ DirectNotQueued'
    BY <1>1, <1>2, <1>3, <1>5 DEF OnlyAsked, DirectNotQueued
  <1>8. Settled' /\ SentOnceUnlessUncertain'
    BY <1>1, <1>2, <1>3, <1>5, EmptyFacts DEF Settled, SentOnceUnlessUncertain
  <1>9. Booting' /\ MarkedInHand'
    BY <1>1, <1>3, <1>5 DEF Booting, MarkedInHand
  <1> QED  BY <1>6, <1>7, <1>8, <1>9 DEF SendInv

\* The app is killed: payments in hand may have been made, and what was saved
\* comes back.
LEMMA RestartStep == SendInv /\ Restart => SendInv'
  <1> SUFFICES ASSUME SendInv, Restart PROVE SendInv'
    OBVIOUS
  <1> USE DEF history, storage
  <1>1. /\ TxTypeOK /\ OnlyAsked /\ Settled /\ SentOnceUnlessUncertain
    BY DEF SendInv
  <1>2. PICK pending :
          pending = direct \cup (IF run.pc = "sending" THEN {Current} ELSE {})
    OBVIOUS
  <1>3. PICK made \in SUBSET pending :
          /\ effects' = [t \in Txs |-> IF t \in made THEN Min({effects[t] + 1, 2})
                                                     ELSE effects[t]]
          /\ uncertain' = uncertain \cup {t \in Ids(disk) : effects'[t] > 0}
    BY <1>2 DEF Restart
  <1>4. /\ restored' = Ids(disk) /\ queue' = <<>> /\ run' = IdleRun /\ direct' = {}
        /\ loading' = disk /\ UNCHANGED <<disk, asked>>
    BY DEF Restart
  <1>5. \A t \in pending : t \in asked /\ (effects[t] > 0 => t \in uncertain)
    <2>1. direct \subseteq Txs
      BY <1>1 DEF OnlyAsked
    <2>2. \A t \in direct : t \in asked /\ (effects[t] > 0 => t \in uncertain)
      BY <2>1, DirectFacts
    <2>3. ASSUME run.pc = "sending"
          PROVE  Current \in asked /\ (effects[Current] > 0 => Current \in uncertain)
      <3>1. Current \in Txs /\ Current \in Ids(run.list)
        BY <2>3, CurrentFacts
      <3>2. AheadOf(run) = Ids(run.list)
        BY <2>3 DEF AheadOf
      <3> QED  BY <1>1, <3>1, <3>2 DEF OnlyAsked, Settled
    <2> QED  BY <1>2, <2>2, <2>3
  <1>6. \A t \in Txs : /\ effects'[t] \in 0..2
                       /\ effects'[t] > 0 => effects[t] > 0 \/ t \in pending
                       /\ effects'[t] > 1 =>
                            effects[t] > 1 \/ (effects[t] > 0 /\ t \in pending)
    <2> SUFFICES ASSUME NEW t \in Txs
                 PROVE  /\ effects'[t] \in 0..2
                        /\ effects'[t] > 0 => effects[t] > 0 \/ t \in pending
                        /\ effects'[t] > 1 =>
                             effects[t] > 1 \/ (effects[t] > 0 /\ t \in pending)
      OBVIOUS
    <2>1. PICK n \in 0..2 : n = effects[t]
      BY <1>1 DEF TxTypeOK
    <2>2. PICK m : m = Min({n + 1, 2})
      OBVIOUS
    <2>3. m = IF n + 1 <= 2 THEN n + 1 ELSE 2
      BY <2>2, MinOfTwo
    <2>4. effects'[t] = IF t \in made THEN m ELSE n
      BY <1>3, <2>1, <2>2
    <2> QED  BY <2>1, <2>3, <2>4
  <1>7. TxTypeOK'
    <2>1. effects' = [t \in Txs |-> effects'[t]]
      BY <1>3
    <2>2. effects' \in [Txs -> 0..2]
      BY <1>6, <2>1
    <2> QED  BY <1>1, <1>4, <2>2, EmptyFacts DEF TxTypeOK
  <1>8. OnlyAsked' /\ DirectNotQueued'
    BY <1>1, <1>4, <1>5, <1>6, EmptyFacts DEF OnlyAsked, DirectNotQueued
  <1>9. Settled'
    BY <1>4, EmptyFacts DEF Settled
  <1>10. SentOnceUnlessUncertain'
    BY <1>1, <1>3, <1>5, <1>6 DEF SentOnceUnlessUncertain
  <1>11. Booting' /\ MarkedInHand'
    BY <1>3, <1>4, EmptyFacts DEF Booting, MarkedInHand
  <1> QED  BY <1>7, <1>8, <1>9, <1>10, <1>11 DEF SendInv

-----------------------------------------------------------------------------
(* The theorems *)

\* Every step keeps the invariant.
LEMMA NextSend == SendInv /\ [Next]_vars => SendInv'
  <1> SUFFICES ASSUME SendInv, [Next]_vars PROVE SendInv'
    OBVIOUS
  <1>1. CASE RunStep
    <2>1. CASE ConflictError
      BY <2>1, DropStep DEF ConflictError, NoneReported
    <2> QED
      BY <1>1, <2>1, SentStep, NetworkErrorStep, OtherErrorStep, NotifiedStep,
         NotifyThrowsStep DEF RunStep
  <1>2. CASE BootStep
    BY <1>2, ConnectivityStep, HydrateStep DEF BootStep
  <1>3. ASSUME NEW t \in Txs,
               \/ ExecuteOffline(t) \/ ExecuteDirectly(t) \/ DirectEnds(t)
               \/ DirectNetworkError(t) \/ RemoveTransactions({t})
        PROVE  SendInv'
    BY <1>3, OfflineStep, DirectStep, DirectEndsStep, DirectErrorStep, RemoveStep
  <1>4. CASE (\E t \in Txs : GrowStale(t)) \/ UNCHANGED vars
    <2>1. UNCHANGED <<queue, run, storage, direct, asked, boot, history>>
      BY <1>4 DEF GrowStale, vars
    <2> QED  BY <2>1, CallStep
  <1>5. CASE RemoveTransactions(Txs)
    BY <1>5, RemoveStep
  <1>6. CASE ConnectivityChanges \/ Save \/ Restart
    BY <1>6, ConnectivityStep, SaveStep, RestartStep
  <1> QED  BY <1>1, <1>2, <1>3, <1>4, <1>5, <1>6 DEF Next

\* The invariant holds throughout.
LEMMA AlwaysSend == Spec => []SendInv
  <1>1. Init => SendInv
    BY InitSend
  <1>2. SendInv /\ [Next]_vars => SendInv'
    BY NextSend
  <1> QED  BY <1>1, <1>2, PTL DEF Spec

\* However direct calls, runs of processQueue(), replacements, removals and
\* restarts interleave, a payment is made twice only if it had been made when
\* its call ended in an error or when it was read back from disk: never after a
\* call that reported success.
THEOREM SentOnce == Spec => []SentOnceUnlessUncertain
  <1>1. SendInv => SentOnceUnlessUncertain
    BY DEF SendInv
  <1> QED  BY <1>1, AlwaysSend, PTL

\* Every way out of processQueue() resets the mark "processing": a queued
\* payment that has it is in hand, or was read back from disk.
THEOREM MarksInHand == Spec => []ProcessingIsInHand
  <1>1. SendInv => ProcessingIsInHand
    BY DEF SendInv, MarkedInHand, Processing, ProcessingIsInHand
  <1> QED  BY <1>1, AlwaysSend, PTL
=============================================================================
