--------------------------- MODULE ContainerProofs ---------------------------
(***************************************************************************)
(* Proofs about the containers and the memory of MCLibrary, for any data,  *)
(* entries, blocks and keys: a deque, a linked list and an array list are  *)
(* the sequences that their calls make, and neither the record of rt_mem   *)
(* nor its users lose or confuse a block.  An invariant relates a list to  *)
(* a sequence of its entries, and a hash table to the set of its entries.  *)
(***************************************************************************)
EXTENDS MCLibrary, WellFoundedInduction, SequenceTheorems, FiniteSetTheorems, TLAPS

-----------------------------------------------------------------------------
LEMMA LeastPlace ==
    ASSUME NEW S \in SUBSET Nat, S # {}
    PROVE  \E x \in S : \A y \in S : x <= y
<1>1. \E x \in S : \A y \in S : ~ (<<y, x>> \in OpToRel(<, Nat))
  BY NatLessThanWellFounded, WFMin
<1>2. PICK x \in S : \A y \in S : ~ (<<y, x>> \in OpToRel(<, Nat))
  BY <1>1
<1>3. \A y \in S : x =< y
  <2> SUFFICES ASSUME NEW y \in S, ~(x =< y) PROVE FALSE
    OBVIOUS
  <2>1. y \in Nat /\ x \in Nat /\ y < x
    OBVIOUS
  <2>2. <<y, x>> \in OpToRel(<, Nat)
    BY <2>1 DEF OpToRel
  <2> QED
    BY <1>2, <2>2
<1> QED
  BY <1>3

(* One more element behind the k-th of a list, or one element less: the    *)
(* k-th.                                                                   *)
PutIn(s, t, k, x) ==
    /\ Len(t) = Len(s) + 1
    /\ \A i \in 1..Len(s) + 1 : t[i] = IF i <= k THEN s[i] ELSE IF i = k + 1 THEN x ELSE s[i - 1]
CutOut(s, t, k) ==
    /\ Len(t) = Len(s) - 1
    /\ \A i \in 1..Len(s) - 1 : t[i] = IF i < k THEN s[i] ELSE s[i + 1]

LEMMA FrontIn ==
    ASSUME NEW S, NEW s \in Seq(S), NEW x \in S
    PROVE  <<x>> \o s \in Seq(S) /\ PutIn(s, <<x>> \o s, 0, x)
<1>1. /\ <<x>> \o s \in Seq(S) /\ Len(<<x>> \o s) = Len(s) + 1
      /\ \A i \in 1..Len(s) + 1 : (<<x>> \o s)[i] = IF i = 1 THEN x ELSE s[i - 1]
  OBVIOUS
<1> DEFINE t == <<x>> \o s
<1> HIDE DEF t
<1>2. \A i \in 1..Len(s) + 1 : t[i] = IF i <= 0 THEN s[i] ELSE IF i = 0 + 1 THEN x ELSE s[i - 1]
  BY <1>1 DEF t
<1> QED
  BY <1>1, <1>2 DEF PutIn, t

LEMMA BackIn ==
    ASSUME NEW S, NEW s \in Seq(S), NEW x \in S
    PROVE  Append(s, x) \in Seq(S) /\ PutIn(s, Append(s, x), Len(s), x)
<1>1. /\ Append(s, x) \in Seq(S) /\ Len(Append(s, x)) = Len(s) + 1 /\ Len(s) \in Nat
      /\ \A i \in 1..Len(s) : Append(s, x)[i] = s[i]
      /\ Append(s, x)[Len(s) + 1] = x
  OBVIOUS
<1> DEFINE t == Append(s, x)
<1> HIDE DEF t
<1>2. \A i \in 1..Len(s) + 1 : t[i] = IF i <= Len(s) THEN s[i] ELSE IF i = Len(s) + 1 THEN x ELSE s[i - 1]
  BY <1>1 DEF t
<1> QED
  BY <1>1, <1>2 DEF PutIn, t

LEMMA InsertedIn ==
    ASSUME NEW S, NEW s \in Seq(S), NEW k \in 0..Len(s), NEW x \in S
    PROVE  L!Inserted(s, k, x) \in Seq(S) /\ PutIn(s, L!Inserted(s, k, x), k, x)
<1> DEFINE a == SubSeq(s, 1, k)
           b == SubSeq(s, k + 1, Len(s))
           ax == a \o <<x>>
           t == ax \o b
<1>1. a \in Seq(S) /\ Len(a) = k /\ \A i \in 1..k : a[i] = s[i]
  BY SubSeqProperties
<1>2. b \in Seq(S) /\ Len(b) = Len(s) - k /\ \A i \in 1..Len(s) - k : b[i] = s[k + i]
  BY SubSeqProperties
<1>3. L!Inserted(s, k, x) = t
  BY DEF L!Inserted
<1>4. <<x>> \in Seq(S) /\ Len(<<x>>) = 1 /\ <<x>>[1] = x /\ k \in Int /\ Len(s) \in Int /\ 0 <= k /\ k <= Len(s)
  OBVIOUS
<1> HIDE DEF a, b
<1>5. /\ ax \in Seq(S) /\ Len(ax) = k + 1
      /\ \A i \in 1..k + 1 : ax[i] = IF i <= k THEN a[i] ELSE <<x>>[i - k]
  BY <1>1, <1>4, ConcatProperties
<1>6. \A i \in 1..k + 1 : ax[i] = IF i <= k THEN s[i] ELSE x
  <2> TAKE i \in 1..k + 1
  <2>1. CASE i <= k
    <3>1. i \in 1..k
      BY <1>4, <2>1
    <3> QED
      BY <1>1, <1>5, <2>1, <3>1
  <2>2. CASE ~(i <= k)
    <3>1. ~(i <= k) /\ i - k = 1
      BY <1>4, <2>2
    <3> QED
      BY <1>4, <1>5, <3>1
  <2> QED
    BY <2>1, <2>2
<1> HIDE DEF ax
<1>7. /\ t \in Seq(S) /\ Len(t) = Len(s) + 1
      /\ \A i \in 1..Len(s) + 1 : t[i] = IF i <= k + 1 THEN ax[i] ELSE b[i - (k + 1)]
  <2>1. /\ t \in Seq(S) /\ Len(t) = Len(ax) + Len(b)
        /\ \A i \in 1..Len(ax) + Len(b) : t[i] = IF i <= Len(ax) THEN ax[i] ELSE b[i - Len(ax)]
    BY ONLY <1>2, <1>5, ConcatProperties
  <2>2. Len(ax) = k + 1 /\ Len(ax) + Len(b) = Len(s) + 1
    BY ONLY <1>2, <1>4, <1>5
  <2> HIDE DEF t
  <2> QED
    BY ONLY <2>1, <2>2
<1>8. ASSUME NEW i \in 1..Len(s) + 1
      PROVE  t[i] = IF i <= k THEN s[i] ELSE IF i = k + 1 THEN x ELSE s[i - 1]
  <2>1. CASE i <= k + 1
    <3>1. i \in 1..k + 1 /\ (i <= k \/ i = k + 1) /\ (i <= k => i # k + 1) /\ (i = k + 1 => ~(i <= k))
      BY <1>4, <2>1
    <3> QED
      BY <1>6, <1>7, <2>1, <3>1
  <2>2. CASE ~(i <= k + 1)
    <3>1. i - (k + 1) \in 1..Len(s) - k /\ k + (i - (k + 1)) = i - 1 /\ ~(i <= k) /\ i # k + 1 /\ ~(i <= k + 1)
      BY <1>4, <2>2
    <3> QED
      BY <1>2, <1>7, <3>1
  <2> QED
    BY <2>1, <2>2
<1> QED
  BY <1>3, <1>7, <1>8 DEF PutIn

LEMMA DroppedOut ==
    ASSUME NEW S, NEW s \in Seq(S), NEW k \in 1..Len(s)
    PROVE  L!Dropped(s, k - 1) \in Seq(S) /\ CutOut(s, L!Dropped(s, k - 1), k)
<1> DEFINE a == SubSeq(s, 1, k - 1)
           b == SubSeq(s, k + 1, Len(s))
<1>1. a \in Seq(S) /\ Len(a) = k - 1 /\ \A i \in 1..k - 1 : a[i] = s[i]
  BY SubSeqProperties
<1>2. b \in Seq(S) /\ Len(b) = Len(s) - k /\ \A i \in 1..Len(s) - k : b[i] = s[k + i]
  BY SubSeqProperties
<1>3. L!Dropped(s, k - 1) = a \o b
  <2>1. (k - 1) + 2 = k + 1
    OBVIOUS
  <2> QED
    BY <2>1 DEF L!Dropped
<1> HIDE DEF a, b
<1>4. /\ a \o b \in Seq(S) /\ Len(a \o b) = Len(a) + Len(b)
      /\ \A i \in 1..Len(a) + Len(b) : (a \o b)[i] = IF i <= Len(a) THEN a[i] ELSE b[i - Len(a)]
  BY <1>1, <1>2, ConcatProperties
<1>5. ASSUME NEW i \in 1..Len(s) - 1
      PROVE  (a \o b)[i] = IF i < k THEN s[i] ELSE s[i + 1]
  <2>1. CASE i < k
    BY <2>1, <1>1, <1>2, <1>4
  <2>2. CASE ~(i < k)
    <3>1. (a \o b)[i] = b[i - (k - 1)]
      BY <2>2, <1>1, <1>2, <1>4
    <3>2. b[i - (k - 1)] = s[k + (i - (k - 1))]
      BY <2>2, <1>2
    <3> QED
      BY <2>2, <3>1, <3>2
  <2> QED
    BY <2>1, <2>2
<1>6. Len(a \o b) = Len(s) - 1
  BY <1>1, <1>2, <1>4
<1> QED
  BY <1>3, <1>4, <1>5, <1>6 DEF CutOut

LEMMA TailOut ==
    ASSUME NEW S, NEW s \in Seq(S), s # <<>>
    PROVE  Tail(s) \in Seq(S) /\ CutOut(s, Tail(s), 1)
<1>1. /\ Tail(s) \in Seq(S) /\ Len(Tail(s)) = Len(s) - 1 /\ Len(s) \in Nat
      /\ \A i \in 1..Len(s) - 1 : Tail(s)[i] = s[i + 1]
  OBVIOUS
<1> DEFINE t == Tail(s)
<1> HIDE DEF t
<1>2. \A i \in 1..Len(s) - 1 : t[i] = IF i < 1 THEN s[i] ELSE s[i + 1]
  BY <1>1 DEF t
<1> QED
  BY <1>1, <1>2 DEF CutOut, t

(* The cells of a list hold every cell once.                               *)
Once(s) == \A i, j \in 1..Len(s) : s[i] = s[j] => i = j

LEMMA OncePut ==
    ASSUME NEW S, NEW s \in Seq(S), NEW t \in Seq(S), Once(s), NEW k \in 0..Len(s), NEW x, PutIn(s, t, k, x),
           \A i \in 1..Len(s) : s[i] # x
    PROVE  Once(t)
<1> DEFINE Old(i) == IF i <= k THEN i ELSE i - 1
<1>1. Len(s) \in Nat /\ k \in Int /\ 0 <= k /\ k <= Len(s) /\ Len(t) = Len(s) + 1
  BY DEF PutIn
<1>2. ASSUME NEW i \in 1..Len(t), i # k + 1
      PROVE  Old(i) \in 1..Len(s) /\ t[i] = s[Old(i)] /\ t[i] # x
  <2>1. CASE i <= k
    <3>1. Old(i) = i /\ i \in 1..Len(s) /\ t[i] = s[i]
      BY <1>1, <2>1 DEF PutIn
    <3> QED
      BY <3>1
  <2>2. CASE i > k + 1
    <3>1. Old(i) = i - 1 /\ i - 1 \in 1..Len(s) /\ t[i] = s[i - 1]
      BY <1>1, <2>2 DEF PutIn
    <3> QED
      BY <3>1
  <2> QED
    BY <1>1, <1>2, <2>1, <2>2
<1>3. k + 1 \in 1..Len(t) /\ t[k + 1] = x
  BY <1>1 DEF PutIn
<1>4. ASSUME NEW i \in 1..Len(t), NEW j \in 1..Len(t), i # k + 1, j # k + 1, Old(i) = Old(j) PROVE i = j
  BY <1>1, <1>4
<1> HIDE DEF Old
<1> SUFFICES ASSUME NEW i \in 1..Len(t), NEW j \in 1..Len(t), t[i] = t[j] PROVE i = j
  BY DEF Once
<1>5. CASE i = k + 1 \/ j = k + 1
  BY <1>2, <1>3, <1>5
<1>6. CASE i # k + 1 /\ j # k + 1
  <2>1. Old(i) = Old(j)
    BY <1>2, <1>6 DEF Once
  <2> QED
    BY <1>4, <1>6, <2>1
<1> QED
  BY <1>5, <1>6

LEMMA OnceCut ==
    ASSUME NEW S, NEW s \in Seq(S), NEW t \in Seq(S), Once(s), NEW k \in 1..Len(s), CutOut(s, t, k)
    PROVE  Once(t) /\ \A i \in 1..Len(t) : t[i] # s[k]
<1> DEFINE Old(i) == IF i < k THEN i ELSE i + 1
<1>1. Len(s) \in Nat /\ k \in Int /\ 1 <= k /\ k <= Len(s) /\ Len(t) = Len(s) - 1
  BY DEF CutOut
<1>2. ASSUME NEW i \in 1..Len(t)
      PROVE  Old(i) \in 1..Len(s) /\ t[i] = s[Old(i)] /\ Old(i) # k
  <2>1. CASE i < k
    BY <1>1, <2>1 DEF CutOut
  <2>2. CASE i >= k
    BY <1>1, <2>2 DEF CutOut
  <2> QED
    BY <1>1, <2>1, <2>2
<1>3. ASSUME NEW i \in 1..Len(t), NEW j \in 1..Len(t), Old(i) = Old(j) PROVE i = j
  BY <1>1, <1>3
<1> HIDE DEF Old
<1> QED
  BY <1>2, <1>3 DEF Once

(* The i-th cell of a list, NULL before the first and behind the last.     *)
Cl(s, i) == IF i \in 1..Len(s) THEN s[i] ELSE NULL

LEMMA ClIs ==
    ASSUME NEW s \in Seq(Cells), NEW i \in Int
    PROVE  /\ Cl(s, i) \in Cells \union {NULL}
           /\ Cl(s, i) # NULL <=> i \in 1..Len(s)
           /\ Len(s) \in Nat
BY ListsAssumption DEF Cl

LEMMA ClPut ==
    ASSUME NEW s \in Seq(Cells), NEW t \in Seq(Cells), NEW k \in 0..Len(s), NEW c, PutIn(s, t, k, c)
    PROVE  \A i \in Int : Cl(t, i) = IF i <= k THEN Cl(s, i) ELSE IF i = k + 1 THEN c ELSE Cl(s, i - 1)
<1>1. Len(s) \in Nat /\ k \in Int /\ 0 <= k /\ k <= Len(s) /\ Len(t) = Len(s) + 1
      /\ \A i \in 1..Len(s) + 1 : t[i] = IF i <= k THEN s[i] ELSE IF i = k + 1 THEN c ELSE s[i - 1]
  BY DEF PutIn
<1>2. ASSUME NEW i \in Int, i <= k PROVE Cl(t, i) = Cl(s, i)
  BY <1>1, <1>2 DEF Cl
<1>3. Cl(t, k + 1) = c
  BY <1>1 DEF Cl
<1>4. ASSUME NEW i \in Int, i > k + 1 PROVE Cl(t, i) = Cl(s, i - 1)
  BY <1>1, <1>4 DEF Cl
<1>5. \A i \in Int : i <= k \/ i = k + 1 \/ i > k + 1
  BY <1>1
<1>6. k + 1 \in Int /\ ~(k + 1 <= k) /\ \A i \in Int : i > k + 1 => ~(i <= k) /\ i # k + 1
  BY <1>1
<1> QED
  BY <1>2, <1>3, <1>4, <1>5, <1>6

LEMMA ClCut ==
    ASSUME NEW s \in Seq(Cells), NEW t \in Seq(Cells), NEW k \in 1..Len(s), CutOut(s, t, k)
    PROVE  \A i \in Int : Cl(t, i) = IF i < k THEN Cl(s, i) ELSE Cl(s, i + 1)
<1>1. Len(s) \in Nat /\ k \in Int /\ 1 <= k /\ k <= Len(s) /\ Len(t) = Len(s) - 1
      /\ \A i \in 1..Len(s) - 1 : t[i] = IF i < k THEN s[i] ELSE s[i + 1]
  BY DEF CutOut
<1>2. ASSUME NEW i \in Int, i < k PROVE Cl(t, i) = Cl(s, i)
  BY <1>1, <1>2 DEF Cl
<1>3. ASSUME NEW i \in Int, i >= k PROVE Cl(t, i) = Cl(s, i + 1)
  BY <1>1, <1>3 DEF Cl
<1>4. \A i \in Int : i >= k <=> ~(i < k)
  BY <1>1
<1> QED
  BY <1>2, <1>3, <1>4

LEMMA ClDistinct ==
    ASSUME NEW s \in Seq(Cells), Once(s), NEW i \in 1..Len(s), NEW j \in Int, Cl(s, i) = Cl(s, j)
    PROVE  i = j
BY ListsAssumption DEF Once, Cl

-----------------------------------------------------------------------------
(* The deque.  Only its tail says nothing while it is empty.               *)
InUse(data, next_) == [used |-> TRUE, data |-> data, next |-> next_]

LEMMA RecordIs ==
    ASSUME NEW a, NEW b, NEW c, NEW u
    PROVE  /\ [used |-> u, data |-> a, next |-> b].used = u
           /\ [used |-> u, data |-> a, next |-> b].data = a
           /\ [used |-> u, data |-> a, next |-> b].next = b
           /\ [[used |-> u, data |-> a, next |-> b] EXCEPT !.next = c] = [used |-> u, data |-> a, next |-> c]
OBVIOUS

LEMMA InUseIs ==
    ASSUME NEW a, NEW b, NEW c
    PROVE  InUse(a, b).data = a /\ InUse(a, b).next = b /\ [InUse(a, b) EXCEPT !.next = c] = InUse(a, c)
<1> DEFINE u == TRUE
<1>1. InUse(a, b) = [used |-> u, data |-> a, next |-> b] /\ InUse(a, c) = [used |-> u, data |-> a, next |-> c]
  BY DEF InUse
<1> HIDE DEF u
<1> QED
  BY ONLY <1>1, RecordIs

LEMMA IsInUse == ASSUME NEW a, NEW b PROVE InUse(a, b).used
BY DEF InUse

(* The deque q of the entries E holds d: s are its cells in their order,   *)
(* each next leads to the following one, and only a deque that is not empty *)
(* says where its tail is.                                                 *)
DequeGood(E, q, s, d) ==
    /\ s \in Seq(Cells) /\ d \in Seq(Data) /\ Len(s) = Len(d) /\ Once(s)
    /\ q = [head |-> Cl(s, 1), tail |-> q.tail, size |-> Len(s)]
    /\ Len(s) > 0 => q.tail = Cl(s, Len(s))
    /\ E = [c \in Cells |-> E[c]]
    /\ \A i \in 1..Len(s) : E[s[i]] = InUse(d[i], Cl(s, i + 1))
DequeInv == \E s : DequeGood(dqEntry, dq, s, dequeIs)

LEMMA DequeStart == ASSUME L!Init PROVE DequeInv
<1>1. <<>> \in Seq(Cells) /\ <<>> \in Seq(Data) /\ Len(<<>>) = 0
  BY EmptySeq
<1>2. Once(<<>>) /\ \A i \in Int : Cl(<<>>, i) = NULL
  BY <1>1 DEF Once, Cl
<1>3. dequeIs = <<>> /\ dq = [head |-> NULL, tail |-> NULL, size |-> 0]
      /\ dqEntry = [c \in Cells |-> [used |-> FALSE, data |-> NULL, next |-> NULL]]
  BY DEF L!Init
<1>4. DequeGood(dqEntry, dq, <<>>, dequeIs)
  BY <1>1, <1>2, <1>3 DEF DequeGood
<1> QED
  BY <1>4 DEF DequeInv

LEMMA DequeFields ==
    ASSUME NEW E, NEW q, NEW s, NEW d, DequeGood(E, q, s, d), NEW i \in 1..Len(s)
    PROVE  E[s[i]].data = d[i] /\ E[s[i]].next = Cl(s, i + 1)
<1>1. E[s[i]] = InUse(d[i], Cl(s, i + 1))
  BY DEF DequeGood
<1> QED
  BY ONLY <1>1, InUseIs

LEMMA DequePut ==
    ASSUME NEW E, NEW q, NEW s, NEW d, DequeGood(E, q, s, d),
           NEW k \in 0..Len(s), NEW c \in Cells, \A i \in 1..Len(s) : s[i] # c, NEW x \in Data,
           NEW t \in Seq(Cells), PutIn(s, t, k, c), NEW e \in Seq(Data), PutIn(d, e, k, x),
           NEW E2, E2 = [y \in Cells |-> E2[y]],
           E2[c] = InUse(x, Cl(s, k + 1)),
           k > 0 => E2[s[k]] = InUse(d[k], c),
           \A y \in Cells : y # c /\ y # Cl(s, k) => E2[y] = E[y],
           NEW q2, q2 = [head |-> IF k = 0 THEN c ELSE q.head,
                         tail |-> IF k = Len(s) THEN c ELSE q.tail, size |-> q.size + 1]
    PROVE  DequeGood(E2, q2, t, e)
<1>1. /\ s \in Seq(Cells) /\ d \in Seq(Data) /\ Len(s) = Len(d) /\ Once(s)
      /\ q.head = Cl(s, 1) /\ q.size = Len(s) /\ (Len(s) > 0 => q.tail = Cl(s, Len(s)))
      /\ \A i \in 1..Len(s) : E[s[i]] = InUse(d[i], Cl(s, i + 1))
  BY DEF DequeGood
<1>2. /\ Len(s) \in Nat /\ k \in Int /\ 0 <= k /\ k <= Len(s) /\ Len(t) = Len(s) + 1 /\ Len(e) = Len(s) + 1
      /\ \A i \in 1..Len(s) : s[i] \in Cells
  BY <1>1 DEF PutIn
<1>3. \A i \in Int : Cl(t, i) = IF i <= k THEN Cl(s, i) ELSE IF i = k + 1 THEN c ELSE Cl(s, i - 1)
  BY <1>1, ClPut
<1>4. Once(t)
  BY <1>1, OncePut
<1>5. \A i \in 1..Len(s) + 1 : /\ t[i] = IF i <= k THEN s[i] ELSE IF i = k + 1 THEN c ELSE s[i - 1]
                               /\ e[i] = IF i <= k THEN d[i] ELSE IF i = k + 1 THEN x ELSE d[i - 1]
  BY <1>1 DEF PutIn
<1>6. ASSUME NEW i \in 1..Len(t)
      PROVE  E2[t[i]] = InUse(e[i], Cl(t, i + 1))
  <2>0. i \in Int /\ i + 1 \in Int /\ i \in 1..Len(s) + 1
    BY <1>2
  <2>1. CASE i < k
    <3>1. /\ t[i] = s[i] /\ e[i] = d[i] /\ Cl(t, i + 1) = Cl(s, i + 1)
          /\ i \in 1..Len(s) /\ k \in 1..Len(s) /\ i # k
      BY <1>2, <1>3, <1>5, <2>0, <2>1
    <3>2. s[i] # c /\ s[i] # Cl(s, k)
      BY <1>1, <1>2, <3>1 DEF Once, Cl
    <3>3. E2[s[i]] = E[s[i]]
      BY <1>2, <3>1, <3>2
    <3> QED
      BY <1>1, <3>1, <3>3
  <2>2. CASE i = k
    <3>1. t[i] = s[k] /\ e[i] = d[k] /\ Cl(t, i + 1) = c /\ k > 0
      BY <1>2, <1>3, <1>5, <2>0, <2>2
    <3> QED
      BY <3>1
  <2>3. CASE i = k + 1
    <3>1. t[i] = c /\ e[i] = x /\ Cl(t, i + 1) = Cl(s, (i + 1) - 1) /\ (i + 1) - 1 = k + 1
      BY <1>2, <1>3, <1>5, <2>0, <2>3
    <3> QED
      BY <3>1
  <2>4. CASE i > k + 1
    <3>1. /\ t[i] = s[i - 1] /\ e[i] = d[i - 1] /\ Cl(t, i + 1) = Cl(s, (i + 1) - 1)
          /\ i - 1 \in 1..Len(s) /\ i - 1 # k /\ (i + 1) - 1 = (i - 1) + 1
      BY <1>2, <1>3, <1>5, <2>0, <2>4
    <3>2. s[i - 1] # c /\ s[i - 1] # Cl(s, k)
      <4>1. s[i - 1] # NULL
        BY <1>2, <3>1, ListsAssumption
      <4> QED
        BY <1>1, <1>2, <3>1, <4>1 DEF Once, Cl
    <3>3. E2[s[i - 1]] = E[s[i - 1]]
      BY <1>2, <3>1, <3>2
    <3> QED
      BY <1>1, <3>1, <3>3
  <2> QED
    BY <1>2, <2>0, <2>1, <2>2, <2>3, <2>4
<1>7. q2.head = Cl(t, 1) /\ q2.size = Len(t) /\ q2.tail = Cl(t, Len(t))
      /\ q2 = [head |-> q2.head, tail |-> q2.tail, size |-> q2.size]
  <2>1. Cl(t, 1) = IF k = 0 THEN c ELSE Cl(s, 1)
    BY <1>2, <1>3
  <2>2. Cl(t, Len(t)) = IF k = Len(s) THEN c ELSE Cl(s, Len(s))
    <3>1. Len(t) \in Int /\ ~(Len(t) <= k) /\ (Len(t) = k + 1 <=> k = Len(s)) /\ Len(t) - 1 = Len(s)
      BY <1>2
    <3> QED
      BY <1>3, <3>1
  <2>3. k # Len(s) => Len(s) > 0
    BY <1>2
  <2> QED
    BY <1>1, <1>2, <2>1, <2>2, <2>3
<1> QED
  BY <1>2, <1>4, <1>6, <1>7 DEF DequeGood

LEMMA DequePush == ASSUME DequeInv, NEW x \in Data, NEW h \in BOOLEAN, L!deque_push(x, h) PROVE DequeInv'
<1>1. PICK s : DequeGood(dqEntry, dq, s, dequeIs)
  BY DEF DequeInv
<1> DEFINE d == dequeIs
           k == IF h THEN 0 ELSE Len(s)
           e == IF h THEN <<x>> \o d ELSE Append(d, x)
<1>2. /\ s \in Seq(Cells) /\ d \in Seq(Data) /\ Len(s) = Len(d) /\ Len(s) \in Nat /\ k \in 0..Len(s)
      /\ dq.head = Cl(s, 1) /\ dq.size = Len(s) /\ (Len(s) > 0 => dq.tail = Cl(s, Len(s)))
      /\ dq = [head |-> dq.head, tail |-> dq.tail, size |-> dq.size]
      /\ dqEntry = [y \in Cells |-> dqEntry[y]]
      /\ \A i \in 1..Len(s) : /\ dqEntry[s[i]] = InUse(d[i], Cl(s, i + 1))
                              /\ s[i] \in Cells
  BY <1>1 DEF DequeGood
<1>3. PICK c \in Cells :
        /\ ~dqEntry[c].used
        /\ LET entry == InUse(x, IF dq.size > 0 /\ h THEN dq.head ELSE NULL)
               stored == [dqEntry EXCEPT ![c] = entry]
           IN  IF dq.size = 0
               THEN dqEntry' = stored /\ dq' = [head |-> c, tail |-> c, size |-> 1]
               ELSE IF h
               THEN dqEntry' = stored /\ dq' = [dq EXCEPT !.head = c, !.size = @ + 1]
               ELSE /\ dqEntry' = [stored EXCEPT ![dq.tail].next = c]
                    /\ dq' = [dq EXCEPT !.tail = c, !.size = @ + 1]
  BY DEF L!deque_push, L!deque_entry_malloc, InUse
<1>4. ASSUME NEW i \in 1..Len(s) PROVE s[i] # c
  <2> SUFFICES ASSUME s[i] = c PROVE FALSE
    OBVIOUS
  <2>1. dqEntry[c] = InUse(d[i], Cl(s, i + 1))
    BY <1>2
  <2>2. dqEntry[c].used
    BY ONLY <2>1, IsInUse
  <2> QED
    BY <1>3, <2>2
<1>0. Len(s) \in Nat /\ dq.head = Cl(s, 1) /\ dq.size = Len(s) /\ k \in 0..Len(s)
      /\ \A i \in 1..Len(s) : s[i] \in Cells
  BY <1>2
<1> DEFINE t == IF h THEN <<c>> \o s ELSE Append(s, c)
<1>5. t \in Seq(Cells) /\ PutIn(s, t, k, c)
  BY <1>2, FrontIn, BackIn
<1>6. e \in Seq(Data) /\ PutIn(d, e, k, x) /\ dequeIs' = e
  BY <1>2, FrontIn, BackIn DEF L!deque_push
<1> DEFINE entry == InUse(x, Cl(s, k + 1))
<1>7. Cl(s, k + 1) = IF dq.size > 0 /\ h THEN dq.head ELSE NULL
  <2>1. CASE h
    <3>1. k = 0 /\ k + 1 = 1
      BY <2>1
    <3> QED
      BY <1>0, <2>1, <3>1 DEF Cl
  <2>2. CASE ~h
    <3>1. k = Len(s)
      BY <2>2
    <3> HIDE DEF k
    <3> QED
      BY <1>0, <2>2, <3>1 DEF Cl
  <2> QED
    BY <2>1, <2>2
<1>8. dqEntry' = IF k > 0 THEN [dqEntry EXCEPT ![c] = entry, ![Cl(s, k)].next = c]
                          ELSE [dqEntry EXCEPT ![c] = entry]
  <2>1. CASE dq.size = 0
    <3>1. k = 0
      BY <1>2, <2>1
    <3> QED
      BY <1>3, <1>7, <2>1, <3>1
  <2>2. CASE dq.size # 0 /\ h
    <3>1. k = 0
      BY <1>2, <2>2
    <3> QED
      BY <1>3, <1>7, <2>2, <3>1
  <2>3. CASE dq.size # 0 /\ ~h
    <3>1. k > 0 /\ dq.tail = Cl(s, k)
      BY <1>2, <2>3
    <3> QED
      BY <1>3, <1>7, <2>3, <3>1
  <2> QED
    BY <2>1, <2>2, <2>3
<1>9. dq' = [head |-> IF k = 0 THEN c ELSE dq.head,
             tail |-> IF k = Len(s) THEN c ELSE dq.tail, size |-> dq.size + 1]
  <2>1. CASE dq.size = 0
    <3>1. k = 0 /\ k = Len(s)
      BY <1>2, <2>1
    <3> QED
      BY <1>3, <2>1, <3>1
  <2>2. CASE dq.size # 0 /\ h
    <3>1. k = 0 /\ k # Len(s)
      BY <1>2, <2>2
    <3>2. dq' = [dq EXCEPT !.head = c, !.size = @ + 1]
      BY <1>3, <2>2
    <3> QED
      BY <1>2, <3>1, <3>2
  <2>3. CASE dq.size # 0 /\ ~h
    <3>1. k # 0 /\ k = Len(s)
      BY <1>2, <2>3
    <3>2. dq' = [dq EXCEPT !.tail = c, !.size = @ + 1]
      BY <1>3, <2>3
    <3> QED
      BY <1>2, <3>1, <3>2
  <2> QED
    BY <2>1, <2>2, <2>3
<1> HIDE DEF t, e, k, entry
<1>10. /\ dqEntry' = [y \in Cells |-> dqEntry'[y]]
       /\ dqEntry'[c] = entry
       /\ k > 0 => dqEntry'[s[k]] = InUse(d[k], c)
       /\ \A y \in Cells : y # c /\ y # Cl(s, k) => dqEntry'[y] = dqEntry[y]
  <2>1. CASE k > 0
    <3>1. k \in 1..Len(s) /\ Cl(s, k) = s[k] /\ s[k] \in Cells /\ s[k] # c
      BY <1>0, <1>4, <2>1 DEF Cl
    <3>2. dqEntry[s[k]] = InUse(d[k], Cl(s, k + 1))
      BY <1>2, <3>1
    <3>3. dqEntry' = [dqEntry EXCEPT ![c] = entry, ![s[k]].next = c]
      BY <1>8, <2>1, <3>1
    <3>4. dqEntry'[s[k]] = [dqEntry[s[k]] EXCEPT !.next = c]
      BY <1>2, <3>1, <3>3
    <3>5. dqEntry'[s[k]] = InUse(d[k], c)
      BY <3>2, <3>4, InUseIs
    <3> QED
      BY <1>2, <3>1, <3>3, <3>5
  <2>2. CASE ~(k > 0)
    <3>1. dqEntry' = [dqEntry EXCEPT ![c] = entry]
      BY <1>8, <2>2
    <3> QED
      BY <1>2, <2>2, <3>1
  <2> QED
    BY <2>1, <2>2
<1>11. DequeGood(dqEntry', dq', t, e)
  <2>1. \A i \in 1..Len(s) : s[i] # c
    BY <1>4
  <2>2. dqEntry'[c] = InUse(x, Cl(s, k + 1))
    BY <1>10 DEF entry
  <2> QED
    <3> DEFINE E2 == dqEntry'
               q2 == dq'
    <3>1. /\ E2 = [y \in Cells |-> E2[y]]
          /\ k > 0 => E2[s[k]] = InUse(d[k], c)
          /\ \A y \in Cells : y # c /\ y # Cl(s, k) => E2[y] = dqEntry[y]
      BY <1>10
    <3>2. E2[c] = InUse(x, Cl(s, k + 1))
      BY <2>2
    <3>3. q2 = [head |-> IF k = 0 THEN c ELSE dq.head,
                tail |-> IF k = Len(s) THEN c ELSE dq.tail, size |-> dq.size + 1]
      BY <1>9
    <3> HIDE DEF E2, q2
    <3>4. DequeGood(E2, q2, t, e)
      BY ONLY <1>1, <1>0, <1>5, <1>6, <2>1, <3>1, <3>2, <3>3, DequePut, x \in Data, c \in Cells
    <3> QED
      BY <3>4 DEF E2, q2
<1>12. DequeGood(dqEntry', dq', t, dequeIs')
  BY <1>6, <1>11
<1> QED
  BY <1>12 DEF DequeInv, DequeGood, Cl, Once

LEMMA DequePop == ASSUME DequeInv, L!deque_pop PROVE DequeInv'
<1>1. PICK s : DequeGood(dqEntry, dq, s, dequeIs)
  BY DEF DequeInv
<1> DEFINE d == dequeIs
           t == Tail(s)
           e == Tail(d)
           freed == [used |-> FALSE, data |-> IF ownArray THEN NULL ELSE dqEntry[dq.head].data,
                     next |-> IF ownArray THEN NULL ELSE dqEntry[dq.head].next]
<1>2. /\ s \in Seq(Cells) /\ d \in Seq(Data) /\ Len(s) = Len(d) /\ Len(s) \in Nat /\ Len(s) > 0 /\ Once(s)
      /\ dq.head = Cl(s, 1) /\ dq.size = Len(s) /\ dq.tail = Cl(s, Len(s))
      /\ dq = [head |-> dq.head, tail |-> dq.tail, size |-> dq.size]
      /\ dqEntry = [y \in Cells |-> dqEntry[y]]
      /\ \A i \in 1..Len(s) : /\ dqEntry[s[i]] = InUse(d[i], Cl(s, i + 1))
                              /\ s[i] \in Cells
  <2>1. dq.size = Len(s) /\ dq.size > 0
    BY <1>1 DEF DequeGood, L!deque_pop
  <2> QED
    BY <1>1, <2>1 DEF DequeGood
<1>3. dq.head = s[1] /\ 1 \in 1..Len(s) /\ s[1] \in Cells /\ s # <<>> /\ d # <<>>
  <2>1. 1 \in 1..Len(s) /\ dq.head = Cl(s, 1) /\ s # <<>> /\ d # <<>>
    BY <1>2
  <2>2. Cl(s, 1) = s[1]
    BY <2>1 DEF Cl
  <2> QED
    BY <1>2, <2>1, <2>2
<1>4. t \in Seq(Cells) /\ CutOut(s, t, 1) /\ e \in Seq(Data) /\ CutOut(d, e, 1)
  BY <1>2, <1>3, TailOut
<1>5. dequeIs' = e /\ dqEntry' = [dqEntry EXCEPT ![s[1]] = freed]
      /\ dq' = [dq EXCEPT !.head = dqEntry[s[1]].next, !.size = @ - 1]
  BY <1>3 DEF L!deque_pop
<1>6. dqEntry[s[1]].next = Cl(s, 2)
  <2>1. dqEntry[s[1]].next = Cl(s, 1 + 1) /\ 1 + 1 = 2
    BY <1>1, <1>3, DequeFields
  <2> QED
    BY <2>1
<1>7. dq' = [head |-> Cl(s, 2), tail |-> dq.tail, size |-> Len(s) - 1]
  BY <1>2, <1>5, <1>6
<1> HIDE DEF t, e, freed
<1>8. \A i \in Int : Cl(t, i) = IF i < 1 THEN Cl(s, i) ELSE Cl(s, i + 1)
  <2>1. s \in Seq(Cells) /\ t \in Seq(Cells) /\ 1 \in 1..Len(s) /\ CutOut(s, t, 1)
    BY <1>2, <1>3, <1>4
  <2> QED
    BY ONLY <2>1, ClCut
<1>9. Once(t) /\ \A i \in 1..Len(t) : t[i] # s[1]
  <2>1. s \in Seq(Cells) /\ t \in Seq(Cells) /\ Once(s) /\ 1 \in 1..Len(s) /\ CutOut(s, t, 1)
    BY <1>2, <1>3, <1>4
  <2> QED
    BY ONLY <2>1, OnceCut
<1>10. Len(t) = Len(s) - 1 /\ Len(e) = Len(t) /\ Len(t) \in Nat
       /\ \A i \in 1..Len(t) : t[i] = s[i + 1] /\ e[i] = d[i + 1]
  BY <1>2, <1>4 DEF CutOut
<1>11. ASSUME NEW i \in 1..Len(t)
       PROVE  dqEntry'[t[i]] = InUse(e[i], Cl(t, i + 1))
  <2>1. i + 1 \in 1..Len(s) /\ t[i] = s[i + 1] /\ e[i] = d[i + 1] /\ t[i] # s[1]
    BY <1>2, <1>9, <1>10
  <2>2. Cl(t, i + 1) = Cl(s, (i + 1) + 1)
    BY <1>8, <1>10
  <2>3. dqEntry'[t[i]] = dqEntry[t[i]]
    BY <1>2, <1>5, <2>1
  <2> QED
    BY <1>2, <2>1, <2>2, <2>3
<1>12. Cl(t, 1) = Cl(s, 2) /\ (Len(t) > 0 => Cl(t, Len(t)) = Cl(s, Len(s)))
  <2>1. Len(t) > 0 => ~(Len(t) < 1) /\ Len(t) + 1 = Len(s)
    BY <1>10, <1>2
  <2> QED
    BY <1>8, <1>10, <2>1
<1>13. dqEntry' = [y \in Cells |-> dqEntry'[y]]
  BY <1>2, <1>5
<1>14. DequeGood(dqEntry', dq', t, e)
  BY <1>2, <1>4, <1>7, <1>9, <1>10, <1>11, <1>12, <1>13 DEF DequeGood
<1>15. DequeGood(dqEntry', dq', t, dequeIs')
  BY <1>5, <1>14
<1> QED
  BY <1>15 DEF DequeInv, DequeGood, Cl, Once

(* The walk of deque_get() passes the cells one by one.                    *)
LEMMA DequeGet ==
    ASSUME DequeInv, NEW index \in Nat, index < dq.size
    PROVE  L!deque_get(index) = dequeIs[index + 1]
<1>1. PICK s : DequeGood(dqEntry, dq, s, dequeIs)
  BY DEF DequeInv
<1>0. s \in Seq(Cells) /\ Len(s) \in Nat /\ index < Len(s) /\ dq.head = Cl(s, 1)
  BY <1>1 DEF DequeGood
<1>9. \A i \in 1..Len(s) : dqEntry[s[i]].data = dequeIs[i] /\ dqEntry[s[i]].next = Cl(s, i + 1)
  BY <1>1, DequeFields
<1>10. \A i \in 1..Len(s) : s[i] \in Cells /\ s[i] # NULL /\ Cl(s, i) = s[i]
  BY <1>0, ListsAssumption DEF Cl
<1>2. /\ s \in Seq(Cells) /\ Len(s) \in Nat /\ index < Len(s) /\ dq.head = Cl(s, 1)
      /\ \A i \in 1..Len(s) : /\ dqEntry[s[i]].data = dequeIs[i] /\ dqEntry[s[i]].next = Cl(s, i + 1)
                              /\ s[i] \in Cells /\ s[i] # NULL /\ Cl(s, i) = s[i]
  BY <1>0, <1>9, <1>10
<1> DEFINE Step(f) == [i \in 0..index |-> IF i = 0 THEN dq.head
                              ELSE IF f[i - 1] = NULL THEN NULL ELSE dqEntry[f[i - 1]].next]
           reach == CHOOSE f : f = Step(f)
           walk == [i \in 0..index |-> Cl(s, i + 1)]
<1>3. walk = Step(walk)
  <2> SUFFICES ASSUME NEW i \in 0..index
               PROVE  Cl(s, i + 1) = IF i = 0 THEN dq.head
                                     ELSE IF walk[i - 1] = NULL THEN NULL ELSE dqEntry[walk[i - 1]].next
    OBVIOUS
  <2>1. CASE i = 0
    BY <1>2, <2>1
  <2>2. CASE i # 0
    <3>1. i - 1 \in 0..index /\ (i - 1) + 1 = i /\ i \in 1..Len(s)
      BY <1>2, <2>2
    <3>2. walk[i - 1] = s[i]
      BY <1>2, <3>1
    <3> QED
      BY <1>2, <2>2, <3>1, <3>2
  <2> QED
    BY <2>1, <2>2
<1> HIDE DEF Step
<1>4. reach = Step(reach)
  BY <1>3
<1>5. \A i \in 0..index : reach[i] = Cl(s, i + 1)
  <2> DEFINE Off == {i \in 0..index : reach[i] # Cl(s, i + 1)}
  <2> SUFFICES ASSUME Off # {} PROVE FALSE
    OBVIOUS
  <2>1. PICK i \in Off : \A j \in Off : i <= j
    <3>1. Off \in SUBSET Nat
      OBVIOUS
    <3> HIDE DEF Off
    <3> QED
      BY <3>1, LeastPlace
  <2>2. reach[i] = IF i = 0 THEN dq.head ELSE IF reach[i - 1] = NULL THEN NULL ELSE dqEntry[reach[i - 1]].next
    BY <1>4 DEF Step
  <2> HIDE DEF reach
  <2>3. i # 0
    BY <1>2, <2>2
  <2>4. i - 1 \in 0..index /\ (i - 1) + 1 = i /\ i \in 1..Len(s) /\ i - 1 \notin Off
    BY <1>2, <2>1, <2>3
  <2>5. reach[i - 1] = s[i]
    BY <1>2, <2>4
  <2>6. reach[i] = Cl(s, i + 1)
    BY <1>2, <2>2, <2>3, <2>4, <2>5
  <2> QED
    BY <2>6
<1>6. reach[index] = s[index + 1] /\ index + 1 \in 1..Len(s)
  BY <1>2, <1>5
<1>7. L!deque_get(index) = IF reach[index] = NULL THEN NULL ELSE dqEntry[reach[index]].data
  BY DEF L!deque_get, Step
<1> QED
  BY <1>2, <1>6, <1>7

-----------------------------------------------------------------------------
(* The linked list.                                                        *)
Linked(data, next_, prev_) == [used |-> TRUE, data |-> data, next |-> next_, prev |-> prev_]

LEMMA LinkRecord ==
    ASSUME NEW a, NEW n, NEW p, NEW x, NEW u
    PROVE  LET r == [used |-> u, data |-> a, next |-> n, prev |-> p]
           IN  /\ r.data = a /\ r.next = n /\ r.prev = p
               /\ [r EXCEPT !.next = x] = [used |-> u, data |-> a, next |-> x, prev |-> p]
               /\ [r EXCEPT !.prev = x] = [used |-> u, data |-> a, next |-> n, prev |-> x]
               /\ [r EXCEPT !.data = x] = [used |-> u, data |-> x, next |-> n, prev |-> p]
OBVIOUS

LEMMA LinkedEntry ==
    ASSUME NEW a, NEW n, NEW p, NEW x
    PROVE  LET r == Linked(a, n, p)
           IN  /\ r.data = a /\ r.next = n /\ r.prev = p
               /\ [r EXCEPT !.next = x] = Linked(a, x, p)
               /\ [r EXCEPT !.prev = x] = Linked(a, n, x)
               /\ [r EXCEPT !.data = x] = Linked(x, n, p)
<1> DEFINE u == TRUE
           r == Linked(a, n, p)
<1>1. /\ r = [used |-> u, data |-> a, next |-> n, prev |-> p]
      /\ Linked(a, x, p) = [used |-> u, data |-> a, next |-> x, prev |-> p]
      /\ Linked(a, n, x) = [used |-> u, data |-> a, next |-> n, prev |-> x]
      /\ Linked(x, n, p) = [used |-> u, data |-> x, next |-> n, prev |-> p]
  BY DEF Linked
<1> HIDE DEF u, r
<1>2. /\ r.data = a /\ r.next = n /\ r.prev = p
      /\ [r EXCEPT !.next = x] = Linked(a, x, p)
      /\ [r EXCEPT !.prev = x] = Linked(a, n, x)
      /\ [r EXCEPT !.data = x] = Linked(x, n, p)
  BY ONLY <1>1, LinkRecord
<1> QED
  BY <1>2 DEF r

LEMMA IsLinked == ASSUME NEW a, NEW n, NEW p PROVE Linked(a, n, p).used
BY DEF Linked

(* The same of a linked list, whose cells lead back as well.               *)
LinkedGood(E, l, s, d) ==
    /\ s \in Seq(Cells) /\ d \in Seq(Data) /\ Len(s) = Len(d) /\ Once(s)
    /\ l = [head |-> Cl(s, 1), tail |-> Cl(s, Len(s)), size |-> Len(s)]
    /\ E = [c \in Cells |-> E[c]]
    /\ \A i \in 1..Len(s) : E[s[i]] = Linked(d[i], Cl(s, i + 1), Cl(s, i - 1))
LinkedInv == \E s : LinkedGood(llEntry, ll, s, linkedIs)

LEMMA LinkedFields ==
    ASSUME NEW E, NEW l, NEW s, NEW d, LinkedGood(E, l, s, d), NEW i \in 1..Len(s)
    PROVE  E[s[i]].data = d[i] /\ E[s[i]].next = Cl(s, i + 1) /\ E[s[i]].prev = Cl(s, i - 1)
<1>1. E[s[i]] = Linked(d[i], Cl(s, i + 1), Cl(s, i - 1))
  BY DEF LinkedGood
<1> QED
  BY ONLY <1>1, LinkedEntry

LEMMA LinkedFacts ==
    ASSUME NEW E, NEW l, NEW s, NEW d, LinkedGood(E, l, s, d)
    PROVE  /\ s \in Seq(Cells) /\ d \in Seq(Data) /\ Len(s) = Len(d) /\ Len(s) \in Nat /\ Once(s)
           /\ l.head = Cl(s, 1) /\ l.tail = Cl(s, Len(s)) /\ l.size = Len(s)
           /\ l = [head |-> l.head, tail |-> l.tail, size |-> l.size]
           /\ E = [c \in Cells |-> E[c]]
           /\ \A i \in 1..Len(s) : s[i] \in Cells /\ s[i] # NULL /\ Cl(s, i) = s[i]
<1>1. /\ s \in Seq(Cells) /\ d \in Seq(Data) /\ Len(s) = Len(d) /\ Len(s) \in Nat /\ Once(s)
      /\ l.head = Cl(s, 1) /\ l.tail = Cl(s, Len(s)) /\ l.size = Len(s)
      /\ l = [head |-> l.head, tail |-> l.tail, size |-> l.size]
      /\ E = [c \in Cells |-> E[c]]
  BY DEF LinkedGood
<1>2. \A i \in 1..Len(s) : s[i] \in Cells /\ s[i] # NULL /\ Cl(s, i) = s[i]
  BY <1>1, ListsAssumption DEF Cl
<1> QED
  BY <1>1, <1>2

LEMMA LinkedStored ==
    ASSUME NEW E, NEW l, NEW s, NEW d, LinkedGood(E, l, s, d), llEntry' = E, ll' = l, linkedIs' = d
    PROVE  LinkedInv'
<1>1. LinkedGood(llEntry', ll', s, linkedIs')
  OBVIOUS
<1> QED
  BY <1>1 DEF LinkedInv, LinkedGood, Cl, Once

LEMMA LinkedStart ==
    ASSUME NEW E, E = [c \in Cells |-> E[c]], NEW l, l = [head |-> NULL, tail |-> NULL, size |-> 0]
    PROVE  LinkedGood(E, l, <<>>, <<>>)
<1>1. <<>> \in Seq(Cells) /\ <<>> \in Seq(Data) /\ Len(<<>>) = 0
  BY EmptySeq
<1>2. Once(<<>>) /\ \A i \in Int : Cl(<<>>, i) = NULL
  BY <1>1 DEF Once, Cl
<1> QED
  BY <1>1, <1>2 DEF LinkedGood

LEMMA LinkedPut ==
    ASSUME NEW E, NEW l, NEW s, NEW d, LinkedGood(E, l, s, d),
           NEW k \in 0..Len(s), NEW c \in Cells, \A i \in 1..Len(s) : s[i] # c, NEW x \in Data,
           NEW t \in Seq(Cells), PutIn(s, t, k, c), NEW e \in Seq(Data), PutIn(d, e, k, x),
           NEW E2, E2 = [y \in Cells |-> E2[y]],
           E2[c] = Linked(x, Cl(s, k + 1), Cl(s, k)),
           k > 0 => E2[s[k]] = Linked(d[k], c, Cl(s, k - 1)),
           k < Len(s) => E2[s[k + 1]] = Linked(d[k + 1], Cl(s, (k + 1) + 1), c),
           \A y \in Cells : y # c /\ y # Cl(s, k) /\ y # Cl(s, k + 1) => E2[y] = E[y],
           NEW l2, l2 = [head |-> IF k = 0 THEN c ELSE l.head,
                         tail |-> IF k = Len(s) THEN c ELSE l.tail, size |-> l.size + 1]
    PROVE  LinkedGood(E2, l2, t, e)
<1>1. /\ s \in Seq(Cells) /\ d \in Seq(Data) /\ Len(s) = Len(d) /\ Once(s)
      /\ l.head = Cl(s, 1) /\ l.size = Len(s) /\ l.tail = Cl(s, Len(s))
      /\ \A i \in 1..Len(s) : s[i] \in Cells /\ s[i] # NULL /\ Cl(s, i) = s[i]
  BY LinkedFacts
<1>0. \A i \in 1..Len(s) : E[s[i]] = Linked(d[i], Cl(s, i + 1), Cl(s, i - 1))
  BY DEF LinkedGood
<1>2. /\ Len(s) \in Nat /\ k \in Int /\ 0 <= k /\ k <= Len(s) /\ Len(t) = Len(s) + 1 /\ Len(e) = Len(s) + 1
  BY <1>1 DEF PutIn
<1>3. \A i \in Int : Cl(t, i) = IF i <= k THEN Cl(s, i) ELSE IF i = k + 1 THEN c ELSE Cl(s, i - 1)
  BY <1>1, ClPut
<1>4. Once(t)
  BY <1>1, OncePut
<1>5. \A i \in 1..Len(s) + 1 : /\ t[i] = IF i <= k THEN s[i] ELSE IF i = k + 1 THEN c ELSE s[i - 1]
                               /\ e[i] = IF i <= k THEN d[i] ELSE IF i = k + 1 THEN x ELSE d[i - 1]
  BY <1>1 DEF PutIn
<1>8. ASSUME NEW i \in 1..Len(s), i # k, i # k + 1 PROVE E2[s[i]] = E[s[i]]
  <2>1. s[i] # Cl(s, k) /\ s[i] # Cl(s, k + 1)
    <3>1. i \in Int /\ k \in Int /\ k + 1 \in Int /\ Cl(s, i) = s[i]
      BY <1>1, <1>2
    <3> QED
      BY <1>1, <1>8, <3>1, ClDistinct
  <2> QED
    BY <1>1, <2>1
<1>6. ASSUME NEW i \in 1..Len(t)
      PROVE  E2[t[i]] = Linked(e[i], Cl(t, i + 1), Cl(t, i - 1))
  <2>0. i \in Int /\ i + 1 \in Int /\ i - 1 \in Int /\ i \in 1..Len(s) + 1
    BY <1>2
  <2>1. CASE i < k
    <3>1. /\ t[i] = s[i] /\ e[i] = d[i] /\ Cl(t, i + 1) = Cl(s, i + 1) /\ Cl(t, i - 1) = Cl(s, i - 1)
          /\ i \in 1..Len(s) /\ i # k /\ i # k + 1
      BY <1>2, <1>3, <1>5, <2>0, <2>1
    <3> QED
      BY <1>0, <1>8, <3>1
  <2>2. CASE i = k
    <3>1. t[i] = s[k] /\ e[i] = d[k] /\ Cl(t, i + 1) = c /\ Cl(t, i - 1) = Cl(s, k - 1) /\ k > 0
      BY <1>2, <1>3, <1>5, <2>0, <2>2
    <3> QED
      BY <3>1
  <2>3. CASE i = k + 1
    <3>1. /\ t[i] = c /\ e[i] = x /\ Cl(t, i + 1) = Cl(s, (i + 1) - 1) /\ (i + 1) - 1 = k + 1
          /\ Cl(t, i - 1) = Cl(s, i - 1) /\ i - 1 = k
      BY <1>2, <1>3, <1>5, <2>0, <2>3
    <3> QED
      BY <3>1
  <2>4. CASE i = (k + 1) + 1
    <3>1. /\ t[i] = s[k + 1] /\ e[i] = d[k + 1] /\ Cl(t, i + 1) = Cl(s, (i + 1) - 1) /\ (i + 1) - 1 = (k + 1) + 1
          /\ Cl(t, i - 1) = c /\ k < Len(s)
      <4>1. /\ i - 1 = k + 1 /\ ~(i <= k) /\ i # k + 1 /\ ~(i + 1 <= k) /\ i + 1 # k + 1 /\ ~(i - 1 <= k)
            /\ (i + 1) - 1 = (k + 1) + 1 /\ k < Len(s)
        <5>1. i \in Int /\ k \in Int /\ Len(s) \in Int /\ i <= Len(s) + 1 /\ i = k + 2
          BY <1>2, <2>0, <2>4
        <5> QED
          BY ONLY <5>1
      <4>2. t[i] = s[i - 1] /\ e[i] = d[i - 1]
        BY <1>5, <2>0, <4>1
      <4>3. Cl(t, i + 1) = Cl(s, (i + 1) - 1) /\ Cl(t, i - 1) = c
        BY <1>3, <2>0, <4>1
      <4> QED
        BY <4>1, <4>2, <4>3
    <3> QED
      BY <3>1
  <2>5. CASE i > (k + 1) + 1
    <3>1. /\ t[i] = s[i - 1] /\ e[i] = d[i - 1]
          /\ Cl(t, i + 1) = Cl(s, (i + 1) - 1) /\ Cl(t, i - 1) = Cl(s, (i - 1) - 1)
          /\ i - 1 \in 1..Len(s) /\ i - 1 # k /\ i - 1 # k + 1 /\ (i + 1) - 1 = (i - 1) + 1
      <4>1. /\ i - 1 \in 1..Len(s) /\ i - 1 # k /\ i - 1 # k + 1 /\ (i + 1) - 1 = (i - 1) + 1
            /\ ~(i <= k) /\ i # k + 1 /\ ~(i + 1 <= k) /\ i + 1 # k + 1 /\ ~(i - 1 <= k)
        BY <1>2, <2>0, <2>5
      <4>2. t[i] = s[i - 1] /\ e[i] = d[i - 1]
        BY <1>5, <2>0, <4>1
      <4>3. Cl(t, i + 1) = Cl(s, (i + 1) - 1) /\ Cl(t, i - 1) = Cl(s, (i - 1) - 1)
        BY <1>3, <2>0, <4>1
      <4> QED
        BY <4>1, <4>2, <4>3
    <3>2. E2[s[i - 1]] = E[s[i - 1]]
      BY ONLY <1>8, <3>1
    <3>3. E[s[i - 1]] = Linked(d[i - 1], Cl(s, (i - 1) + 1), Cl(s, (i - 1) - 1))
      BY ONLY <1>0, <3>1
    <3> QED
      BY ONLY <3>1, <3>2, <3>3
  <2> QED
    BY <1>2, <2>0, <2>1, <2>2, <2>3, <2>4, <2>5
<1>7. l2 = [head |-> Cl(t, 1), tail |-> Cl(t, Len(t)), size |-> Len(t)]
  <2>1. Cl(t, 1) = IF k = 0 THEN c ELSE Cl(s, 1)
    BY <1>2, <1>3
  <2>2. Cl(t, Len(t)) = IF k = Len(s) THEN c ELSE Cl(s, Len(s))
    <3>1. Len(t) \in Int /\ ~(Len(t) <= k) /\ (Len(t) = k + 1 <=> k = Len(s)) /\ Len(t) - 1 = Len(s)
      BY <1>2
    <3> QED
      BY <1>3, <3>1
  <2> QED
    BY <1>1, <1>2, <2>1, <2>2
<1> QED
  BY <1>2, <1>4, <1>6, <1>7 DEF LinkedGood

(* The k-th entry is unlinked: its neighbours point at each other, all the *)
(* other entries are as they were, and the ends of the list follow.        *)
LinkPast(E, E2, s, d, k) ==
    /\ E2 = [y \in Cells |-> E2[y]]
    /\ k > 1 => E2[s[k - 1]] = Linked(d[k - 1], Cl(s, k + 1), Cl(s, (k - 1) - 1))
    /\ k < Len(s) => E2[s[k + 1]] = Linked(d[k + 1], Cl(s, (k + 1) + 1), Cl(s, k - 1))
    /\ \A y \in Cells : y # s[k] /\ y # Cl(s, k - 1) /\ y # Cl(s, k + 1) => E2[y] = E[y]
EndsWithout(l, s, k) ==
    [head |-> IF k = 1 THEN Cl(s, k + 1) ELSE l.head,
     tail |-> IF k = Len(s) THEN Cl(s, k - 1) ELSE l.tail, size |-> l.size - 1]

LEMMA LinkedCut ==
    ASSUME NEW E, NEW l, NEW s, NEW d, LinkedGood(E, l, s, d), NEW k \in 1..Len(s),
           NEW t \in Seq(Cells), CutOut(s, t, k), NEW e \in Seq(Data), CutOut(d, e, k),
           NEW E2, LinkPast(E, E2, s, d, k), NEW l2, l2 = EndsWithout(l, s, k)
    PROVE  LinkedGood(E2, l2, t, e)
<1>9. /\ E2 = [y \in Cells |-> E2[y]]
      /\ k > 1 => E2[s[k - 1]] = Linked(d[k - 1], Cl(s, k + 1), Cl(s, (k - 1) - 1))
      /\ k < Len(s) => E2[s[k + 1]] = Linked(d[k + 1], Cl(s, (k + 1) + 1), Cl(s, k - 1))
  BY DEF LinkPast
<1>10. \A y \in Cells : y # s[k] /\ y # Cl(s, k - 1) /\ y # Cl(s, k + 1) => E2[y] = E[y]
  BY DEF LinkPast
<1>11. l2 = [head |-> IF k = 1 THEN Cl(s, k + 1) ELSE l.head,
             tail |-> IF k = Len(s) THEN Cl(s, k - 1) ELSE l.tail, size |-> l.size - 1]
  BY DEF EndsWithout
<1>1. /\ s \in Seq(Cells) /\ d \in Seq(Data) /\ Len(s) = Len(d) /\ Once(s)
      /\ l.head = Cl(s, 1) /\ l.size = Len(s) /\ l.tail = Cl(s, Len(s))
      /\ \A i \in 1..Len(s) : s[i] \in Cells /\ s[i] # NULL /\ Cl(s, i) = s[i]
  BY LinkedFacts
<1>0. \A i \in 1..Len(s) : E[s[i]] = Linked(d[i], Cl(s, i + 1), Cl(s, i - 1))
  BY DEF LinkedGood
<1>2. /\ Len(s) \in Nat /\ k \in Int /\ 1 <= k /\ k <= Len(s) /\ Len(t) = Len(s) - 1 /\ Len(e) = Len(s) - 1
  BY <1>1 DEF CutOut
<1>3. \A i \in Int : Cl(t, i) = IF i < k THEN Cl(s, i) ELSE Cl(s, i + 1)
  BY <1>1, ClCut
<1>4. Once(t)
  BY <1>1, OnceCut
<1>5. \A i \in 1..Len(s) - 1 : /\ t[i] = IF i < k THEN s[i] ELSE s[i + 1]
                               /\ e[i] = IF i < k THEN d[i] ELSE d[i + 1]
  BY <1>1 DEF CutOut
<1>8. ASSUME NEW i \in 1..Len(s), i # k - 1, i # k, i # k + 1 PROVE E2[s[i]] = E[s[i]]
  <2>1. s[i] # Cl(s, k - 1) /\ s[i] # Cl(s, k) /\ s[i] # Cl(s, k + 1)
    <3>1. i \in Int /\ k \in Int /\ k + 1 \in Int /\ k - 1 \in Int /\ Cl(s, i) = s[i]
      BY <1>1, <1>2
    <3> QED
      BY <1>1, <1>8, <3>1, ClDistinct
  <2> QED
    BY <1>1, <1>10, <2>1
<1>6. ASSUME NEW i \in 1..Len(t)
      PROVE  E2[t[i]] = Linked(e[i], Cl(t, i + 1), Cl(t, i - 1))
  <2>0. i \in Int /\ i + 1 \in Int /\ i - 1 \in Int /\ i \in 1..Len(s) - 1
    BY <1>2
  <2>1. CASE i < k - 1
    <3>1. /\ t[i] = s[i] /\ e[i] = d[i] /\ Cl(t, i + 1) = Cl(s, i + 1) /\ Cl(t, i - 1) = Cl(s, i - 1)
          /\ i \in 1..Len(s) /\ i # k - 1 /\ i # k /\ i # k + 1
      <4>1. i \in 1..Len(s) /\ i # k - 1 /\ i # k /\ i # k + 1 /\ i < k /\ i + 1 < k /\ i - 1 < k
        BY ONLY <1>2, <2>0, <2>1
      <4>2. t[i] = s[i] /\ e[i] = d[i]
        BY ONLY <1>5, <2>0, <4>1
      <4>3. Cl(t, i + 1) = Cl(s, i + 1) /\ Cl(t, i - 1) = Cl(s, i - 1)
        BY ONLY <1>3, <2>0, <4>1
      <4> QED
        BY ONLY <4>1, <4>2, <4>3
    <3> QED
      BY <1>0, <1>8, <3>1
  <2>2. CASE i = k - 1
    <3>1. /\ t[i] = s[k - 1] /\ e[i] = d[k - 1] /\ Cl(t, i + 1) = Cl(s, (i + 1) + 1) /\ (i + 1) + 1 = k + 1
          /\ Cl(t, i - 1) = Cl(s, (k - 1) - 1) /\ k > 1
      <4>1. i < k /\ ~(i + 1 < k) /\ i - 1 < k /\ (i + 1) + 1 = k + 1 /\ k > 1
        BY ONLY <1>2, <2>0, <2>2
      <4>2. t[i] = s[k - 1] /\ e[i] = d[k - 1]
        BY ONLY <1>5, <2>0, <2>2, <4>1
      <4>3. Cl(t, i + 1) = Cl(s, (i + 1) + 1)
        BY ONLY <1>3, <2>0, <4>1
      <4>4. Cl(t, i - 1) = Cl(s, (k - 1) - 1)
        BY ONLY <1>3, <2>0, <2>2, <4>1
      <4> QED
        BY ONLY <4>1, <4>2, <4>3, <4>4
    <3> QED
      BY <1>9, <3>1
  <2>3. CASE i = k
    <3>1. /\ t[i] = s[k + 1] /\ e[i] = d[k + 1] /\ Cl(t, i + 1) = Cl(s, (k + 1) + 1)
          /\ Cl(t, i - 1) = Cl(s, k - 1) /\ k < Len(s)
      <4>1. ~(i < k) /\ ~(i + 1 < k) /\ i - 1 < k /\ k < Len(s)
        BY ONLY <1>2, <2>0, <2>3
      <4>2. t[i] = s[k + 1] /\ e[i] = d[k + 1]
        BY ONLY <1>5, <2>0, <2>3, <4>1
      <4>3. Cl(t, i + 1) = Cl(s, (k + 1) + 1)
        BY ONLY <1>3, <2>0, <2>3, <4>1
      <4>4. Cl(t, i - 1) = Cl(s, k - 1)
        BY ONLY <1>3, <2>0, <2>3, <4>1
      <4> QED
        BY ONLY <4>1, <4>2, <4>3, <4>4
    <3> QED
      BY <1>9, <3>1
  <2>4. CASE i > k
    <3>1. /\ t[i] = s[i + 1] /\ e[i] = d[i + 1]
          /\ Cl(t, i + 1) = Cl(s, (i + 1) + 1) /\ Cl(t, i - 1) = Cl(s, (i - 1) + 1)
          /\ i + 1 \in 1..Len(s) /\ i + 1 # k - 1 /\ i + 1 # k /\ i + 1 # k + 1 /\ (i - 1) + 1 = (i + 1) - 1
      <4>1. /\ i + 1 \in 1..Len(s) /\ i + 1 # k - 1 /\ i + 1 # k /\ i + 1 # k + 1 /\ (i - 1) + 1 = (i + 1) - 1
            /\ ~(i < k) /\ ~(i + 1 < k) /\ ~(i - 1 < k)
        BY <1>2, <2>0, <2>4
      <4>2. t[i] = s[i + 1] /\ e[i] = d[i + 1]
        BY <1>5, <2>0, <4>1
      <4>3. Cl(t, i + 1) = Cl(s, (i + 1) + 1) /\ Cl(t, i - 1) = Cl(s, (i - 1) + 1)
        BY <1>3, <2>0, <4>1
      <4> QED
        BY <4>1, <4>2, <4>3
    <3>2. E2[s[i + 1]] = E[s[i + 1]]
      BY ONLY <1>8, <3>1
    <3>3. E[s[i + 1]] = Linked(d[i + 1], Cl(s, (i + 1) + 1), Cl(s, (i + 1) - 1))
      BY ONLY <1>0, <3>1
    <3> QED
      BY ONLY <3>1, <3>2, <3>3
  <2> QED
    BY <1>2, <2>0, <2>1, <2>2, <2>3, <2>4
<1>7. l2 = [head |-> Cl(t, 1), tail |-> Cl(t, Len(t)), size |-> Len(t)]
  <2>1. Cl(t, 1) = IF k = 1 THEN Cl(s, k + 1) ELSE Cl(s, 1)
    <3>1. 1 < k <=> k # 1
      BY <1>2
    <3> QED
      BY <1>3, <3>1
  <2>2. Cl(t, Len(t)) = IF k = Len(s) THEN Cl(s, k - 1) ELSE Cl(s, Len(s))
    <3>1. Len(t) \in Int /\ (Len(t) < k <=> k = Len(s)) /\ Len(t) + 1 = Len(s) /\ (k = Len(s) => Len(t) = k - 1)
      BY <1>2
    <3> QED
      BY <1>3, <3>1
  <2> QED
    BY <1>1, <1>2, <1>11, <2>1, <2>2
<1> QED
  BY <1>2, <1>4, <1>6, <1>7, <1>9 DEF LinkedGood

(* An entry is found from the head or from the tail, and both walks pass   *)
(* the cells one by one.                                                   *)
LEMMA GetEntry ==
    ASSUME NEW s, LinkedGood(llEntry, ll, s, linkedIs), NEW index \in Nat, index < ll.size
    PROVE  L!linked_list_get_entry(index) = s[index + 1]
<1>1. /\ s \in Seq(Cells) /\ Len(s) \in Nat /\ index < Len(s) /\ ll.size = Len(s)
      /\ ll.head = Cl(s, 1) /\ ll.tail = Cl(s, Len(s)) /\ ll.size - 1 = Len(s) - 1
  BY LinkedFacts
<1>2. \A i \in 1..Len(s) : Cl(s, i) = s[i]
  BY LinkedFacts
<1>3. \A i \in 1..Len(s) : llEntry[s[i]].next = Cl(s, i + 1) /\ llEntry[s[i]].prev = Cl(s, i - 1)
  BY LinkedFields
<1> DEFINE Up(f) == [i \in 0..index |-> IF i = 0 THEN ll.head ELSE llEntry[f[i - 1]].next]
           Down(f) == [i \in index..ll.size - 1 |-> IF i = ll.size - 1 THEN ll.tail ELSE llEntry[f[i + 1]].prev]
           up == CHOOSE f : f = Up(f)
           down == CHOOSE f : f = Down(f)
           walk == [i \in 0..index |-> Cl(s, i + 1)]
           back == [i \in index..ll.size - 1 |-> Cl(s, i + 1)]
<1>4. walk = Up(walk)
  <2> SUFFICES ASSUME NEW i \in 0..index
               PROVE  Cl(s, i + 1) = IF i = 0 THEN ll.head ELSE llEntry[walk[i - 1]].next
    OBVIOUS
  <2>1. CASE i = 0
    BY <1>1, <2>1
  <2>2. CASE i # 0
    <3>1. i - 1 \in 0..index /\ (i - 1) + 1 = i /\ i \in 1..Len(s)
      BY <1>1, <2>2
    <3>2. walk[i - 1] = s[i]
      BY <1>2, <3>1
    <3> QED
      BY <1>3, <2>2, <3>1, <3>2
  <2> QED
    BY <2>1, <2>2
<1>5. back = Down(back)
  <2> SUFFICES ASSUME NEW i \in index..ll.size - 1
               PROVE  Cl(s, i + 1) = IF i = ll.size - 1 THEN ll.tail ELSE llEntry[back[i + 1]].prev
    OBVIOUS
  <2>0. i \in Int /\ index <= i /\ i <= Len(s) - 1
    BY <1>1
  <2>1. CASE i = ll.size - 1
    <3>1. i + 1 = Len(s)
      BY <1>1, <2>1
    <3> QED
      BY <1>1, <2>1, <3>1
  <2>2. CASE i # ll.size - 1
    <3>1. /\ i + 1 \in index..ll.size - 1 /\ (i + 1) + 1 \in 1..Len(s) /\ ((i + 1) + 1) - 1 = i + 1
      BY <1>1, <2>0, <2>2
    <3>2. back[i + 1] = s[(i + 1) + 1]
      BY <1>2, <3>1
    <3> QED
      BY <1>3, <2>2, <3>1, <3>2
  <2> QED
    BY <2>1, <2>2
<1> HIDE DEF Up, Down
<1>6. up = Up(up) /\ down = Down(down)
  BY <1>4, <1>5
<1>7. ASSUME NEW i \in 0..index PROVE up[i] = Cl(s, i + 1)
  <2> DEFINE Off == {j \in 0..index : up[j] # Cl(s, j + 1)}
  <2> SUFFICES ASSUME Off # {} PROVE FALSE
    OBVIOUS
  <2>1. PICK j \in Off : \A m \in Off : j <= m
    <3>1. Off \in SUBSET Nat
      OBVIOUS
    <3> HIDE DEF Off
    <3> QED
      BY <3>1, LeastPlace
  <2>2. up[j] = IF j = 0 THEN ll.head ELSE llEntry[up[j - 1]].next
    BY <1>6 DEF Up
  <2> HIDE DEF up
  <2>3. j # 0
    BY <1>1, <2>2
  <2>4. j - 1 \in 0..index /\ (j - 1) + 1 = j /\ j \in 1..Len(s) /\ j - 1 \notin Off
    BY <1>1, <2>1, <2>3
  <2>5. up[j - 1] = s[j]
    BY <1>2, <2>4
  <2>6. up[j] = Cl(s, j + 1)
    BY <1>3, <2>2, <2>3, <2>4, <2>5
  <2> QED
    BY <2>6
<1>8. ASSUME NEW i \in index..ll.size - 1 PROVE down[i] = Cl(s, i + 1)
  <2> DEFINE Last == Len(s) - 1
             Off == {m \in 0..Last - index : down[Last - m] # Cl(s, (Last - m) + 1)}
  <2>0. Last \in Nat /\ index <= Last /\ ll.size - 1 = Last
    BY <1>1
  <2> HIDE DEF Last
  <2> SUFFICES ASSUME Off # {} PROVE FALSE
    <3>1. Last - i \in 0..Last - index /\ Last - (Last - i) = i
      BY <2>0
    <3> QED
      BY <3>1
  <2>1. PICK m \in Off : \A n \in Off : m <= n
    <3>1. Off \in SUBSET Nat
      BY <2>0
    <3> HIDE DEF Off
    <3> QED
      BY <3>1, LeastPlace
  <2> DEFINE j == Last - m
  <2>2. j \in index..ll.size - 1 /\ j \in Int /\ (j = Last <=> m = 0) /\ m \in 0..Last - index
    BY <2>0, <2>1
  <2>3. down[j] = IF j = ll.size - 1 THEN ll.tail ELSE llEntry[down[j + 1]].prev
    BY <1>6, <2>2 DEF Down
  <2> HIDE DEF down
  <2>4. m # 0
    <3>0. Last + 1 = Len(s)
      BY <1>1 DEF Last
    <3>1. j = Last => j + 1 = Len(s)
      BY ONLY <3>0
    <3>2. down[j] # Cl(s, j + 1)
      BY <2>1
    <3> HIDE DEF j
    <3> QED
      BY <1>1, <2>0, <2>2, <2>3, <3>1, <3>2
  <2>5. m - 1 \in 0..Last - index /\ Last - (m - 1) = j + 1 /\ m - 1 \notin Off
    BY <2>0, <2>1, <2>2, <2>4
  <2>6. down[j + 1] = Cl(s, (j + 1) + 1)
    BY <2>5
  <2>7. (j + 1) + 1 \in 1..Len(s) /\ ((j + 1) + 1) - 1 = j + 1 /\ j # ll.size - 1
    <3>1. j # Last /\ j <= Last /\ 0 <= j /\ j \in Int /\ ll.size - 1 = Last
      BY <1>1, <2>0, <2>2, <2>4
    <3>2. Last = Len(s) - 1 /\ Len(s) \in Int
      BY <1>1 DEF Last
    <3> HIDE DEF j
    <3> QED
      BY ONLY <3>1, <3>2
  <2>8. down[j] # Cl(s, j + 1)
    BY <2>1
  <2> HIDE DEF j
  <2> QED
    BY <1>2, <1>3, <2>3, <2>6, <2>7, <2>8
<1>9. up[index] = s[index + 1] /\ down[index] = s[index + 1]
  <2>1. index \in 0..index /\ index \in index..ll.size - 1 /\ index + 1 \in 1..Len(s)
    BY <1>1
  <2> HIDE DEF up, down
  <2> QED
    BY <1>2, <1>7, <1>8, <2>1
<1>10. L!linked_list_get_entry(index) = IF index >= ll.size THEN NULL
                                        ELSE IF index < ll.size \div 2 THEN up[index] ELSE down[index]
  BY DEF L!linked_list_get_entry, Up, Down
<1> HIDE DEF up, down
<1>11. ~(index >= ll.size)
  BY <1>1
<1> QED
  BY <1>9, <1>10, <1>11

(* The walk of linked_list_contains() ends at the first entry with the     *)
(* data, or behind the last one.                                           *)
LEMMA FirstWithIs ==
    ASSUME NEW s, LinkedGood(llEntry, ll, s, linkedIs), NEW x
    PROVE  /\ L!linked_list_contains(x) => \E i \in 1..Len(s) : linkedIs[i] = x
           /\ (\E i \in 1..Len(s) : linkedIs[i] = x) =>
                /\ L!Least(linkedIs, x) \in 1..Len(s)
                /\ linkedIs[L!Least(linkedIs, x)] = x
                /\ L!FirstWith(x) = s[L!Least(linkedIs, x)]
<1> DEFINE d == linkedIs
<1>1. /\ s \in Seq(Cells) /\ Len(s) \in Nat /\ ll.size = Len(s) /\ ll.head = Cl(s, 1) /\ Len(d) = Len(s)
      /\ d \in Seq(Data) /\ DOMAIN d = 1..Len(s)
  BY LinkedFacts
<1>2. \A i \in 1..Len(s) : Cl(s, i) = s[i] /\ s[i] # NULL
  BY LinkedFacts
<1>3. \A i \in 1..Len(s) : llEntry[s[i]].next = Cl(s, i + 1) /\ llEntry[s[i]].data = d[i]
  BY LinkedFields
<1> DEFINE Walk(f) == [i \in 0..ll.size |-> IF i = 0 THEN ll.head
                          ELSE IF f[i - 1] = NULL THEN NULL ELSE llEntry[f[i - 1]].next]
           reach == CHOOSE f : f = Walk(f)
           walk == [i \in 0..ll.size |-> Cl(s, i + 1)]
<1>4. walk = Walk(walk)
  <2> SUFFICES ASSUME NEW i \in 0..ll.size
               PROVE  Cl(s, i + 1) = IF i = 0 THEN ll.head
                          ELSE IF walk[i - 1] = NULL THEN NULL ELSE llEntry[walk[i - 1]].next
    OBVIOUS
  <2>1. CASE i = 0
    BY <1>1, <2>1
  <2>2. CASE i # 0
    <3>1. i - 1 \in 0..ll.size /\ (i - 1) + 1 = i /\ i \in 1..Len(s)
      BY <1>1, <2>2
    <3>2. walk[i - 1] = s[i]
      BY <1>2, <3>1
    <3> QED
      BY <1>2, <1>3, <2>2, <3>1, <3>2
  <2> QED
    BY <2>1, <2>2
<1> HIDE DEF Walk
<1>5. reach = Walk(reach)
  BY <1>4
<1>6. ASSUME NEW i \in 0..ll.size PROVE reach[i] = Cl(s, i + 1)
  <2> DEFINE Off == {j \in 0..ll.size : reach[j] # Cl(s, j + 1)}
  <2> SUFFICES ASSUME Off # {} PROVE FALSE
    OBVIOUS
  <2>1. PICK j \in Off : \A m \in Off : j <= m
    <3>1. Off \in SUBSET Nat
      BY <1>1
    <3> HIDE DEF Off
    <3> QED
      BY <3>1, LeastPlace
  <2>2. reach[j] = IF j = 0 THEN ll.head ELSE IF reach[j - 1] = NULL THEN NULL ELSE llEntry[reach[j - 1]].next
    BY <1>5 DEF Walk
  <2> HIDE DEF reach
  <2>3. j # 0
    BY <1>1, <2>2
  <2>4. j - 1 \in 0..ll.size /\ (j - 1) + 1 = j /\ j \in 1..Len(s) /\ j - 1 \notin Off
    BY <1>1, <2>1, <2>3
  <2>5. reach[j - 1] = s[j]
    BY <1>2, <2>4
  <2>6. reach[j] = Cl(s, j + 1)
    BY <1>2, <1>3, <2>2, <2>3, <2>4, <2>5
  <2> QED
    BY <2>6
<1> DEFINE found == {i \in 0..ll.size - 1 : reach[i] # NULL /\ llEntry[reach[i]].data = x}
<1>7. L!FirstWith(x) = IF found = {} THEN NULL ELSE reach[CHOOSE i \in found : \A j \in found : i <= j]
  BY DEF L!FirstWith, Walk
<1> HIDE DEF reach
<1>8. found = {i \in 0..Len(s) - 1 : d[i + 1] = x}
  <2>1. ASSUME NEW i \in 0..Len(s) - 1
        PROVE  reach[i] = s[i + 1] /\ reach[i] # NULL /\ llEntry[reach[i]].data = d[i + 1]
    <3>1. i \in 0..ll.size /\ i + 1 \in 1..Len(s)
      BY <1>1
    <3>2. reach[i] = s[i + 1]
      BY <1>2, <1>6, <3>1
    <3> QED
      BY <1>2, <1>3, <3>1, <3>2
  <2> QED
    BY <1>1, <2>1
<1> HIDE DEF found
<1>9. L!linked_list_contains(x) => \E i \in 1..Len(s) : d[i] = x
  <2> SUFFICES ASSUME L!linked_list_contains(x) PROVE \E i \in 1..Len(s) : d[i] = x
    OBVIOUS
  <2>1. found # {}
    BY <1>7 DEF L!linked_list_contains
  <2>2. PICK i \in 0..Len(s) - 1 : d[i + 1] = x
    BY <1>8, <2>1
  <2>3. i + 1 \in 1..Len(s)
    BY <1>1
  <2> QED
    BY <2>2, <2>3
<1>10. ASSUME NEW k \in 1..Len(s), d[k] = x
       PROVE  /\ L!Least(d, x) \in 1..Len(s) /\ d[L!Least(d, x)] = x
              /\ L!FirstWith(x) = s[L!Least(d, x)]
  <2>1. k - 1 \in found
    <3>1. k - 1 \in 0..Len(s) - 1 /\ (k - 1) + 1 = k
      BY <1>1
    <3> QED
      BY <1>8, <1>10, <3>1
  <2>2. \E i \in found : \A j \in found : i <= j
    <3>1. found \in SUBSET Nat
      BY <1>1, <1>8
    <3>2. found # {}
      BY ONLY <2>1
    <3> QED
      BY <3>1, <3>2, LeastPlace
  <2> DEFINE f == CHOOSE i \in found : \A j \in found : i <= j
  <2>3. f \in found /\ \A j \in found : f <= j
    BY <2>2
  <2>4. L!FirstWith(x) = reach[f]
    BY <1>7, <2>1
  <2> HIDE DEF f
  <2>5. f \in 0..Len(s) - 1 /\ d[f + 1] = x /\ f + 1 \in 1..Len(s) /\ f \in 0..ll.size
    BY <1>1, <1>8, <2>3
  <2>6. \A j \in 1..(f + 1) - 1 : d[j] # x
    <3> SUFFICES ASSUME NEW j \in 1..(f + 1) - 1, d[j] = x PROVE FALSE
      OBVIOUS
    <3>1. j - 1 \in 0..Len(s) - 1 /\ (j - 1) + 1 = j /\ ~(f <= j - 1)
      BY <1>1, <2>5
    <3>2. j - 1 \in found
      BY <1>8, <3>1
    <3> QED
      BY <2>3, <3>1, <3>2
  <2> DEFINE p == L!Least(d, x)
             Is(i) == d[i] = x /\ \A j \in 1..i - 1 : d[j] # x
  <2>7. p = CHOOSE i \in DOMAIN d : Is(i)
    BY DEF L!Least
  <2>8. f + 1 \in DOMAIN d /\ Is(f + 1)
    BY <1>1, <2>5, <2>6
  <2>9. p \in DOMAIN d /\ Is(p)
    <3> HIDE DEF p, Is
    <3> QED
      BY <2>7, <2>8
  <2> HIDE DEF p
  <2>10. p = f + 1
    <3>1. p \in 1..Len(s) /\ p \in Int /\ f + 1 \in Int
      BY <1>1, <2>5, <2>9
    <3>2. ~(p < f + 1)
      <4> SUFFICES ASSUME p < f + 1 PROVE FALSE
        OBVIOUS
      <4>1. p \in 1..(f + 1) - 1
        BY <3>1
      <4> QED
        BY <2>6, <2>9, <4>1
    <3>3. ~(f + 1 < p)
      <4> SUFFICES ASSUME f + 1 < p PROVE FALSE
        OBVIOUS
      <4>1. f + 1 \in 1..p - 1
        BY <2>5, <3>1
      <4> QED
        BY <2>5, <2>9, <4>1
    <3> QED
      BY <3>1, <3>2, <3>3
  <2>11. reach[f] = s[f + 1]
    BY <1>2, <1>6, <2>5
  <2>12. p \in 1..Len(s) /\ d[p] = x /\ L!FirstWith(x) = s[p]
    BY <2>4, <2>5, <2>10, <2>11
  <2> QED
    BY <2>12 DEF p
<1> QED
  BY <1>9, <1>10

(* The entry c is linked behind the k-th; the ends of the list follow.     *)
LinkBehind(E, s, k, c, x) ==
    LET E1 == [E EXCEPT ![c] = Linked(x, Cl(s, k + 1), Cl(s, k))]
        E2 == IF k = 0 THEN E1 ELSE [E1 EXCEPT ![Cl(s, k)].next = c]
    IN  IF k = Len(s) THEN E2 ELSE [E2 EXCEPT ![Cl(s, k + 1)].prev = c]
EndsWith(l, s, k, c) ==
    [head |-> IF k = 0 THEN c ELSE l.head, tail |-> IF k = Len(s) THEN c ELSE l.tail, size |-> l.size + 1]

LEMMA LinkedInsert ==
    ASSUME NEW s, LinkedGood(llEntry, ll, s, linkedIs),
           NEW k \in 0..Len(s), NEW c \in Cells, ~llEntry[c].used, NEW x \in Data,
           NEW t \in Seq(Cells), PutIn(s, t, k, c), NEW e \in Seq(Data), PutIn(linkedIs, e, k, x),
           llEntry' = LinkBehind(llEntry, s, k, c, x), ll' = EndsWith(ll, s, k, c), linkedIs' = e
    PROVE  LinkedInv'
<1> DEFINE d == linkedIs
           E3 == llEntry'
           l3 == ll'
           a == Cl(s, k)
           b == Cl(s, k + 1)
           new == Linked(x, b, a)
           E1 == [llEntry EXCEPT ![c] = new]
           E2 == IF k = 0 THEN E1 ELSE [E1 EXCEPT ![a].next = c]
<1>1. /\ s \in Seq(Cells) /\ Len(s) \in Nat /\ Once(s) /\ llEntry = [y \in Cells |-> llEntry[y]]
      /\ \A i \in 1..Len(s) : s[i] \in Cells /\ s[i] # NULL /\ Cl(s, i) = s[i]
  BY LinkedFacts
<1>2. \A i \in 1..Len(s) : llEntry[s[i]] = Linked(d[i], Cl(s, i + 1), Cl(s, i - 1))
  BY DEF LinkedGood
<1>3. ASSUME NEW i \in 1..Len(s) PROVE s[i] # c
  <2> SUFFICES ASSUME s[i] = c PROVE FALSE
    OBVIOUS
  <2>1. llEntry[c] = Linked(d[i], Cl(s, i + 1), Cl(s, i - 1))
    BY <1>2
  <2>2. llEntry[c].used
    BY ONLY <2>1, IsLinked
  <2> QED
    BY <2>2
<1>4. k \in Int /\ 0 <= k /\ k <= Len(s) /\ k + 1 \in Int /\ (k + 1) - 1 = k
  BY <1>1
<1>5. k # 0 => k \in 1..Len(s) /\ a \in Cells /\ a # c /\ llEntry[a] = Linked(d[k], b, Cl(s, k - 1))
  BY <1>1, <1>2, <1>3, <1>4
<1>6. k # Len(s) => /\ k + 1 \in 1..Len(s) /\ b \in Cells /\ b # c
                    /\ llEntry[b] = Linked(d[k + 1], Cl(s, (k + 1) + 1), a)
  <2>1. k # Len(s) => k + 1 \in 1..Len(s)
    BY <1>1, <1>4
  <2> QED
    BY <1>1, <1>2, <1>3, <1>4, <2>1
<1>7. k # 0 => a # b
  <2> SUFFICES ASSUME k # 0, a = b PROVE FALSE
    OBVIOUS
  <2>1. k = k + 1
    BY <1>1, <1>4, <1>5, ClDistinct
  <2> QED
    BY <1>4, <2>1
<1>8. E1 = [llEntry EXCEPT ![c] = new] /\ E2 = (IF k = 0 THEN E1 ELSE [E1 EXCEPT ![a].next = c])
      /\ E3 = IF k = Len(s) THEN E2 ELSE [E2 EXCEPT ![b].prev = c]
  BY DEF LinkBehind
<1>9. l3 = [head |-> IF k = 0 THEN c ELSE ll.head,
            tail |-> IF k = Len(s) THEN c ELSE ll.tail, size |-> ll.size + 1]
  BY DEF EndsWith
<1> HIDE DEF a, b, new, E1, E2, E3, l3
<1>10. /\ E1 = [y \in Cells |-> E1[y]] /\ E1[c] = new
       /\ \A y \in Cells : y # c => E1[y] = llEntry[y]
  BY ONLY <1>1, <1>8, c \in Cells
<1>11. /\ E2 = [y \in Cells |-> E2[y]] /\ E2[c] = new
       /\ k # 0 => E2[a] = Linked(d[k], c, Cl(s, k - 1))
       /\ \A y \in Cells : y # c /\ y # a => E2[y] = llEntry[y]
  <2>1. CASE k = 0
    BY <1>8, <1>10, <2>1
  <2>2. CASE k # 0
    <3>1. E2 = [E1 EXCEPT ![a].next = c]
      BY <1>8, <2>2
    <3>2. E1[a] = Linked(d[k], b, Cl(s, k - 1))
      BY <1>5, <1>10, <2>2
    <3>3. /\ E2 = [y \in Cells |-> E2[y]] /\ E2[c] = new /\ E2[a] = [E1[a] EXCEPT !.next = c]
          /\ \A y \in Cells : y # c /\ y # a => E2[y] = llEntry[y]
      BY ONLY <1>5, <1>10, <2>2, <3>1, c \in Cells
    <3>4. E2[a] = Linked(d[k], c, Cl(s, k - 1))
      BY ONLY <3>2, <3>3, LinkedEntry
    <3> QED
      BY ONLY <3>3, <3>4
  <2> QED
    BY <2>1, <2>2
<1>12. /\ E3 = [y \in Cells |-> E3[y]] /\ E3[c] = new
       /\ k # 0 => E3[a] = Linked(d[k], c, Cl(s, k - 1))
       /\ k # Len(s) => E3[b] = Linked(d[k + 1], Cl(s, (k + 1) + 1), c)
       /\ \A y \in Cells : y # c /\ y # a /\ y # b => E3[y] = llEntry[y]
  <2>1. CASE k = Len(s)
    BY <1>8, <1>11, <2>1
  <2>2. CASE k # Len(s)
    <3>1. E3 = [E2 EXCEPT ![b].prev = c]
      BY <1>8, <2>2
    <3>0. b # a
      <4>1. a = NULL \/ k # 0
        BY <1>1, <1>4 DEF a, Cl
      <4> QED
        BY <1>6, <1>7, <2>2, <4>1, ListsAssumption
    <3>2. E2[b] = Linked(d[k + 1], Cl(s, (k + 1) + 1), a)
      BY <1>6, <1>11, <2>2, <3>0
    <3>3. /\ E3 = [y \in Cells |-> E3[y]] /\ E3[c] = new /\ E3[b] = [E2[b] EXCEPT !.prev = c]
          /\ k # 0 => E3[a] = E2[a]
          /\ \A y \in Cells : y # c /\ y # a /\ y # b => E3[y] = llEntry[y]
      BY ONLY <1>5, <1>6, <1>11, <2>2, <3>0, <3>1, c \in Cells
    <3>4. E3[b] = Linked(d[k + 1], Cl(s, (k + 1) + 1), c)
      BY ONLY <3>2, <3>3, LinkedEntry
    <3> QED
      BY ONLY <1>11, <3>3, <3>4
  <2> QED
    BY <2>1, <2>2
<1>13. LinkedGood(E3, l3, t, e)
  <2>1. \A i \in 1..Len(s) : s[i] # c
    BY <1>3
  <2>2. /\ E3[c] = Linked(x, Cl(s, k + 1), Cl(s, k))
        /\ k > 0 => E3[s[k]] = Linked(d[k], c, Cl(s, k - 1))
        /\ k < Len(s) => E3[s[k + 1]] = Linked(d[k + 1], Cl(s, (k + 1) + 1), c)
        /\ \A y \in Cells : y # c /\ y # Cl(s, k) /\ y # Cl(s, k + 1) => E3[y] = llEntry[y]
    <3>1. k > 0 => k # 0 /\ Cl(s, k) = s[k]
      BY <1>1, <1>4
    <3>2. k < Len(s) => k # Len(s) /\ Cl(s, k + 1) = s[k + 1]
      BY <1>1, <1>4, <1>6
    <3> QED
      BY <1>12, <3>1, <3>2 DEF a, b, new
  <2>3. E3 = [y \in Cells |-> E3[y]]
    BY ONLY <1>12
  <2> QED
    BY ONLY <1>9, <2>1, <2>2, <2>3, LinkedPut, LinkedGood(llEntry, ll, s, linkedIs), k \in 0..Len(s), c \in Cells,
            x \in Data, t \in Seq(Cells), PutIn(s, t, k, c), e \in Seq(Data), PutIn(linkedIs, e, k, x)
<1> QED
  <2>1. LinkedGood(llEntry', ll', t, e)
    BY ONLY <1>13 DEF E3, l3
  <2>2. linkedIs' = e
    OBVIOUS
  <2> QED
    BY ONLY <2>1, <2>2, LinkedStored

LEMMA LinkedAdd ==
    ASSUME LinkedInv, NEW x \in Data, NEW h \in BOOLEAN, L!linked_list_add(x, h)
    PROVE  LinkedInv'
<1>1. PICK s : LinkedGood(llEntry, ll, s, linkedIs)
  BY DEF LinkedInv
<1> DEFINE d == linkedIs
           k == IF h THEN 0 ELSE Len(s)
           e == IF h THEN <<x>> \o d ELSE Append(d, x)
<1>2. /\ s \in Seq(Cells) /\ d \in Seq(Data) /\ Len(s) = Len(d) /\ Len(s) \in Nat
      /\ ll.head = Cl(s, 1) /\ ll.tail = Cl(s, Len(s)) /\ ll.size = Len(s)
      /\ ll = [head |-> ll.head, tail |-> ll.tail, size |-> ll.size]
  BY <1>1, LinkedFacts
<1>3. PICK c \in Cells :
         /\ ~llEntry[c].used
         /\ IF ll.size = 0
            THEN llEntry' = L!NewEntry(c, x, NULL, NULL) /\ ll' = [head |-> c, tail |-> c, size |-> 1]
            ELSE IF h
            THEN /\ llEntry' = [L!NewEntry(c, x, NULL, ll.head) EXCEPT ![ll.head].prev = c]
                 /\ ll' = [ll EXCEPT !.head = c, !.size = @ + 1]
            ELSE /\ llEntry' = [L!NewEntry(c, x, ll.tail, NULL) EXCEPT ![ll.tail].next = c]
                 /\ ll' = [ll EXCEPT !.tail = c, !.size = @ + 1]
  BY DEF L!linked_list_add
<1>4. \A p, n : L!NewEntry(c, x, p, n) = [llEntry EXCEPT ![c] = Linked(x, n, p)]
  BY DEF L!NewEntry, Linked
<1> DEFINE t == IF h THEN <<c>> \o s ELSE Append(s, c)
<1>5. k \in 0..Len(s) /\ t \in Seq(Cells) /\ PutIn(s, t, k, c) /\ e \in Seq(Data) /\ PutIn(d, e, k, x)
  BY <1>2, FrontIn, BackIn
<1>6. linkedIs' = e
  BY DEF L!linked_list_add
<1>7. (k = 0 => Cl(s, k) = NULL) /\ (k = Len(s) => Cl(s, k + 1) = NULL)
      /\ (h => k = 0 /\ Cl(s, k + 1) = ll.head) /\ (~h => k = Len(s) /\ Cl(s, k) = ll.tail)
  <2>1. h => k = 0 /\ k + 1 = 1
    OBVIOUS
  <2>2. ~h => k = Len(s)
    OBVIOUS
  <2> HIDE DEF k
  <2>3. k \in Int /\ ~(0 \in 1..Len(s)) /\ ~(Len(s) + 1 \in 1..Len(s))
    BY <1>2, <1>5
  <2> QED
    BY <1>2, <2>1, <2>2, <2>3 DEF Cl
<1> HIDE DEF t, e, k
<1> DEFINE E1 == [llEntry EXCEPT ![c] = Linked(x, Cl(s, k + 1), Cl(s, k))]
           E2 == IF k = 0 THEN E1 ELSE [E1 EXCEPT ![Cl(s, k)].next = c]
<1>8. /\ llEntry' = IF k = Len(s) THEN E2 ELSE [E2 EXCEPT ![Cl(s, k + 1)].prev = c]
      /\ ll' = [head |-> IF k = 0 THEN c ELSE ll.head,
                tail |-> IF k = Len(s) THEN c ELSE ll.tail, size |-> ll.size + 1]
  <2>1. CASE ll.size = 0
    <3>1. k = 0 /\ k = Len(s)
      BY <1>2, <1>5, <2>1
    <3>2. llEntry' = L!NewEntry(c, x, NULL, NULL) /\ ll' = [head |-> c, tail |-> c, size |-> 1]
      BY <1>3, <2>1
    <3>3. llEntry' = [llEntry EXCEPT ![c] = Linked(x, Cl(s, k + 1), Cl(s, k))]
      BY ONLY <1>4, <1>7, <3>1, <3>2
    <3> QED
      BY ONLY <3>1, <3>2, <3>3, <2>1 DEF E1, E2
  <2>2. CASE ll.size # 0 /\ h
    <3>1. k = 0 /\ k # Len(s) /\ Cl(s, k) = NULL /\ Cl(s, k + 1) = ll.head
      BY <1>2, <1>7, <2>2
    <3>2. llEntry' = [L!NewEntry(c, x, NULL, ll.head) EXCEPT ![ll.head].prev = c]
          /\ ll' = [ll EXCEPT !.head = c, !.size = @ + 1]
      BY <1>3, <2>2
    <3>3. L!NewEntry(c, x, NULL, ll.head) = E1
      BY ONLY <1>4, <3>1 DEF E1
    <3> HIDE DEF E1
    <3>4. llEntry' = [E2 EXCEPT ![Cl(s, k + 1)].prev = c]
      BY ONLY <3>1, <3>2, <3>3 DEF E2
    <3>5. ll' = [head |-> c, tail |-> ll.tail, size |-> ll.size + 1]
      BY ONLY <1>2, <3>2
    <3> QED
      BY ONLY <3>1, <3>4, <3>5
  <2>3. CASE ll.size # 0 /\ ~h
    <3>1. k # 0 /\ k = Len(s) /\ Cl(s, k) = ll.tail /\ Cl(s, k + 1) = NULL
      BY <1>2, <1>7, <2>3
    <3>2. llEntry' = [L!NewEntry(c, x, ll.tail, NULL) EXCEPT ![ll.tail].next = c]
          /\ ll' = [ll EXCEPT !.tail = c, !.size = @ + 1]
      BY <1>3, <2>3
    <3>3. L!NewEntry(c, x, ll.tail, NULL) = E1
      BY ONLY <1>4, <3>1 DEF E1
    <3> HIDE DEF E1
    <3>4. llEntry' = E2
      BY ONLY <3>1, <3>2, <3>3 DEF E2
    <3>5. ll' = [head |-> ll.head, tail |-> c, size |-> ll.size + 1]
      BY ONLY <1>2, <3>2
    <3> QED
      BY ONLY <3>1, <3>4, <3>5
  <2> QED
    BY <2>1, <2>2, <2>3
<1>9. llEntry' = LinkBehind(llEntry, s, k, c, x) /\ ll' = EndsWith(ll, s, k, c)
  BY ONLY <1>8 DEF E1, E2, LinkBehind, EndsWith
<1> QED
  BY ONLY <1>1, <1>3, <1>5, <1>6, <1>9, x \in Data, c \in Cells, LinkedInsert

LEMMA LinkedInsertAt ==
    ASSUME LinkedInv, NEW index \in 0..MaxLen - 1, NEW x \in Data, L!linked_list_insert_at(index, x),
           fault' # "tail"
    PROVE  LinkedInv'
<1>1. PICK s : LinkedGood(llEntry, ll, s, linkedIs)
  BY DEF LinkedInv
<1> DEFINE d == linkedIs
           dst == L!linked_list_get_entry(index)
<1>2. /\ s \in Seq(Cells) /\ d \in Seq(Data) /\ Len(s) = Len(d) /\ Len(s) \in Nat
      /\ ll.head = Cl(s, 1) /\ ll.tail = Cl(s, Len(s)) /\ ll.size = Len(s)
      /\ ll = [head |-> ll.head, tail |-> ll.tail, size |-> ll.size]
      /\ \A i \in 1..Len(s) : Cl(s, i) = s[i]
  BY <1>1, LinkedFacts
<1>3. index \in 1..ll.size - 1 /\ index \in Nat /\ index < ll.size /\ index \in 0..Len(s) /\ index + 1 \in 1..Len(s)
      /\ index # 0 /\ index # Len(s) /\ (index + 1) - 1 = index
  BY <1>2 DEF L!linked_list_insert_at
<1>4. dst = Cl(s, index + 1) /\ llEntry[dst].prev = Cl(s, index)
  <2>1. dst = s[index + 1]
    BY <1>1, <1>3, GetEntry
  <2>2. llEntry[s[index + 1]].prev = Cl(s, (index + 1) - 1)
    BY <1>1, <1>3, LinkedFields
  <2> QED
    BY <1>2, <1>3, <2>1, <2>2
<1>5. PICK c \in Cells :
             /\ ~llEntry[c].used
             /\ llEntry' = [L!NewEntry(c, x, llEntry[dst].prev, dst)
                               EXCEPT ![llEntry[dst].prev].next = c, ![dst].prev = c]
  BY DEF L!linked_list_insert_at
<1> HIDE DEF dst
<1> DEFINE t == L!Inserted(s, index, c)
           e == L!Inserted(d, index, x)
           E1 == [llEntry EXCEPT ![c] = Linked(x, Cl(s, index + 1), Cl(s, index))]
           E2 == IF index = 0 THEN E1 ELSE [E1 EXCEPT ![Cl(s, index)].next = c]
<1>6. t \in Seq(Cells) /\ PutIn(s, t, index, c) /\ e \in Seq(Data) /\ PutIn(d, e, index, x)
  BY <1>2, <1>3, InsertedIn
<1>7. linkedIs' = e
  BY DEF L!linked_list_insert_at
<1>8. ll' = [head |-> IF index = 0 THEN c ELSE ll.head,
             tail |-> IF index = Len(s) THEN c ELSE ll.tail, size |-> ll.size + 1]
  <2>1. ll' = [ll EXCEPT !.size = @ + 1]
    <3>1. llEntry[dst].next # NULL
      BY DEF L!linked_list_insert_at, dst
    <3>2. ll' = [ll EXCEPT !.size = @ + 1, !.tail = IF llEntry[dst].next = NULL THEN ll'.tail ELSE @]
      BY <3>1 DEF L!linked_list_insert_at, dst
    <3> QED
      BY ONLY <1>2, <3>1, <3>2
  <2>2. ll' = [head |-> ll.head, tail |-> ll.tail, size |-> ll.size + 1]
    BY ONLY <1>2, <2>1
  <2> QED
    BY ONLY <1>3, <2>2
<1>9. llEntry' = IF index = Len(s) THEN E2 ELSE [E2 EXCEPT ![Cl(s, index + 1)].prev = c]
  <2>1. L!NewEntry(c, x, Cl(s, index), Cl(s, index + 1)) = E1
    BY DEF L!NewEntry, Linked
  <2> HIDE DEF E1
  <2>2. E2 = [E1 EXCEPT ![Cl(s, index)].next = c]
    BY <1>3
  <2> HIDE DEF E2
  <2>3. llEntry' = [E1 EXCEPT ![Cl(s, index)].next = c, ![Cl(s, index + 1)].prev = c]
    BY ONLY <1>4, <1>5, <2>1
  <2> QED
    BY ONLY <1>3, <2>2, <2>3
<1>10. llEntry' = LinkBehind(llEntry, s, index, c, x) /\ ll' = EndsWith(ll, s, index, c)
  BY ONLY <1>8, <1>9 DEF E1, E2, LinkBehind, EndsWith
<1> HIDE DEF t, e
<1> QED
  BY ONLY <1>1, <1>3, <1>5, <1>6, <1>7, <1>10, x \in Data, c \in Cells, LinkedInsert

LEMMA LinkedUnlink ==
    ASSUME NEW s, LinkedGood(llEntry, ll, s, linkedIs), NEW k \in 1..Len(s),
           L!UnlinkEntry(s[k]), linkedIs' = L!Dropped(linkedIs, k - 1)
    PROVE  LinkedInv'
<1> DEFINE d == linkedIs
           c == s[k]
           a == Cl(s, k - 1)
           b == Cl(s, k + 1)
           E1 == IF a = NULL THEN llEntry ELSE [llEntry EXCEPT ![a].next = b]
           E2 == IF b = NULL THEN E1 ELSE [E1 EXCEPT ![b].prev = a]
           E3 == llEntry'
           l3 == ll'
           t == L!Dropped(s, k - 1)
           e == L!Dropped(d, k - 1)
<1>1. /\ s \in Seq(Cells) /\ Len(s) \in Nat /\ Once(s) /\ llEntry = [y \in Cells |-> llEntry[y]]
      /\ d \in Seq(Data) /\ Len(s) = Len(d)
      /\ ll.head = Cl(s, 1) /\ ll.tail = Cl(s, Len(s)) /\ ll.size = Len(s)
      /\ \A i \in 1..Len(s) : s[i] \in Cells /\ s[i] # NULL /\ Cl(s, i) = s[i]
  BY LinkedFacts
<1>2. \A i \in 1..Len(s) : llEntry[s[i]] = Linked(d[i], Cl(s, i + 1), Cl(s, i - 1))
  BY DEF LinkedGood
<1>3. /\ k \in Int /\ 1 <= k /\ k <= Len(s) /\ k - 1 \in Int /\ k + 1 \in Int
      /\ (k - 1) + 1 = k /\ (k + 1) - 1 = k /\ c \in Cells
  BY <1>1
<1>4. llEntry[c].next = b /\ llEntry[c].prev = a
  BY LinkedFields
<1>5. E3 = [E2 EXCEPT ![c].used = FALSE]
      /\ l3 = [head |-> IF a = NULL THEN b ELSE ll.head, tail |-> IF b = NULL THEN a ELSE ll.tail,
               size |-> ll.size - 1]
  BY <1>4 DEF L!UnlinkEntry
<1>6. (a = NULL <=> k = 1) /\ (b = NULL <=> k = Len(s))
  <2>1. (k - 1 \in 1..Len(s) <=> k # 1) /\ (k + 1 \in 1..Len(s) <=> k # Len(s))
    BY <1>1, <1>3
  <2> QED
    BY <1>1, <1>3, <2>1, ClIs
<1>7. k # 1 => /\ k - 1 \in 1..Len(s) /\ a = s[k - 1] /\ a \in Cells /\ a # c
               /\ llEntry[a] = Linked(d[k - 1], c, Cl(s, (k - 1) - 1))
  <2> SUFFICES ASSUME k # 1
               PROVE  /\ k - 1 \in 1..Len(s) /\ a = s[k - 1] /\ a \in Cells /\ a # c
                      /\ llEntry[a] = Linked(d[k - 1], c, Cl(s, (k - 1) - 1))
    OBVIOUS
  <2>1. k - 1 \in 1..Len(s) /\ k - 1 # k
    BY <1>1, <1>3
  <2>2. a = s[k - 1] /\ a \in Cells /\ a # c
    BY <1>1, <2>1 DEF Once
  <2>3. llEntry[s[k - 1]] = Linked(d[k - 1], Cl(s, (k - 1) + 1), Cl(s, (k - 1) - 1))
    BY <1>2, <2>1
  <2> QED
    BY <1>1, <1>3, <2>1, <2>2, <2>3
<1>8. k # Len(s) => /\ k + 1 \in 1..Len(s) /\ b = s[k + 1] /\ b \in Cells /\ b # c
                    /\ llEntry[b] = Linked(d[k + 1], Cl(s, (k + 1) + 1), c)
  <2> SUFFICES ASSUME k # Len(s)
               PROVE  /\ k + 1 \in 1..Len(s) /\ b = s[k + 1] /\ b \in Cells /\ b # c
                      /\ llEntry[b] = Linked(d[k + 1], Cl(s, (k + 1) + 1), c)
    OBVIOUS
  <2>1. k + 1 \in 1..Len(s) /\ k + 1 # k
    BY <1>1, <1>3
  <2>2. b = s[k + 1] /\ b \in Cells /\ b # c
    BY <1>1, <2>1 DEF Once
  <2>3. llEntry[s[k + 1]] = Linked(d[k + 1], Cl(s, (k + 1) + 1), Cl(s, (k + 1) - 1))
    BY <1>2, <2>1
  <2> QED
    BY <1>1, <1>3, <2>1, <2>2, <2>3
<1>9. k # 1 /\ k # Len(s) => a # b
  <2>1. k - 1 # k + 1
    BY <1>3
  <2> QED
    BY <1>1, <1>7, <1>8, <2>1 DEF Once
<1>10. t \in Seq(Cells) /\ CutOut(s, t, k) /\ e \in Seq(Data) /\ CutOut(d, e, k)
  BY <1>1, DroppedOut
<1>0. /\ E1 = (IF a = NULL THEN llEntry ELSE [llEntry EXCEPT ![a].next = b])
      /\ E2 = (IF b = NULL THEN E1 ELSE [E1 EXCEPT ![b].prev = a])
      /\ a = Cl(s, k - 1) /\ b = Cl(s, k + 1) /\ c = s[k]
  OBVIOUS
<1> HIDE DEF a, b, c, E1, E2, E3, l3, t, e
<1>11. /\ E1 = [y \in Cells |-> E1[y]]
       /\ k # 1 => E1[a] = Linked(d[k - 1], b, Cl(s, (k - 1) - 1))
       /\ \A y \in Cells : y # a => E1[y] = llEntry[y]
  <2>1. CASE k = 1
    BY <1>0, <1>1, <1>6, <2>1
  <2>2. CASE k # 1
    <3>1. E1 = [llEntry EXCEPT ![a].next = b] /\ a \in Cells
      BY <1>0, <1>6, <1>7, <2>2
    <3>2. /\ E1 = [y \in Cells |-> E1[y]] /\ E1[a] = [llEntry[a] EXCEPT !.next = b]
          /\ \A y \in Cells : y # a => E1[y] = llEntry[y]
      BY ONLY <1>1, <3>1
    <3>3. llEntry[a] = Linked(d[k - 1], c, Cl(s, (k - 1) - 1))
      BY <1>7, <2>2
    <3>4. E1[a] = Linked(d[k - 1], b, Cl(s, (k - 1) - 1))
      BY ONLY <3>2, <3>3, LinkedEntry
    <3> QED
      BY ONLY <3>2, <3>4
  <2> QED
    BY <2>1, <2>2
<1>12. /\ E2 = [y \in Cells |-> E2[y]]
       /\ k # 1 => E2[a] = Linked(d[k - 1], b, Cl(s, (k - 1) - 1))
       /\ k # Len(s) => E2[b] = Linked(d[k + 1], Cl(s, (k + 1) + 1), a)
       /\ \A y \in Cells : y # a /\ y # b => E2[y] = llEntry[y]
  <2>1. CASE k = Len(s)
    BY <1>0, <1>6, <1>11, <2>1
  <2>2. CASE k # Len(s)
    <3>1. E2 = [E1 EXCEPT ![b].prev = a] /\ b \in Cells
      BY <1>0, <1>6, <1>8, <2>2
    <3>0. a # b
      BY <1>6, <1>9, <2>2
    <3>2. /\ E2 = [y \in Cells |-> E2[y]] /\ E2[b] = [E1[b] EXCEPT !.prev = a]
          /\ \A y \in Cells : y # b => E2[y] = E1[y]
      BY ONLY <1>11, <3>1
    <3>3. E1[b] = Linked(d[k + 1], Cl(s, (k + 1) + 1), c)
      BY <1>8, <1>11, <2>2, <3>0, <3>1
    <3>4. E2[b] = Linked(d[k + 1], Cl(s, (k + 1) + 1), a)
      BY ONLY <3>2, <3>3, LinkedEntry
    <3>5. k # 1 => E2[a] = Linked(d[k - 1], b, Cl(s, (k - 1) - 1))
      BY <1>7, <1>11, <3>0, <3>2
    <3> QED
      BY ONLY <1>11, <3>2, <3>4, <3>5
  <2> QED
    BY <2>1, <2>2
<1>13. /\ E3 = [y \in Cells |-> E3[y]]
       /\ \A y \in Cells : y # c => E3[y] = E2[y]
  BY ONLY <1>3, <1>5, <1>12
<1>14. LinkedGood(E3, l3, t, e)
  <2>1. /\ E3 = [y \in Cells |-> E3[y]]
        /\ k > 1 => E3[s[k - 1]] = Linked(d[k - 1], Cl(s, k + 1), Cl(s, (k - 1) - 1))
        /\ k < Len(s) => E3[s[k + 1]] = Linked(d[k + 1], Cl(s, (k + 1) + 1), Cl(s, k - 1))
        /\ \A y \in Cells : y # s[k] /\ y # Cl(s, k - 1) /\ y # Cl(s, k + 1) => E3[y] = llEntry[y]
    <3>1. k > 1 => E3[s[k - 1]] = Linked(d[k - 1], Cl(s, k + 1), Cl(s, (k - 1) - 1))
      <4> SUFFICES ASSUME k > 1 PROVE E3[s[k - 1]] = Linked(d[k - 1], Cl(s, k + 1), Cl(s, (k - 1) - 1))
        OBVIOUS
      <4>1. k # 1
        BY <1>3
      <4>2. a \in Cells /\ a # c /\ a = s[k - 1]
        BY <1>7, <4>1
      <4>3. E3[a] = E2[a]
        BY <1>13, <4>2
      <4>4. E2[a] = Linked(d[k - 1], b, Cl(s, (k - 1) - 1))
        BY <1>12, <4>1
      <4> QED
        BY ONLY <1>0, <4>2, <4>3, <4>4
    <3>2. k < Len(s) => E3[s[k + 1]] = Linked(d[k + 1], Cl(s, (k + 1) + 1), Cl(s, k - 1))
      <4>1. k < Len(s) => k # Len(s)
        BY <1>1, <1>3
      <4> QED
        BY <1>0, <1>8, <1>12, <1>13, <4>1
    <3> QED
      BY <1>0, <1>12, <1>13, <3>1, <3>2
  <2>2. l3 = [head |-> IF k = 1 THEN Cl(s, k + 1) ELSE ll.head,
              tail |-> IF k = Len(s) THEN Cl(s, k - 1) ELSE ll.tail, size |-> ll.size - 1]
    BY <1>0, <1>5, <1>6
  <2> QED
    <3>1. LinkPast(llEntry, E3, s, d, k)
      BY ONLY <2>1 DEF LinkPast
    <3>2. l3 = EndsWithout(ll, s, k)
      BY ONLY <2>2 DEF EndsWithout
    <3>3. LinkedGood(llEntry, ll, s, d) /\ k \in 1..Len(s)
      OBVIOUS
    <3> HIDE DEF d
    <3> QED
      BY ONLY <1>10, <3>1, <3>2, <3>3, LinkedCut
<1> QED
  <2>1. LinkedGood(llEntry', ll', t, e)
    BY ONLY <1>14 DEF E3, l3
  <2>2. linkedIs' = e
    BY DEF e
  <2> QED
    BY ONLY <2>1, <2>2, LinkedStored

LEMMA LinkedRemoveAt ==
    ASSUME LinkedInv, NEW index \in 0..MaxLen - 1, L!linked_list_remove_at(index)
    PROVE  LinkedInv'
<1>1. PICK s : LinkedGood(llEntry, ll, s, linkedIs)
  BY DEF LinkedInv
<1>2. index \in Nat /\ index < ll.size /\ index + 1 \in 1..Len(s) /\ (index + 1) - 1 = index
  <2>1. ll.size = Len(s) /\ Len(s) \in Nat
    BY <1>1, LinkedFacts
  <2> QED
    BY <2>1 DEF L!linked_list_remove_at
<1>3. L!linked_list_get_entry(index) = s[index + 1]
  BY <1>1, <1>2, GetEntry
<1>4. L!UnlinkEntry(s[index + 1]) /\ linkedIs' = L!Dropped(linkedIs, (index + 1) - 1)
  BY <1>2, <1>3 DEF L!linked_list_remove_at
<1> QED
  BY ONLY <1>1, <1>2, <1>4, LinkedUnlink

LEMMA LinkedRemove ==
    ASSUME LinkedInv, NEW x \in Data, L!linked_list_remove(x)
    PROVE  LinkedInv'
<1>1. PICK s : LinkedGood(llEntry, ll, s, linkedIs)
  BY DEF LinkedInv
<1> DEFINE k == L!Least(linkedIs, x)
<1>2. L!linked_list_contains(x) /\ L!UnlinkEntry(L!FirstWith(x)) /\ linkedIs' = L!Dropped(linkedIs, k - 1)
  BY DEF L!linked_list_remove
<1>3. k \in 1..Len(s) /\ L!FirstWith(x) = s[k]
  BY <1>1, <1>2, FirstWithIs
<1> HIDE DEF k
<1>4. L!UnlinkEntry(s[k])
  BY <1>2, <1>3
<1> QED
  BY ONLY <1>1, <1>2, <1>3, <1>4, LinkedUnlink

LEMMA LinkedRemoveAll == ASSUME L!linked_list_remove_all PROVE LinkedInv'
<1>1. LinkedGood(llEntry', ll', <<>>, <<>>)
  <2>1. llEntry' = [c \in Cells |-> llEntry'[c]]
    BY DEF L!linked_list_remove_all
  <2>2. ll' = [head |-> NULL, tail |-> NULL, size |-> 0]
    BY DEF L!linked_list_remove_all
  <2> QED
    BY <2>1, <2>2, LinkedStart
<1>2. linkedIs' = <<>>
  BY DEF L!linked_list_remove_all
<1> QED
  BY ONLY <1>1, <1>2, LinkedStored

LEMMA LinkedSet ==
    ASSUME LinkedInv, NEW index \in 0..MaxLen - 1, NEW x \in Data, L!linked_list_set(index, x)
    PROVE  LinkedInv'
<1>1. PICK s : LinkedGood(llEntry, ll, s, linkedIs)
  BY DEF LinkedInv
<1> DEFINE d == linkedIs
           k == index + 1
           E == [llEntry EXCEPT ![s[k]].data = x]
           e == [d EXCEPT ![k] = x]
<1>2. /\ s \in Seq(Cells) /\ Len(s) \in Nat /\ Once(s) /\ llEntry = [y \in Cells |-> llEntry[y]]
      /\ d \in Seq(Data) /\ Len(s) = Len(d) /\ ll.size = Len(s)
      /\ \A i \in 1..Len(s) : s[i] \in Cells
  BY <1>1, LinkedFacts
<1>3. index \in Nat /\ index < ll.size /\ k \in 1..Len(s)
  BY <1>2 DEF L!linked_list_set
<1>4. L!linked_list_get_entry(index) = s[k]
  BY <1>1, <1>3, GetEntry
<1>5. llEntry' = E /\ linkedIs' = e /\ ll' = ll
  BY <1>4 DEF L!linked_list_set
<1>6. e \in Seq(Data) /\ Len(e) = Len(s) /\ e[k] = x /\ \A i \in 1..Len(s) : i # k => e[i] = d[i]
  BY <1>2, <1>3
<1> HIDE DEF k
<1>7. /\ E = [y \in Cells |-> E[y]] /\ E[s[k]] = [llEntry[s[k]] EXCEPT !.data = x]
      /\ \A y \in Cells : y # s[k] => E[y] = llEntry[y]
  BY ONLY <1>2, <1>3
<1> HIDE DEF E, e
<1>8. ASSUME NEW i \in 1..Len(s) PROVE E[s[i]] = Linked(e[i], Cl(s, i + 1), Cl(s, i - 1))
  <2>1. llEntry[s[i]] = Linked(d[i], Cl(s, i + 1), Cl(s, i - 1))
    BY <1>1 DEF LinkedGood
  <2>2. CASE i = k
    <3>1. [llEntry[s[i]] EXCEPT !.data = x] = Linked(x, Cl(s, i + 1), Cl(s, i - 1))
      BY ONLY <2>1, LinkedEntry
    <3> QED
      BY ONLY <1>6, <1>7, <2>2, <3>1
  <2>3. CASE i # k
    <3>1. s[i] # s[k]
      BY <1>2, <1>3, <2>3 DEF Once
    <3> QED
      BY <1>2, <1>6, <1>7, <2>1, <2>3, <3>1
  <2> QED
    BY <2>2, <2>3
<1>9. LinkedGood(E, ll, s, e)
  <2>1. ll = [head |-> Cl(s, 1), tail |-> Cl(s, Len(s)), size |-> Len(s)]
    BY <1>1 DEF LinkedGood
  <2> QED
    BY ONLY <1>2, <1>6, <1>7, <1>8, <2>1 DEF LinkedGood
<1> QED
  BY ONLY <1>5, <1>9, LinkedStored

(* The array list: the elements are in its entries, and one more entry is  *)
(* inside of the array.  A list that has lost its array is empty.          *)
Laid(a, d) ==
    /\ d \in Seq(Data) /\ a.size = Len(d) /\ a.capacity \in Nat /\ a.size < a.capacity
    /\ a = [entries |-> a.entries, size |-> a.size, capacity |-> a.capacity]
    /\ a.entries = [i \in 0..a.capacity - 1 |-> a.entries[i]] \/ (a.entries = L!NoArray /\ d = <<>>)
    /\ \A i \in 1..Len(d) : a.entries[i - 1] = d[i]
ArrayInv == Laid(al, arrayIs)

LEMMA CapacityIs == L!Capacity \in Nat /\ L!Capacity > 0
BY ListsAssumption DEF L!Capacity

(* A list of these entries; the fields of the record are read off.         *)
LEMMA LaidIs ==
    ASSUME NEW d \in Seq(Data), NEW n \in Nat, Len(d) < n, NEW e, e = [i \in 0..n - 1 |-> e[i]],
           \A i \in 1..Len(d) : e[i - 1] = d[i],
           NEW z, z = Len(d)
    PROVE  Laid([entries |-> e, size |-> z, capacity |-> n], d)
BY DEF Laid

LEMMA LostIs ==
    ASSUME NEW n \in Nat, 0 < n
    PROVE  Laid([entries |-> L!NoArray, size |-> 0, capacity |-> n], <<>>)
BY EmptySeq DEF Laid

LEMMA LaidFacts ==
    ASSUME NEW a, NEW d, Laid(a, d)
    PROVE  /\ d \in Seq(Data) /\ a.size = Len(d) /\ Len(d) \in Nat /\ a.capacity \in Nat /\ Len(d) < a.capacity
           /\ a = [entries |-> a.entries, size |-> a.size, capacity |-> a.capacity]
           /\ Len(d) > 0 => /\ a.entries = [i \in 0..a.capacity - 1 |-> a.entries[i]]
                           /\ DOMAIN a.entries = 0..a.capacity - 1
           /\ DOMAIN a.entries = 0..a.capacity - 1 \/ (a.entries = L!NoArray /\ d = <<>>)
           /\ \A i \in 1..Len(d) : a.entries[i - 1] = d[i]
<1>1. \A i \in 1..Len(d) : a.entries[i - 1] = d[i]
  BY DEF Laid
<1>2. /\ a = [entries |-> a.entries, size |-> a.size, capacity |-> a.capacity]
      /\ a.entries = [i \in 0..a.capacity - 1 |-> a.entries[i]] \/ (a.entries = L!NoArray /\ d = <<>>)
  BY DEF Laid
<1>3. /\ d \in Seq(Data) /\ a.size = Len(d) /\ Len(d) \in Nat /\ a.capacity \in Nat /\ Len(d) < a.capacity
  BY DEF Laid
<1>4. ASSUME a.entries = [i \in 0..a.capacity - 1 |-> a.entries[i]] PROVE DOMAIN a.entries = 0..a.capacity - 1
  BY ONLY <1>4
<1>5. Len(<<>>) = 0
  BY EmptySeq
<1> QED
  BY <1>1, <1>2, <1>3, <1>4, <1>5

LEMMA ArrayFacts ==
    ASSUME ArrayInv
    PROVE  /\ arrayIs \in Seq(Data) /\ al.size = Len(arrayIs) /\ Len(arrayIs) \in Nat
           /\ al.capacity \in Nat /\ al.size < al.capacity
           /\ Len(arrayIs) > 0 => DOMAIN al.entries = 0..al.capacity - 1
           /\ DOMAIN al.entries = 0..al.capacity - 1 \/ (al.entries = L!NoArray /\ arrayIs = <<>>)
           /\ \A i \in 1..Len(arrayIs) : al.entries[i - 1] = arrayIs[i]
<1>1. Laid(al, arrayIs)
  BY DEF ArrayInv
<1>2. /\ arrayIs \in Seq(Data) /\ al.size = Len(arrayIs) /\ Len(arrayIs) \in Nat /\ al.capacity \in Nat /\ Len(arrayIs) < al.capacity
      /\ DOMAIN al.entries = 0..al.capacity - 1 \/ (al.entries = L!NoArray /\ arrayIs = <<>>)
      /\ Len(arrayIs) > 0 => DOMAIN al.entries = 0..al.capacity - 1
  BY ONLY <1>1, LaidFacts, Zenon
<1>3. \A i \in 1..Len(arrayIs) : al.entries[i - 1] = arrayIs[i]
  BY ONLY <1>1 DEF Laid
<1> QED
  BY ONLY <1>2, <1>3

LEMMA ArrayGone == ASSUME L!ArrayLost PROVE ArrayInv'
BY LostIs, ListsAssumption DEF L!ArrayLost, ArrayInv

LEMMA ArrayStart == ASSUME L!Init PROVE ArrayInv
<1> DEFINE n == L!Capacity
           e == [i \in 0..n - 1 |-> NULL]
<1>1. al = [entries |-> e, size |-> 0, capacity |-> n] /\ arrayIs = <<>>
  BY DEF L!Init
<1>2. <<>> \in Seq(Data) /\ Len(<<>>) = 0 /\ n \in Nat /\ Len(<<>>) < n
  BY CapacityIs, EmptySeq
<1>3. e = [i \in 0..n - 1 |-> e[i]]
  OBVIOUS
<1> HIDE DEF e, n
<1>4. Laid([entries |-> e, size |-> 0, capacity |-> n], <<>>)
  BY <1>2, <1>3, LaidIs
<1> QED
  BY <1>1, <1>4 DEF ArrayInv

LEMMA ArrayInsert ==
    ASSUME ArrayInv, NEW index \in Nat, NEW x \in Data, L!array_list_insert_at(index, x)
    PROVE  ArrayInv'
<1> DEFINE s == arrayIs
           t == L!Inserted(s, index, x)
           old == al.entries
           n == IF L!Grows THEN al.capacity * 2 ELSE al.capacity
           grown == L!Resized(old, n)
           new == [i \in 0..n - 1 |-> IF i < index \/ i > al.size THEN grown[i]
                                      ELSE IF i = index THEN x ELSE grown[i - 1]]
<1>1. /\ s \in Seq(Data) /\ al.size = Len(s) /\ Len(s) \in Nat /\ al.capacity \in Nat /\ al.size < al.capacity
      /\ Len(s) > 0 => DOMAIN old = 0..al.capacity - 1
      /\ \A i \in 1..Len(s) : old[i - 1] = s[i]
  BY ArrayFacts
<1>2. index <= Len(s) /\ index \in 0..Len(s)
  BY <1>1 DEF L!array_list_insert_at
<1>3. al' = [entries |-> new, size |-> al.size + 1, capacity |-> n] /\ arrayIs' = t
  BY DEF L!array_list_insert_at
<1>4. t \in Seq(Data) /\ PutIn(s, t, index, x)
  BY <1>1, <1>2, InsertedIn
<1>5. n \in Nat /\ Len(s) + 1 < n /\ al.capacity <= n
  BY <1>1 DEF L!Grows
<1>6. \A i \in 0..n - 1 : new[i] = IF i < index \/ i > al.size THEN grown[i]
                                   ELSE IF i = index THEN x ELSE grown[i - 1]
  OBVIOUS
<1>7. ASSUME NEW i \in 0..Len(s) - 1 PROVE grown[i] = s[i + 1]
  <2>1. i \in 0..n - 1 /\ i \in 0..al.capacity - 1 /\ i + 1 \in 1..Len(s) /\ (i + 1) - 1 = i
    BY <1>1, <1>5
  <2>2. DOMAIN old = 0..al.capacity - 1
    BY <1>1
  <2>3. grown[i] = old[i]
    BY <2>1, <2>2 DEF L!Resized
  <2> QED
    BY <1>1, <2>1, <2>3
<1>8. new = [i \in 0..n - 1 |-> new[i]]
  OBVIOUS
<1> HIDE DEF s, t, old, n, grown, new
<1>9. Len(t) = Len(s) + 1 /\ \A i \in 1..Len(t) :
          t[i] = IF i <= index THEN s[i] ELSE IF i = index + 1 THEN x ELSE s[i - 1]
  BY <1>4 DEF PutIn
<1>10. ASSUME NEW i \in 1..Len(t) PROVE new[i - 1] = t[i]
  <2>1. i \in Int /\ 1 <= i /\ i <= Len(s) + 1 /\ i - 1 \in 0..n - 1 /\ ~(i - 1 > al.size)
    BY <1>1, <1>5, <1>9
  <2>2. CASE i <= index
    <3>1. i - 1 < index /\ i - 1 \in 0..Len(s) - 1 /\ (i - 1) + 1 = i
      BY <1>2, <2>1, <2>2
    <3>2. new[i - 1] = grown[i - 1]
      BY ONLY <1>6, <2>1, <3>1
    <3>3. grown[i - 1] = s[i]
      BY ONLY <1>7, <3>1
    <3> QED
      BY <1>9, <2>2, <3>2, <3>3
  <2>3. CASE i = index + 1
    <3>1. ~(i - 1 < index) /\ i - 1 = index /\ ~(i <= index)
      BY <1>2, <2>1, <2>3
    <3>2. new[i - 1] = x
      BY ONLY <1>6, <2>1, <3>1
    <3>3. t[i] = x
      BY <1>9, <2>3, <3>1
    <3> QED
      BY <3>2, <3>3
  <2>4. CASE ~(i <= index) /\ i # index + 1
    <3>1. ~(i - 1 < index) /\ i - 1 # index /\ (i - 1) - 1 \in 0..Len(s) - 1 /\ ((i - 1) - 1) + 1 = i - 1
      BY <1>2, <2>1, <2>4
    <3>2. new[i - 1] = grown[(i - 1) - 1]
      BY ONLY <1>6, <2>1, <3>1
    <3>3. grown[(i - 1) - 1] = s[i - 1]
      BY ONLY <1>7, <3>1
    <3>4. t[i] = s[i - 1]
      BY ONLY <1>9, <2>4, i \in 1..Len(t)
    <3> QED
      BY ONLY <3>2, <3>3, <3>4
  <2> QED
    BY <2>2, <2>3, <2>4
<1>11. Laid([entries |-> new, size |-> al.size + 1, capacity |-> n], t)
  <2>1. t \in Seq(Data) /\ n \in Nat /\ Len(t) < n /\ al.size + 1 = Len(t)
    BY <1>1, <1>4, <1>5, <1>9
  <2> QED
    BY ONLY <1>8, <1>10, <2>1, LaidIs
<1> QED
  BY ONLY <1>3, <1>11 DEF ArrayInv

LEMMA ShrinksTo ==
    ASSUME ArrayInv, NEW z \in Nat, z <= al.size, L!Shrinks(z)
    PROVE  al.capacity \div 2 \in Nat /\ z < al.capacity \div 2
<1>1. al.capacity \in Nat /\ al.capacity > 1 /\ z <= al.capacity \div 4
  <2>1. al.capacity \in Nat /\ al.capacity > L!Capacity /\ z <= al.capacity \div 4
    BY ArrayFacts DEF L!Shrinks
  <2> QED
    BY ONLY <2>1, CapacityIs
<1>2. al.capacity \div 4 < al.capacity \div 2 /\ al.capacity \div 2 \in Nat /\ al.capacity \div 4 \in Nat
  BY ONLY <1>1
<1> QED
  BY ONLY <1>1, <1>2, z \in Nat

(* Nothing is there to be removed; the array may shrink all the same.      *)
LEMMA ArrayRemoveNone ==
    ASSUME ArrayInv, NEW index \in Nat, L!array_list_remove_at(index), al.size = 0, ~L!ArrayLost
    PROVE  ArrayInv'
<1> DEFINE e == [i \in DOMAIN al.entries |->
                    IF i = al.size - 1 THEN NULL
                    ELSE IF i \in index..al.size - 1 THEN al.entries[i + 1] ELSE al.entries[i]]
           n == IF L!Shrinks(0) THEN al.capacity \div 2 ELSE al.capacity
           f == IF L!Shrinks(0) THEN L!Resized(e, n) ELSE e
<1>1. al.capacity \in Nat /\ 0 < al.capacity /\ arrayIs \in Seq(Data) /\ Len(arrayIs) = 0
      /\ (DOMAIN al.entries = 0..al.capacity - 1 \/ al.entries = L!NoArray)
  BY LaidFacts DEF ArrayInv
<1>2. al' = [entries |-> f, size |-> 0, capacity |-> n] /\ arrayIs' = <<>>
  BY DEF L!array_list_remove_at
<1>3. n \in Nat /\ 0 < n
  BY <1>1, ShrinksTo
<1>4. f = [i \in 0..n - 1 |-> f[i]] \/ f = L!NoArray
  <2>1. CASE L!Shrinks(0)
    <3> HIDE DEF e, n
    <3>1. f = [i \in 0..n - 1 |-> IF i \in DOMAIN e THEN e[i] ELSE Junk]
      BY <2>1 DEF L!Resized
    <3> HIDE DEF f
    <3> QED
      BY ONLY <3>1
  <2>2. CASE ~L!Shrinks(0) /\ DOMAIN al.entries = 0..al.capacity - 1
    BY <2>2
  <2>3. CASE ~L!Shrinks(0) /\ al.entries = L!NoArray
    <3>1. DOMAIN al.entries = {}
      BY <2>3 DEF L!NoArray
    <3>2. f = e
      BY <2>3
    <3> QED
      BY <3>1, <3>2 DEF L!NoArray
  <2> QED
    BY <1>1, <2>1, <2>2, <2>3
<1> HIDE DEF f, n
<1>5. <<>> \in Seq(Data) /\ Len(<<>>) = 0
  BY EmptySeq
<1>6. Laid([entries |-> f, size |-> 0, capacity |-> n], <<>>)
  BY ONLY <1>3, <1>4, <1>5, LaidIs, LostIs
<1> QED
  BY ONLY <1>2, <1>6 DEF ArrayInv

LEMMA ArrayRemoveOne ==
    ASSUME ArrayInv, NEW index \in Nat, L!array_list_remove_at(index), al.size # 0, ~L!ArrayLost
    PROVE  ArrayInv'
<1> DEFINE s == arrayIs
           at_ == IF index < al.size THEN index ELSE al.size - 1
           k == at_ + 1
           t == L!Dropped(s, at_)
           old == al.entries
           n == IF L!Shrinks(al.size - 1) THEN al.capacity \div 2 ELSE al.capacity
           moved == [i \in DOMAIN old |-> IF i = al.size - 1 THEN NULL
                                          ELSE IF i \in index..al.size - 1 THEN old[i + 1] ELSE old[i]]
           new == IF L!Shrinks(al.size - 1) THEN L!Resized(moved, n) ELSE moved
<1>1. /\ s \in Seq(Data) /\ al.size = Len(s) /\ Len(s) \in Nat /\ al.capacity \in Nat /\ al.size < al.capacity
      /\ old = [i \in 0..al.capacity - 1 |-> old[i]] /\ DOMAIN old = 0..al.capacity - 1
      /\ \A i \in 1..Len(s) : old[i - 1] = s[i]
  BY LaidFacts DEF ArrayInv
<1>2. at_ \in Nat /\ at_ < Len(s) /\ k \in 1..Len(s) /\ k - 1 = at_
  BY <1>1
<1>3. al' = [entries |-> new, size |-> al.size - 1, capacity |-> n] /\ arrayIs' = t
  BY DEF L!array_list_remove_at
<1>4. t \in Seq(Data) /\ CutOut(s, t, k)
  BY <1>1, <1>2, DroppedOut
<1>5. n \in Nat /\ Len(s) - 1 < n
  <2>1. al.size - 1 \in Nat /\ al.size - 1 <= al.size /\ al.size - 1 < al.capacity
    BY <1>1
  <2>2. L!Shrinks(al.size - 1) => al.capacity \div 2 \in Nat /\ al.size - 1 < al.capacity \div 2
    BY <2>1, ShrinksTo
  <2> QED
    BY ONLY <1>1, <2>1, <2>2
<1>6. \A i \in 0..al.capacity - 1 : moved[i] = IF i = al.size - 1 THEN NULL
                                     ELSE IF i \in at_..al.size - 1 THEN old[i + 1] ELSE old[i]
  <2> SUFFICES ASSUME NEW i \in 0..al.capacity - 1, i # al.size - 1
               PROVE  i \in index..al.size - 1 <=> i \in at_..al.size - 1
    BY <1>1
  <2> QED
    BY <1>1
<1>12. DOMAIN moved = 0..al.capacity - 1 /\ moved = [i \in 0..al.capacity - 1 |-> moved[i]]
  BY <1>1
<1>7. (\A i \in 0..n - 1 : i \in 0..al.capacity - 1 => new[i] = moved[i]) /\ new = [i \in 0..n - 1 |-> new[i]]
  <2> HIDE DEF moved
  <2>1. CASE L!Shrinks(al.size - 1)
    <3>1. new = [i \in 0..n - 1 |-> IF i \in DOMAIN moved THEN moved[i] ELSE Junk]
      BY <2>1 DEF L!Resized
    <3> HIDE DEF new, n
    <3> QED
      BY ONLY <1>12, <3>1
  <2>2. CASE ~L!Shrinks(al.size - 1)
    BY <1>12, <2>2
  <2> QED
    BY <2>1, <2>2
<1>8. new = [i \in 0..n - 1 |-> new[i]]
  BY <1>7
<1> HIDE DEF s, at_, k, t, old, n, moved, new
<1>9. Len(t) = Len(s) - 1 /\ \A i \in 1..Len(t) : t[i] = IF i < k THEN s[i] ELSE s[i + 1]
  BY <1>4 DEF CutOut
<1>10. ASSUME NEW i \in 1..Len(t) PROVE new[i - 1] = t[i]
  <2>1. /\ i \in Int /\ 1 <= i /\ i <= Len(s) - 1 /\ i - 1 \in 0..n - 1 /\ i - 1 \in 0..al.capacity - 1
        /\ i - 1 # al.size - 1 /\ (i - 1) + 1 = (i + 1) - 1 /\ i \in 1..Len(s) /\ i + 1 \in 1..Len(s)
    BY <1>1, <1>5, <1>9
  <2>2. new[i - 1] = moved[i - 1]
    BY ONLY <1>7, <2>1
  <2>3. CASE i < k
    <3>1. ~(i - 1 \in at_..al.size - 1)
      BY <1>1, <1>2, <2>1, <2>3
    <3>2. moved[i - 1] = old[i - 1]
      BY ONLY <1>6, <2>1, <3>1
    <3> QED
      BY <1>1, <1>9, <2>1, <2>2, <2>3, <3>2
  <2>4. CASE ~(i < k)
    <3>1. i - 1 \in at_..al.size - 1
      BY <1>1, <1>2, <2>1, <2>4
    <3>2. moved[i - 1] = old[(i - 1) + 1]
      BY ONLY <1>6, <2>1, <3>1
    <3>3. old[(i + 1) - 1] = s[i + 1]
      BY <1>1, <2>1
    <3>4. t[i] = s[i + 1]
      BY ONLY <1>9, <2>4, i \in 1..Len(t)
    <3> QED
      BY ONLY <2>1, <2>2, <3>2, <3>3, <3>4
  <2> QED
    BY <2>3, <2>4
<1>11. Laid([entries |-> new, size |-> al.size - 1, capacity |-> n], t)
  <2>1. t \in Seq(Data) /\ n \in Nat /\ Len(t) < n /\ al.size - 1 = Len(t)
    BY <1>1, <1>4, <1>5, <1>9
  <2> QED
    BY ONLY <1>8, <1>10, <2>1, LaidIs
<1> QED
  BY ONLY <1>3, <1>11 DEF ArrayInv

LEMMA ArrayRemoveAt ==
    ASSUME ArrayInv, NEW index \in Nat, L!array_list_remove_at(index)
    PROVE  ArrayInv'
BY ArrayRemoveNone, ArrayRemoveOne, ArrayGone

(* The first entry with the data is the one that goes.                     *)
LEMMA ArrayRemove ==
    ASSUME ArrayInv, NEW x \in Data, L!array_list_remove(x)
    PROVE  ArrayInv'
<1> DEFINE F == {i \in 0..al.size - 1 : al.entries[i] = x}
           P(i) == al.entries[i] = x /\ \A j \in 0..i - 1 : al.entries[j] # x
           c == CHOOSE i \in 0..al.size - 1 : P(i)
<1>1. al.size \in Nat
  BY ArrayFacts
<1>2. PICK f \in F : \A g \in F : f <= g
  <2>1. F # {} /\ F \in SUBSET Nat
    BY <1>1 DEF L!array_list_remove, L!array_list_contains
  <2> QED
    BY ONLY <2>1, LeastPlace
<1>3. f \in 0..al.size - 1 /\ P(f)
  <2>1. ASSUME NEW j \in 0..f - 1, al.entries[j] = x PROVE FALSE
    <3>1. j \in F /\ j < f /\ j \in Int /\ f \in Int
      BY <1>1, <2>1
    <3> QED
      BY <1>2, <3>1
  <2> QED
    BY <2>1
<1>4. c \in 0..al.size - 1
  BY ONLY <1>3
<1>5. c \in Nat
  BY <1>1, <1>4
<1>6. L!array_list_remove_at(c)
  BY DEF L!array_list_remove
<1> HIDE DEF c
<1> QED
  BY <1>5, <1>6, ArrayRemoveAt

LEMMA ArrayRemoveAll == ASSUME L!array_list_remove_all PROVE ArrayInv'
<1> DEFINE n == L!Capacity
           e == L!Resized(al.entries, n)
<1>1. /\ \E f \in {e, L!NoArray} : al' = [entries |-> f, size |-> 0, capacity |-> n]
      /\ arrayIs' = <<>>
  BY DEF L!array_list_remove_all
<1>2. <<>> \in Seq(Data) /\ Len(<<>>) = 0 /\ n \in Nat /\ Len(<<>>) < n
  BY CapacityIs, EmptySeq
<1>3. e = [i \in 0..n - 1 |-> e[i]]
  BY DEF L!Resized
<1> HIDE DEF e, n
<1>4. Laid([entries |-> e, size |-> 0, capacity |-> n], <<>>)
  BY <1>2, <1>3, LaidIs
<1>5. Laid([entries |-> L!NoArray, size |-> 0, capacity |-> n], <<>>)
  BY <1>2, LostIs
<1> QED
  BY ONLY <1>1, <1>4, <1>5 DEF ArrayInv

LEMMA ArraySet ==
    ASSUME ArrayInv, NEW index \in Nat, NEW x \in Data, L!array_list_set(index, x)
    PROVE  ArrayInv'
<1>9. /\ arrayIs \in Seq(Data) /\ al.size = Len(arrayIs) /\ Len(arrayIs) \in Nat
      /\ al.capacity \in Nat /\ al.size < al.capacity
      /\ index < al.size
      /\ al.entries = [i \in 0..al.capacity - 1 |-> al.entries[i]] /\ DOMAIN al.entries = 0..al.capacity - 1
      /\ \A i \in 1..Len(arrayIs) : al.entries[i - 1] = arrayIs[i]
  BY LaidFacts DEF ArrayInv, L!array_list_set
<1> DEFINE s == arrayIs
           k == index + 1
           t == [s EXCEPT ![k] = x]
           old == al.entries
           new == [old EXCEPT ![index] = x]
           n == al.capacity
<1>1. /\ s \in Seq(Data) /\ al.size = Len(s) /\ Len(s) \in Nat /\ n \in Nat /\ Len(s) < n
      /\ old = [i \in 0..n - 1 |-> old[i]]
      /\ al = [entries |-> old, size |-> al.size, capacity |-> n]
  BY <1>9, LaidFacts DEF ArrayInv
<1>0. \A i \in 1..Len(s) : old[i - 1] = s[i]
  BY <1>9
<1>2. index < Len(s) /\ k \in 1..Len(s) /\ k - 1 = index /\ index \in 0..n - 1
  <2>1. index < al.size
    BY DEF L!array_list_set
  <2>2. al.size = Len(s) /\ Len(s) \in Nat /\ n \in Nat /\ Len(s) < n
    BY <1>1
  <2> QED
    BY ONLY <2>1, <2>2, index \in Nat
<1>3. al' = [al EXCEPT !.entries[index] = x] /\ arrayIs' = t
  BY DEF L!array_list_set
<1>4. t \in Seq(Data) /\ Len(t) = Len(s) /\ t[k] = x /\ \A i \in 1..Len(s) : i # k => t[i] = s[i]
  BY <1>1, <1>2
<1>5. new = [i \in 0..n - 1 |-> new[i]] /\ new[index] = x /\ \A i \in 0..n - 1 : i # index => new[i] = old[i]
  BY <1>1, <1>2
<1>6. al' = [entries |-> new, size |-> al.size, capacity |-> n]
  BY <1>1, <1>3
<1> HIDE DEF s, k, t, old, n, new
<1>7. ASSUME NEW i \in 1..Len(t) PROVE new[i - 1] = t[i]
  <2>1. i - 1 \in 0..n - 1 /\ (i = k <=> i - 1 = index) /\ i \in 1..Len(s)
    BY <1>1, <1>2, <1>4
  <2> QED
    BY <1>0, <1>4, <1>5, <2>1
<1>8. Laid([entries |-> new, size |-> al.size, capacity |-> n], t)
  <2>1. t \in Seq(Data) /\ n \in Nat /\ Len(t) < n /\ al.size = Len(t)
    BY <1>1, <1>4
  <2> QED
    BY ONLY <1>5, <1>7, <2>1, LaidIs
<1> QED
  BY ONLY <1>3, <1>6, <1>8 DEF ArrayInv

(* The three lists, in their part of the run and in the others.            *)
ListsInv ==
    /\ DequeInv /\ ArrayInv
    /\ fault # "tail" => LinkedInv
    /\ fault = "array" => al.entries = L!NoArray

LEMMA ListsStart == ASSUME L!Init PROVE ListsInv
<1>1. LinkedInv
  <2>1. llEntry = [c \in Cells |-> llEntry[c]]
    BY DEF L!Init
  <2>2. ll = [head |-> NULL, tail |-> NULL, size |-> 0]
    BY DEF L!Init
  <2>3. LinkedGood(llEntry, ll, <<>>, <<>>)
    BY ONLY <2>1, <2>2, LinkedStart
  <2>4. linkedIs = <<>>
    BY DEF L!Init
  <2> QED
    BY ONLY <2>3, <2>4 DEF LinkedInv
<1>2. fault = "none"
  BY DEF L!Init
<1> QED
  BY <1>1, <1>2, DequeStart, ArrayStart DEF ListsInv

LEMMA ListsStay == 
    ASSUME ListsInv, UNCHANGED listsVars
    PROVE  ListsInv'
BY DEF ListsInv, DequeInv, LinkedInv, ArrayInv, listsVars

LEMMA DequeListStep == ASSUME ListsInv, L!DequeStep PROVE ListsInv'
<1>1. UNCHANGED <<L!llVars, L!alVars, fault>>
  BY DEF L!DequeStep, L!deque_push, L!deque_pop
<1>2. DequeInv'
  BY DequePush, DequePop DEF ListsInv, L!DequeStep
<1>3. (fault # "tail" => LinkedInv)' /\ ArrayInv' /\ (fault = "array" => al.entries = L!NoArray)'
  BY <1>1 DEF ListsInv, LinkedInv, ArrayInv, L!llVars, L!alVars
<1> QED
  BY <1>2, <1>3 DEF ListsInv

LEMMA LinkedListStep == ASSUME ListsInv, L!LinkedStep PROVE ListsInv'
<1>1. UNCHANGED <<L!dqVars, L!alVars>> /\ fault = "none" /\ fault' # "array" /\ LinkedInv
  <2>1. fault = "none" /\ LinkedInv
    BY DEF L!LinkedStep, ListsInv
  <2> QED
    BY <2>1 DEF L!LinkedStep, L!linked_list_remove_all, L!linked_list_remove, L!linked_list_add,
       L!linked_list_remove_at, L!linked_list_insert_at, L!linked_list_set, L!InsertFirst, L!EntryDenied
<1>2. ASSUME L!InsertFirst \/ L!EntryDenied PROVE LinkedInv'
  BY <1>1, <1>2 DEF L!InsertFirst, L!EntryDenied, LinkedInv, L!llVars
<1>3. ASSUME fault' # "tail" PROVE LinkedInv'
  BY <1>1, <1>2, <1>3, LinkedRemoveAll, LinkedRemove, LinkedAdd, LinkedRemoveAt, LinkedInsertAt, LinkedSet
     DEF L!LinkedStep
<1>4. DequeInv' /\ ArrayInv'
  BY <1>1 DEF ListsInv, DequeInv, ArrayInv, L!dqVars, L!alVars
<1> QED
  BY <1>1, <1>3, <1>4 DEF ListsInv

LEMMA ArrayListStep == ASSUME ListsInv, L!ArrayStep PROVE ListsInv'
<1>1. UNCHANGED <<L!dqVars, L!llVars>> /\ fault = "none"
  BY DEF L!ArrayStep, L!array_list_remove_all, L!array_list_add, L!array_list_remove,
     L!array_list_remove_at, L!array_list_insert_at, L!array_list_set, L!GrowthFails, L!InsertNowhere
<1>2. (\A i \in 0..MaxLen - 1 : i \in Nat) /\ \A i \in 0..MaxLen : i \in Nat
  OBVIOUS
<1>3. al.size \in Nat /\ ArrayInv
  BY LaidFacts DEF ListsInv, ArrayInv
<1>4. CASE L!InsertNowhere
  <2>1. ArrayInv' /\ al'.entries = L!NoArray /\ fault' # "tail"
    BY <1>3, <1>4 DEF ArrayInv, L!InsertNowhere, L!alVars
  <2>2. DequeInv' /\ LinkedInv'
    BY <1>1 DEF ListsInv, DequeInv, LinkedInv, L!dqVars, L!llVars
  <2> QED
    BY <2>1, <2>2 DEF ListsInv
<1>5. CASE ~L!InsertNowhere
  <2>1. ArrayInv'
    BY <1>2, <1>3, <1>5, ArrayRemoveAll, ArrayRemove, ArrayInsert, ArrayRemoveAt, ArraySet, ArrayGone
       DEF L!ArrayStep, L!array_list_add, L!GrowthFails
  <2>2. fault' = fault
    BY <1>5 DEF L!ArrayStep, L!array_list_remove_all, L!array_list_add, L!array_list_remove,
       L!array_list_remove_at, L!array_list_insert_at, L!array_list_set, L!GrowthFails
  <2>3. DequeInv' /\ LinkedInv'
    BY <1>1 DEF ListsInv, DequeInv, LinkedInv, L!dqVars, L!llVars
  <2> QED
    BY <1>1, <2>1, <2>2, <2>3 DEF ListsInv
<1> QED
  BY <1>4, <1>5

LEMMA ListsStep == ASSUME ListsInv, LibraryNext PROVE ListsInv'
BY DequeListStep, LinkedListStep, ArrayListStep, ListsStay DEF LibraryNext, L!Next

LEMMA DequeAnswers == ASSUME ListsInv PROVE L!DequeKept
<1>1. PICK s : DequeGood(dqEntry, dq, s, dequeIs)
  BY DEF ListsInv, DequeInv
<1>3. dq.size = Len(dequeIs)
  BY <1>1 DEF DequeGood
<1>6. ASSUME NEW i \in 0..MaxLen, i < dq.size PROVE L!deque_get(i) = dequeIs[i + 1]
  <2>1. i \in Nat
    OBVIOUS
  <2> QED
    BY <1>6, <2>1, DequeGet DEF ListsInv
<1> QED
  BY <1>3, <1>6 DEF L!DequeKept

LEMMA LinkedAnswers == ASSUME LinkedInv PROVE L!LinkedKept
<1>2. PICK r : LinkedGood(llEntry, ll, r, linkedIs)
  BY DEF LinkedInv
<1>4. ll.size = Len(linkedIs) /\ ll.size = Len(r) /\ Len(r) \in Nat
  BY <1>2, LinkedFacts
<1>7. ASSUME NEW i \in 0..MaxLen, i < ll.size
      PROVE  llEntry[L!linked_list_get_entry(i)].data = linkedIs[i + 1]
  <2>1. i \in Nat /\ i + 1 \in 1..Len(r)
    BY <1>4, <1>7
  <2>2. L!linked_list_get_entry(i) = r[i + 1]
    BY <1>2, <1>7, <2>1, GetEntry
  <2> QED
    BY <1>2, <2>1, <2>2, LinkedFields
<1> QED
  BY <1>4, <1>7 DEF L!LinkedKept

LEMMA ArrayAnswers == ASSUME ArrayInv PROVE L!ArrayKept
<1>5. /\ al.size = Len(arrayIs) /\ Len(arrayIs) \in Nat /\ al.size < al.capacity
      /\ DOMAIN al.entries = 0..al.capacity - 1 \/ (al.entries = L!NoArray /\ arrayIs = <<>>)
      /\ \A i \in 1..Len(arrayIs) : al.entries[i - 1] = arrayIs[i]
  BY ArrayFacts
<1>6. L!InBounds
  BY <1>5, EmptySeq DEF L!InBounds
<1>8. ASSUME NEW i \in 0..MaxLen, i < al.size PROVE L!array_list_get_data(i) = arrayIs[i + 1]
  <2>1. i + 1 \in 1..Len(arrayIs) /\ (i + 1) - 1 = i
    BY <1>5, <1>8
  <2> QED
    BY <1>5, <1>8, <2>1 DEF L!array_list_get_data
<1> QED
  BY <1>5, <1>6, <1>8 DEF L!ArrayKept

LEMMA ListsAnswer == ASSUME ListsInv PROVE L!SequencesKept
BY DequeAnswers, LinkedAnswers, ArrayAnswers DEF ListsInv, L!SequencesKept

-----------------------------------------------------------------------------
(* The memory: the record of rt_mem, and its three users.                  *)
LEMMA BlocksCounted == \E n \in Nat : Blocks = 1..n
BY MemoryAssumption, FS_CardinalityType

(* The sizes of the nodes up to each slot, added up.                       *)
Added(node, f) == [n \in 0..NodesMax |-> IF n = 0 THEN 0 ELSE f[n - 1] + node[n - 1].size]
Sums(node) == CHOOSE f : f = Added(node, f)
Total(node) == Sums(node)[NodesMax]
Sized(node) == \A i \in M!Slots : node[i].size \in Nat

LEMMA TotalIs == M!RecordedSize = Total(record.node)
BY DEF M!RecordedSize, Total, Sums, Added

LEMMA SumsAre ==
    ASSUME NEW node
    PROVE  Sums(node) = Added(node, Sums(node))
<1> DEFINE Up(k, f) == [n \in 0..k |-> IF n = 0 THEN 0 ELSE f[n - 1] + node[n - 1].size]
           Off == {k \in 0..NodesMax : ~ \E f : f = Up(k, f)}
<1>1. Off = {}
  <2> SUFFICES ASSUME Off # {} PROVE FALSE
    OBVIOUS
  <2>1. Off \in SUBSET Nat
    BY MemoryAssumption
  <2> HIDE DEF Off
  <2>2. PICK k \in Off : \A j \in Off : k <= j
    BY <2>1, LeastPlace
  <2>3. k \in 0..NodesMax /\ k \in Nat /\ ~ \E f : f = Up(k, f)
    BY <2>1, <2>2 DEF Off
  <2>4. k # 0
    <3>1. [n \in 0..0 |-> 0] = Up(0, [n \in 0..0 |-> 0])
      OBVIOUS
    <3> QED
      BY <2>3, <3>1
  <2>5. k - 1 \in 0..NodesMax /\ ~(k <= k - 1)
    BY <2>3, <2>4, MemoryAssumption
  <2>6. k - 1 \notin Off
    BY <2>2, <2>5
  <2>7. PICK f : f = Up(k - 1, f)
    BY <2>5, <2>6 DEF Off
  <2> DEFINE g == [n \in 0..k |-> IF n = k THEN f[k - 1] + node[k - 1].size ELSE f[n]]
  <2>8. g = Up(k, g)
    <3> SUFFICES ASSUME NEW n \in 0..k
                 PROVE  g[n] = IF n = 0 THEN 0 ELSE g[n - 1] + node[n - 1].size
      OBVIOUS
    <3>1. CASE n = k
      <4>1. n - 1 \in 0..k /\ n - 1 # k /\ n # 0
        BY <2>3, <2>4, <3>1
      <4> QED
        BY <3>1, <4>1
    <3>2. CASE n # k
      <4>1. n \in 0..k - 1
        BY <2>3, <3>2
      <4>2. f[n] = IF n = 0 THEN 0 ELSE f[n - 1] + node[n - 1].size
        BY <2>7, <4>1
      <4>3. n # 0 => n - 1 \in 0..k /\ n - 1 # k
        BY <2>3, <4>1
      <4> QED
        BY <3>2, <4>2, <4>3
    <3> QED
      BY <3>1, <3>2
  <2> QED
    BY <2>3, <2>8
<1>2. NodesMax \in 0..NodesMax
  BY MemoryAssumption
<1>3. \E f : f = Up(NodesMax, f)
  BY <1>1, <1>2
<1>4. \E f : f = Added(node, f)
  BY <1>3 DEF Added
<1> QED
  BY <1>4 DEF Sums

(* A change of one node changes the total by as much.                      *)
LEMMA TotalChanges ==
    ASSUME NEW a, Sized(a), NEW b, Sized(b), NEW k \in M!Slots,
           \A i \in M!Slots : i # k => b[i].size = a[i].size
    PROVE  Total(b) = Total(a) + b[k].size - a[k].size /\ Total(a) \in Int
<1> DEFINE f == Sums(a)
           g == Sums(b)
           Good(n) == f[n] \in Int /\ g[n] = IF n <= k THEN f[n] ELSE f[n] + b[k].size - a[k].size
           Off == {n \in 0..NodesMax : ~ Good(n)}
<1>1. /\ \A n \in 0..NodesMax : f[n] = IF n = 0 THEN 0 ELSE f[n - 1] + a[n - 1].size
      /\ \A n \in 0..NodesMax : g[n] = IF n = 0 THEN 0 ELSE g[n - 1] + b[n - 1].size
  BY SumsAre DEF Added
<1>2. k \in Nat /\ k < NodesMax /\ NodesMax \in Nat /\ a[k].size \in Nat /\ b[k].size \in Nat
  BY MemoryAssumption DEF M!Slots, Sized
<1> HIDE DEF f, g
<1>3. Off = {}
  <2> SUFFICES ASSUME Off # {} PROVE FALSE
    OBVIOUS
  <2>1. Off \in SUBSET Nat
    BY <1>2
  <2> HIDE DEF Off
  <2>2. PICK n \in Off : \A j \in Off : n <= j
    BY <2>1, LeastPlace
  <2>3. n \in 0..NodesMax /\ n \in Nat /\ ~ Good(n)
    BY <2>1, <2>2 DEF Off
  <2>4. n # 0
    BY <1>1, <1>2, <2>3
  <2>5. n - 1 \in 0..NodesMax /\ ~(n <= n - 1) /\ n - 1 \in M!Slots
    BY <1>2, <2>3, <2>4 DEF M!Slots
  <2>6. Good(n - 1)
    BY <2>2, <2>5 DEF Off
  <2>7. f[n] = f[n - 1] + a[n - 1].size /\ g[n] = g[n - 1] + b[n - 1].size
    BY <1>1, <2>3, <2>4
  <2>8. a[n - 1].size \in Nat /\ b[n - 1].size \in Nat /\ (n - 1 # k => b[n - 1].size = a[n - 1].size)
    BY <2>5 DEF Sized
  <2>9. CASE n - 1 = k
    BY <1>2, <2>3, <2>6, <2>7, <2>8, <2>9
  <2>10. CASE n - 1 < k
    BY <1>2, <2>3, <2>6, <2>7, <2>8, <2>10
  <2>11. CASE n - 1 > k
    BY <1>2, <2>3, <2>6, <2>7, <2>8, <2>11
  <2> QED
    BY <1>2, <2>3, <2>9, <2>10, <2>11
<1>4. NodesMax \in 0..NodesMax /\ ~(NodesMax <= k)
  BY <1>2
<1>5. Good(NodesMax)
  BY <1>3, <1>4
<1> QED
  BY <1>4, <1>5 DEF f, g, Total

(* The record: no block has two nodes, the nodes name blocks of S only,    *)
(* and total_size is what they add up to.  NULL is named as often as a     *)
(* realloc() failed.                                                       *)
Named(node) == {i \in M!Slots : node[i].size > 0}
Noted(node, total, cnt, S) ==
    /\ node = [i \in M!Slots |-> node[i]] /\ Sized(node)
    /\ total = Total(node)
    /\ cnt \in Int /\ cnt >= Cardinality(Named(node))
    /\ \A i \in Named(node) : node[i].ptr \in S
    /\ \A i, j \in Named(node) : node[i].ptr = node[j].ptr => i = j \/ node[i].ptr = Nothing
IsHeap(h) == h = [live |-> h.live, node |-> h.node, cnt |-> h.cnt, total |-> h.total,
                  twice |-> h.twice, refused |-> h.refused]
HeapOf(h, S) == IsHeap(h) /\ Noted(h.node, h.total, h.cnt, S)
Nameable(h) == h.live \cup h.refused
HeapGood(h) == HeapOf(h, Nameable(h)) /\ h.live \subseteq Blocks /\ h.refused \subseteq {Nothing}

LEMMA SlotsFinite == ASSUME NEW node PROVE IsFiniteSet(Named(node)) /\ Cardinality(Named(node)) \in Nat
<1>1. IsFiniteSet(M!Slots)
  BY FS_Interval, MemoryAssumption DEF M!Slots
<1>2. Named(node) \subseteq M!Slots
  BY DEF Named
<1> QED
  BY <1>1, <1>2, FS_Subset, FS_CardinalityType

LEMMA LeastIn ==
    ASSUME NEW S \in SUBSET Nat, S # {}
    PROVE  M!Least(S) \in S /\ \A y \in S : M!Least(S) <= y
BY LeastPlace DEF M!Least

(* A slot takes a node of a block that has none.                           *)
LEMMA NoteAdded ==
    ASSUME NEW node, NEW total, NEW cnt, NEW S, Noted(node, total, cnt, S),
           NEW b \in S, b = Nothing \/ \A i \in Named(node) : node[i].ptr # b,
           NEW k \in M!Slots, node[k].size = 0, NEW size \in Nat,
           NEW new, new = [node EXCEPT ![k] = [ptr |-> b, size |-> size]]
    PROVE  Noted(new, total + size, cnt + 1, S)
<1> DEFINE N == Named(node)
           N2 == Named(new)
<1>1. /\ node = [i \in M!Slots |-> node[i]] /\ Sized(node) /\ total = Total(node)
      /\ cnt \in Int /\ cnt >= Cardinality(N) /\ \A i \in N : node[i].ptr \in S
  BY DEF Noted
<1>2. \A i, j \in N : node[i].ptr = node[j].ptr => i = j \/ node[i].ptr = Nothing
  BY DEF Noted
<1>3. /\ new = [i \in M!Slots |-> new[i]] /\ new[k].ptr = b /\ new[k].size = size
      /\ \A i \in M!Slots : i # k => new[i] = node[i]
  BY <1>1
<1>4. Sized(new)
  BY <1>1, <1>3 DEF Sized
<1>5. total + size = Total(new)
  <2>1. \A i \in M!Slots : i # k => new[i].size = node[i].size
    BY <1>3
  <2>2. Total(new) = Total(node) + new[k].size - node[k].size /\ Total(node) \in Int
    BY ONLY <1>1, <1>4, <2>1, k \in M!Slots, TotalChanges
  <2> QED
    BY <1>1, <1>3, <2>2
<1>6. N2 \subseteq N \cup {k} /\ k \notin N /\ (\A i \in N2 : i # k => i \in N /\ new[i].ptr = node[i].ptr)
  BY <1>3 DEF Named
<1>7. Cardinality(N2) <= Cardinality(N) + 1 /\ Cardinality(N) \in Nat /\ Cardinality(N2) \in Nat
  <2>1. IsFiniteSet(N) /\ Cardinality(N) \in Nat
    BY SlotsFinite
  <2>2. IsFiniteSet(N \cup {k}) /\ Cardinality(N \cup {k}) = Cardinality(N) + 1
    BY <1>6, <2>1, FS_AddElement
  <2>3. Cardinality(N2) <= Cardinality(N \cup {k})
    BY <1>6, <2>2, FS_Subset
  <2> QED
    BY <2>1, <2>2, <2>3, SlotsFinite
<1> HIDE DEF N, N2
<1>8. cnt + 1 \in Int /\ cnt + 1 >= Cardinality(N2)
  BY <1>1, <1>7
<1>9. \A i \in N2 : new[i].ptr \in S
  BY <1>1, <1>3, <1>6
<1>10. \A i, j \in N2 : new[i].ptr = new[j].ptr => i = j \/ new[i].ptr = Nothing
  BY <1>2, <1>3, <1>6 DEF N
<1> QED
  BY <1>3, <1>4, <1>5, <1>8, <1>9, <1>10 DEF Noted, N2

(* The node of a block goes, and no other node names it.                   *)
LEMMA NoteRemoved ==
    ASSUME NEW node, NEW total, NEW cnt, NEW S, Noted(node, total, cnt, S),
           NEW k \in Named(node), node[k].ptr # Nothing,
           NEW new, new = [node EXCEPT ![k] = [ptr |-> Nothing, size |-> 0]]
    PROVE  Noted(new, total - node[k].size, cnt - 1, S \ {node[k].ptr})
<1> DEFINE N == Named(node)
           N2 == Named(new)
<1>0. k \in M!Slots /\ k \in N
  BY DEF Named
<1>1. /\ node = [i \in M!Slots |-> node[i]] /\ Sized(node) /\ total = Total(node)
      /\ cnt \in Int /\ cnt >= Cardinality(N) /\ \A i \in N : node[i].ptr \in S
  BY DEF Noted
<1>2. \A i, j \in N : node[i].ptr = node[j].ptr => i = j \/ node[i].ptr = Nothing
  BY DEF Noted
<1>3. /\ new = [i \in M!Slots |-> new[i]] /\ new[k].size = 0
      /\ \A i \in M!Slots : i # k => new[i] = node[i]
  BY <1>0, <1>1
<1>4. Sized(new)
  BY <1>1, <1>3 DEF Sized
<1>5. total - node[k].size = Total(new)
  <2>1. \A i \in M!Slots : i # k => new[i].size = node[i].size
    BY <1>3
  <2>2. Total(new) = Total(node) + new[k].size - node[k].size /\ Total(node) \in Int
    BY ONLY <1>0, <1>1, <1>4, <2>1, TotalChanges
  <2>3. node[k].size \in Nat
    BY <1>0, <1>1 DEF Sized
  <2> QED
    BY <1>1, <1>3, <2>2, <2>3
<1>6. N2 = N \ {k} /\ (\A i \in N2 : i \in N /\ i # k /\ new[i].ptr = node[i].ptr)
  BY <1>0, <1>3 DEF Named
<1>7. Cardinality(N2) = Cardinality(N) - 1 /\ Cardinality(N) \in Nat
  <2>1. IsFiniteSet(N) /\ Cardinality(N) \in Nat
    BY SlotsFinite
  <2> QED
    BY <1>0, <1>6, <2>1, FS_RemoveElement
<1> HIDE DEF N, N2
<1>8. cnt - 1 \in Int /\ cnt - 1 >= Cardinality(N2)
  BY <1>1, <1>7
<1>9. \A i \in N2 : new[i].ptr \in S \ {node[k].ptr}
  BY <1>0, <1>1, <1>2, <1>6
<1>10. \A i, j \in N2 : new[i].ptr = new[j].ptr => i = j \/ new[i].ptr = Nothing
  BY <1>2, <1>6
<1> QED
  BY <1>3, <1>4, <1>5, <1>8, <1>9, <1>10 DEF Noted, N2

(* A full record keeps no node of a new block.                             *)
LEMMA AddNode ==
    ASSUME NEW h, NEW S, HeapOf(h, S), NEW b \in S,
           b = Nothing \/ \A i \in Named(h.node) : h.node[i].ptr # b,
           NEW size \in Nat
    PROVE  /\ HeapOf(M!addNode(h, b, size), S) /\ M!addNode(h, b, size).live = h.live
           /\ M!addNode(h, b, size).refused = h.refused
<1> DEFINE free == {i \in M!Slots : h.node[i].size = 0}
           k == M!Least(free)
           r == M!addNode(h, b, size)
           new == [h.node EXCEPT ![k] = [ptr |-> b, size |-> size]]
<1>1. CASE free = {}
  BY <1>1 DEF M!addNode
<1>2. CASE free # {}
  <2>1. k \in free
    <3>1. free \in SUBSET Nat
      BY DEF M!Slots
    <3> QED
      BY <1>2, <3>1, LeastIn
  <2>2. r = [h EXCEPT !.node[k] = [ptr |-> b, size |-> size], !.cnt = @ + 1, !.total = @ + size]
    BY <1>2 DEF M!addNode
  <2>3. IsHeap(h) /\ Noted(h.node, h.total, h.cnt, S)
    BY DEF HeapOf
  <2>4. r = [live |-> h.live, node |-> new, cnt |-> h.cnt + 1, total |-> h.total + size,
             twice |-> h.twice, refused |-> h.refused]
    BY <2>2, <2>3 DEF IsHeap
  <2>5. k \in M!Slots /\ h.node[k].size = 0
    BY <2>1
  <2>6. Noted(new, h.total + size, h.cnt + 1, S)
    BY <2>3, <2>5, NoteAdded
  <2> HIDE DEF new, r
  <2> QED
    BY <2>4, <2>6 DEF HeapOf, IsHeap, r
<1> QED
  BY <1>1, <1>2

LEMMA RemoveNode ==
    ASSUME NEW h, NEW S, HeapOf(h, S), NEW b, b # Nothing
    PROVE  /\ HeapOf(M!removeNode(h, b), S \ {b}) /\ M!removeNode(h, b).live = h.live
           /\ M!removeNode(h, b).refused = h.refused
<1> DEFINE hit == {i \in M!Slots : h.node[i].size > 0 /\ h.node[i].ptr = b}
           k == M!Least(hit)
           r == M!removeNode(h, b)
           new == [h.node EXCEPT ![k] = [ptr |-> Nothing, size |-> 0]]
<1>0. IsHeap(h) /\ Noted(h.node, h.total, h.cnt, S)
  BY DEF HeapOf
<1>1. CASE hit = {}
  <2>1. r = h
    BY <1>1 DEF M!removeNode
  <2>2. \A i \in Named(h.node) : h.node[i].ptr \in S \ {b}
    BY <1>0, <1>1 DEF Noted, Named
  <2>3. Noted(h.node, h.total, h.cnt, S \ {b})
    BY <1>0, <2>2 DEF Noted
  <2> QED
    BY <1>0, <2>1, <2>3 DEF HeapOf
<1>2. CASE hit # {}
  <2>1. k \in hit
    <3>1. hit \in SUBSET Nat
      BY DEF M!Slots
    <3> QED
      BY <1>2, <3>1, LeastIn
  <2>2. r = [h EXCEPT !.node[k] = [ptr |-> Nothing, size |-> 0], !.cnt = @ - 1,
                      !.total = @ - h.node[k].size]
    BY <1>2 DEF M!removeNode
  <2>3. k \in Named(h.node) /\ h.node[k].ptr = b
    BY <2>1 DEF Named
  <2>4. r = [live |-> h.live, node |-> new, cnt |-> h.cnt - 1, total |-> h.total - h.node[k].size,
             twice |-> h.twice, refused |-> h.refused]
    BY <1>0, <2>2 DEF IsHeap
  <2>5. Noted(new, h.total - h.node[k].size, h.cnt - 1, S \ {b})
    BY <1>0, <2>3, NoteRemoved
  <2> HIDE DEF new, r
  <2> QED
    BY <2>4, <2>5 DEF HeapOf, IsHeap, r
<1> QED
  BY <1>1, <1>2

LEMMA WiderHeap ==
    ASSUME NEW h, NEW S, HeapOf(h, S), NEW T, S \subseteq T
    PROVE  HeapOf(h, T)
<1>1. IsHeap(h) /\ Noted(h.node, h.total, h.cnt, S)
  BY DEF HeapOf
<1>2. Noted(h.node, h.total, h.cnt, T)
  BY <1>1 DEF Noted
<1> QED
  BY <1>1, <1>2 DEF HeapOf

LEMMA LiveHeap ==
    ASSUME NEW h, NEW S, HeapOf(h, S), NEW L2, NEW g, g = [h EXCEPT !.live = L2]
    PROVE  HeapOf(g, S) /\ g.live = L2 /\ g.refused = h.refused /\ g.node = h.node
<1>1. IsHeap(h) /\ Noted(h.node, h.total, h.cnt, S)
  BY DEF HeapOf
<1>2. g = [live |-> L2, node |-> h.node, cnt |-> h.cnt, total |-> h.total, twice |-> h.twice,
           refused |-> h.refused]
  BY <1>1 DEF IsHeap
<1> QED
  BY ONLY <1>1, <1>2 DEF HeapOf, IsHeap

LEMMA FreedHeap ==
    ASSUME NEW h, NEW S, HeapOf(h, S), NEW g, g = [h EXCEPT !.twice = g.twice]
    PROVE  HeapOf(g, S) /\ g.live = h.live /\ g.refused = h.refused
<1>1. IsHeap(h) /\ Noted(h.node, h.total, h.cnt, S)
  BY DEF HeapOf
<1>2. g = [live |-> h.live, node |-> h.node, cnt |-> h.cnt, total |-> h.total, twice |-> g.twice,
           refused |-> h.refused]
  BY <1>1 DEF IsHeap
<1> QED
  BY ONLY <1>1, <1>2 DEF HeapOf, IsHeap

LEMMA BlocksAre == Blocks \subseteq Nat /\ Nothing \notin Blocks
BY BlocksCounted, MemoryAssumption

LEMMA BlockIs ==
    ASSUME NEW h, h.live \subseteq Blocks
    PROVE  /\ h.live # Blocks => M!Block(h) \in Blocks \ h.live /\ M!Block(h) # Nothing
           /\ h.live = Blocks => M!Block(h) = Nothing
           /\ M!Block(h) = Nothing <=> h.live = Blocks
<1>1. CASE h.live # Blocks
  <2>1. Blocks \ h.live \in SUBSET Nat /\ Blocks \ h.live # {}
    BY <1>1, BlocksAre
  <2>2. M!Least(Blocks \ h.live) \in Blocks \ h.live
    BY <2>1, LeastIn
  <2> QED
    BY <1>1, <2>2, BlocksAre DEF M!Block
<1>2. CASE h.live = Blocks
  BY <1>2 DEF M!Block
<1> QED
  BY <1>1, <1>2

LEMMA GoodHeap ==
    ASSUME NEW h, HeapGood(h)
    PROVE  /\ HeapOf(h, Nameable(h)) /\ h.live \subseteq Blocks /\ h.refused \subseteq {Nothing}
           /\ Nothing \notin h.live /\ \A b \in Blocks : b # Nothing
BY BlocksAre DEF HeapGood

LEMMA MallocKeeps ==
    ASSUME NEW h, HeapGood(h), M!Block(h) # Nothing, NEW size \in Nat
    PROVE  /\ HeapGood(M!rt_mem_malloc(h, size))
           /\ M!rt_mem_malloc(h, size).live = h.live \cup {M!Block(h)}
           /\ M!Block(h) \in Blocks \ h.live
<1> DEFINE b == M!Block(h)
           live == h.live \cup {b}
           g == [h EXCEPT !.live = @ \cup {b}]
           T == Nameable(h) \cup {b}
           r == M!addNode(g, b, size)
<1>1. /\ HeapOf(h, Nameable(h)) /\ h.live \subseteq Blocks /\ h.refused \subseteq {Nothing}
      /\ \A x \in Blocks : x # Nothing
  BY GoodHeap
<1>2. b \in Blocks \ h.live
  BY <1>1, BlockIs
<1>3. g = [h EXCEPT !.live = live]
  OBVIOUS
<1>8. M!rt_mem_malloc(h, size) = r
  BY DEF M!rt_mem_malloc
<1> HIDE DEF b, g, live, r
<1>4. HeapOf(h, T)
  BY <1>1, WiderHeap
<1>5. HeapOf(g, T) /\ g.live = live /\ g.refused = h.refused /\ g.node = h.node
  BY <1>3, <1>4, LiveHeap
<1>6. \A i \in Named(g.node) : g.node[i].ptr # b
  <2>1. b \notin Nameable(h)
    BY <1>1, <1>2 DEF Nameable
  <2> QED
    BY <1>1, <1>5, <2>1 DEF HeapOf, Noted
<1>7. HeapOf(r, T) /\ r.live = live /\ r.refused = h.refused
  BY <1>5, <1>6, AddNode DEF r
<1>9. T = Nameable(r)
  BY <1>7 DEF Nameable, live
<1> HIDE DEF T
<1> QED
  BY <1>1, <1>2, <1>7, <1>8, <1>9 DEF HeapGood, live, b

LEMMA FreeKeeps ==
    ASSUME NEW h, HeapGood(h), NEW b \in Blocks \cup {Nothing}
    PROVE  HeapGood(M!rt_mem_free(h, b)) /\ M!rt_mem_free(h, b).live = h.live \ {b}
<1>1. /\ HeapOf(h, Nameable(h)) /\ h.live \subseteq Blocks /\ h.refused \subseteq {Nothing}
      /\ Nothing \notin h.live
  BY GoodHeap
<1>2. CASE b = Nothing
  BY <1>1, <1>2 DEF M!rt_mem_free
<1>3. CASE b # Nothing
  <2> DEFINE live == h.live \ {b}
             twice == h.twice \cup ({b} \ h.live)
             a == [h EXCEPT !.live = live]
             g == [h EXCEPT !.live = live, !.twice = twice]
             r == M!removeNode(g, b)
  <2>1. M!rt_mem_free(h, b) = r
    BY <1>3 DEF M!rt_mem_free
  <2>2. g = [a EXCEPT !.twice = twice] /\ a = [h EXCEPT !.live = live]
    OBVIOUS
  <2> HIDE DEF a, g, live, twice
  <2>3. HeapOf(a, Nameable(h)) /\ a.live = live /\ a.refused = h.refused
    BY <1>1, <2>2, LiveHeap
  <2>4. g = [a EXCEPT !.twice = g.twice]
    <3>1. a = [live |-> a.live, node |-> a.node, cnt |-> a.cnt, total |-> a.total, twice |-> a.twice,
               refused |-> a.refused]
      BY <2>3 DEF HeapOf, IsHeap
    <3>2. g.twice = twice
      BY <2>2, <3>1
    <3> QED
      BY <2>2, <3>2
  <2>5. HeapOf(g, Nameable(h)) /\ g.live = live /\ g.refused = h.refused
    BY <2>3, <2>4, FreedHeap
  <2> USE DEF live
  <2>6. HeapOf(r, Nameable(h) \ {b}) /\ r.live = live /\ r.refused = h.refused
    BY <1>3, <2>5, RemoveNode
  <2> HIDE DEF r
  <2>7. Nameable(h) \ {b} = Nameable(r)
    BY <1>1, <1>3, <2>6 DEF Nameable
  <2> QED
    BY <1>1, <2>1, <2>6, <2>7 DEF HeapGood
<1> QED
  BY <1>2, <1>3

LEMMA ReallocKeeps ==
    ASSUME NEW h, HeapGood(h), NEW b \in h.live, NEW to \in Blocks \cup {Nothing},
           to \notin h.live \ {b}, NEW size \in Nat
    PROVE  HeapGood(M!rt_mem_realloc(h, b, to, size))
<1>0. /\ HeapOf(h, Nameable(h)) /\ h.live \subseteq Blocks /\ h.refused \subseteq {Nothing}
      /\ b # Nothing /\ \A x \in Blocks : x # Nothing
  BY GoodHeap
<1>1. CASE size = 0
  BY <1>1 DEF M!rt_mem_realloc
<1>2. CASE size # 0 /\ to # Nothing
  <2> DEFINE live == (h.live \ {b}) \cup {to}
             g == [h EXCEPT !.live = live]
             r == M!removeNode(g, b)
             T == (Nameable(h) \ {b}) \cup {to}
             a == M!addNode(r, to, size)
  <2>1. M!rt_mem_realloc(h, b, to, size) = a
    BY <1>2 DEF M!rt_mem_realloc
  <2>2. g = [h EXCEPT !.live = live]
    OBVIOUS
  <2> HIDE DEF g, a, live
  <2>3. HeapOf(g, Nameable(h)) /\ g.live = live /\ g.refused = h.refused
    BY <1>0, <2>2, LiveHeap
  <2> USE DEF live
  <2>4. HeapOf(r, Nameable(h) \ {b}) /\ r.live = live /\ r.refused = h.refused
    BY <1>0, <2>3, RemoveNode
  <2> HIDE DEF r
  <2>5. HeapOf(r, T)
    BY <2>4, WiderHeap
  <2>6. \A i \in Named(r.node) : r.node[i].ptr # to
    <3>1. to \notin Nameable(h) \ {b}
      BY <1>0, <1>2 DEF Nameable
    <3> QED
      BY <2>4, <3>1 DEF HeapOf, Noted
  <2>7. HeapOf(a, T) /\ a.live = live /\ a.refused = h.refused
    BY <2>4, <2>5, <2>6, AddNode DEF a
  <2>8. T = Nameable(a) /\ live \subseteq Blocks
    BY <1>0, <1>2, <2>7 DEF Nameable
  <2> HIDE DEF live, T
  <2> QED
    BY <1>0, <2>1, <2>7, <2>8 DEF HeapGood
<1>3. CASE size # 0 /\ to = Nothing
  <2> DEFINE g == [h EXCEPT !.refused = {Nothing}]
             T == h.live \cup {Nothing}
             r == M!removeNode(g, b)
             a == M!addNode(r, to, size)
  <2>1. M!rt_mem_realloc(h, b, to, size) = a
    BY <1>3 DEF M!rt_mem_realloc
  <2>2. HeapOf(g, T) /\ g.live = h.live /\ g.refused = {Nothing}
    <3>1. IsHeap(h) /\ Noted(h.node, h.total, h.cnt, Nameable(h))
      BY <1>0 DEF HeapOf
    <3>2. g = [live |-> h.live, node |-> h.node, cnt |-> h.cnt, total |-> h.total,
               twice |-> h.twice, refused |-> {Nothing}]
      BY <3>1 DEF IsHeap
    <3> HIDE DEF g
    <3>3. Nameable(h) \subseteq T
      BY <1>0 DEF Nameable
    <3>4. Noted(h.node, h.total, h.cnt, T)
      BY <3>1, <3>3 DEF Noted
    <3> QED
      BY <3>2, <3>4 DEF HeapOf, IsHeap
  <2> HIDE DEF g, a
  <2>3. HeapOf(r, T \ {b}) /\ r.live = h.live /\ r.refused = {Nothing}
    BY <1>0, <2>2, RemoveNode
  <2> HIDE DEF r
  <2>4. HeapOf(r, T)
    BY <2>3, WiderHeap
  <2>5. to \in T /\ to = Nothing
    BY <1>3
  <2>6. HeapOf(a, T) /\ a.live = h.live /\ a.refused = {Nothing}
    BY <2>3, <2>4, <2>5, AddNode DEF a
  <2>7. T = Nameable(a)
    BY <2>6 DEF Nameable
  <2> HIDE DEF T
  <2> QED
    BY <1>0, <2>1, <2>6, <2>7 DEF HeapGood
<1> QED
  BY <1>1, <1>2, <1>3

(* The blocks of a set go one by one; one that is not live stays gone.     *)
Freeing(h, bs, f, n) == IF n = 0 THEN h ELSE IF n \in bs THEN M!rt_mem_free(f[n - 1], n) ELSE f[n - 1]
FreeTo(h, bs, k, f) == [n \in 0..k |-> Freeing(h, bs, f, n)]

LEMMA FreeingAre ==
    ASSUME NEW h, NEW bs, NEW N \in Nat
    PROVE  \E f : f = FreeTo(h, bs, N, f)
<1> DEFINE Off == {k \in 0..N : ~ \E f : f = FreeTo(h, bs, k, f)}
<1>1. Off = {}
  <2> SUFFICES ASSUME Off # {} PROVE FALSE
    OBVIOUS
  <2>1. Off \in SUBSET Nat
    OBVIOUS
  <2> HIDE DEF Off
  <2>2. PICK k \in Off : \A j \in Off : k <= j
    BY <2>1, LeastPlace
  <2>3. k \in 0..N /\ k \in Nat /\ ~ \E f : f = FreeTo(h, bs, k, f)
    BY <2>1, <2>2 DEF Off
  <2>4. k # 0
    <3>1. [n \in 0..0 |-> h] = FreeTo(h, bs, 0, [n \in 0..0 |-> h])
      BY DEF FreeTo, Freeing
    <3> QED
      BY <2>3, <3>1
  <2>5. k - 1 \in 0..N /\ ~(k <= k - 1)
    BY <2>3, <2>4
  <2>6. k - 1 \notin Off
    BY <2>2, <2>5
  <2>7. PICK f : f = FreeTo(h, bs, k - 1, f)
    BY <2>5, <2>6 DEF Off
  <2> DEFINE g == [n \in 0..k |-> IF n = k THEN Freeing(h, bs, f, k) ELSE f[n]]
  <2>8. ASSUME NEW n \in 0..k PROVE g[n] = Freeing(h, bs, g, n)
    <3>1. CASE n = k
      <4>1. n - 1 \in 0..k /\ n - 1 # k /\ n # 0
        BY <2>3, <2>4, <3>1
      <4>2. g[n - 1] = f[n - 1] /\ g[n] = Freeing(h, bs, f, n)
        BY <3>1, <4>1
      <4> HIDE DEF g
      <4> QED
        BY <4>2 DEF Freeing
    <3>2. CASE n # k
      <4>1. n \in 0..k - 1
        BY <2>3, <3>2
      <4>2. f[n] = Freeing(h, bs, f, n)
        BY <2>7, <4>1 DEF FreeTo
      <4>3. n # 0 => n - 1 \in 0..k /\ n - 1 # k
        BY <2>3, <4>1
      <4>4. g[n] = f[n] /\ (n # 0 => g[n - 1] = f[n - 1])
        BY <3>2, <4>3
      <4> HIDE DEF g
      <4> QED
        BY <4>2, <4>4 DEF Freeing
    <3> QED
      BY <3>1, <3>2
  <2>9. g = [n \in 0..k |-> g[n]]
    OBVIOUS
  <2> HIDE DEF g
  <2>10. g = FreeTo(h, bs, k, g)
    BY <2>8, <2>9 DEF FreeTo
  <2> QED
    BY <2>3, <2>10
<1>2. N \in 0..N
  OBVIOUS
<1> QED
  BY <1>1, <1>2

LEMMA FreeAllKeeps ==
    ASSUME NEW h, HeapGood(h), NEW bs
    PROVE  HeapGood(M!FreeAll(h, bs)) /\ M!FreeAll(h, bs).live = h.live \ bs
<1>1. PICK N \in Nat : Blocks = 1..N
  BY BlocksCounted
<1>2. Cardinality(Blocks) = N
  BY <1>1, FS_Interval
<1> DEFINE f == CHOOSE g : g = FreeTo(h, bs, Cardinality(Blocks), g)
           Good(n) == HeapGood(f[n]) /\ f[n].live = h.live \ (bs \cap 1..n)
           Off == {n \in 0..N : ~ Good(n)}
<1>9. M!FreeAll(h, bs) = f[Cardinality(Blocks)]
  BY DEF M!FreeAll, FreeTo, Freeing, M!Cardinality, Cardinality
<1>10. f = FreeTo(h, bs, Cardinality(Blocks), f)
  BY <1>2, FreeingAre
<1> HIDE DEF f
<1>3. f = FreeTo(h, bs, N, f)
  BY <1>2, <1>10
<1>4. M!FreeAll(h, bs) = f[N]
  BY <1>2, <1>9
<1>5. \A n \in 0..N : f[n] = Freeing(h, bs, f, n)
  BY <1>3 DEF FreeTo
<1>6. Off = {}
  <2> SUFFICES ASSUME Off # {} PROVE FALSE
    OBVIOUS
  <2>1. Off \in SUBSET Nat
    OBVIOUS
  <2> HIDE DEF Off
  <2>2. PICK n \in Off : \A j \in Off : n <= j
    BY <2>1, LeastPlace
  <2>3. n \in 0..N /\ n \in Nat /\ ~ Good(n)
    BY <2>1, <2>2 DEF Off
  <2>4. n # 0
    <3> SUFFICES ASSUME n = 0 PROVE FALSE
      OBVIOUS
    <3>1. f[n] = h
      BY <1>5, <2>3 DEF Freeing
    <3>2. 1..n = {}
      OBVIOUS
    <3> QED
      BY <2>3, <3>1, <3>2
  <2>5. n - 1 \in 0..N /\ ~(n <= n - 1) /\ n \in Blocks /\ 1..n = (1..n - 1) \cup {n}
    BY <1>1, <2>3, <2>4
  <2>6. Good(n - 1)
    BY <2>2, <2>5 DEF Off
  <2>7. CASE n \in bs
    <3>1. f[n] = M!rt_mem_free(f[n - 1], n)
      BY <1>5, <2>3, <2>4, <2>7 DEF Freeing
    <3>2. HeapGood(f[n]) /\ f[n].live = f[n - 1].live \ {n}
      BY <2>5, <2>6, <3>1, FreeKeeps
    <3>3. (h.live \ (bs \cap 1..n - 1)) \ {n} = h.live \ (bs \cap 1..n)
      BY <2>5, <2>7
    <3> QED
      BY <2>3, <2>6, <3>2, <3>3
  <2>8. CASE n \notin bs
    <3>1. f[n] = f[n - 1]
      BY <1>5, <2>3, <2>4, <2>8 DEF Freeing
    <3>2. bs \cap 1..n = bs \cap 1..n - 1
      BY <2>5, <2>8
    <3> QED
      BY <2>3, <2>6, <3>1, <3>2
  <2> QED
    BY <2>7, <2>8
<1>7. Good(N)
  <2>1. N \in 0..N
    OBVIOUS
  <2> QED
    BY <1>6, <2>1
<1>8. h.live \ (bs \cap 1..N) = h.live \ bs
  BY <1>1 DEF HeapGood
<1> QED
  BY <1>4, <1>7, <1>8

(* What the heap holds in the beginning, and what a change of it leaves.   *)
LEMMA HeapStart == ASSUME M!Init PROVE HeapGood(record) /\ record.live = {}
<1> DEFINE node == [i \in M!Slots |-> [ptr |-> Nothing, size |-> 0]]
           f == Sums(node)
<1>1. record = [live |-> {}, node |-> node, cnt |-> 0, total |-> 0, twice |-> {}, refused |-> {}]
  BY DEF M!Init
<1>2. node = [i \in M!Slots |-> node[i]] /\ \A i \in M!Slots : node[i].size = 0
  OBVIOUS
<1> HIDE DEF node
<1>3. Named(node) = {} /\ Sized(node)
  BY <1>2 DEF Named, Sized
<1>4. Total(node) = 0
  <2> DEFINE Off == {n \in 0..NodesMax : f[n] # 0}
  <2>0. \A n \in 0..NodesMax : f[n] = IF n = 0 THEN 0 ELSE f[n - 1] + node[n - 1].size
    BY SumsAre DEF Added
  <2> HIDE DEF f
  <2>1. Off = {}
    <3> SUFFICES ASSUME Off # {} PROVE FALSE
      OBVIOUS
    <3>1. Off \in SUBSET Nat
      BY MemoryAssumption
    <3> HIDE DEF Off
    <3>2. PICK n \in Off : \A j \in Off : n <= j
      BY <3>1, LeastPlace
    <3>3. n \in 0..NodesMax /\ n \in Nat /\ f[n] # 0 /\ n # 0
      BY <2>0, <3>1, <3>2 DEF Off
    <3>4. n - 1 \in 0..NodesMax /\ ~(n <= n - 1) /\ n - 1 \in M!Slots
      BY <3>3, MemoryAssumption DEF M!Slots
    <3>5. f[n - 1] = 0
      BY <3>2, <3>4 DEF Off
    <3> QED
      BY <1>2, <2>0, <3>3, <3>4, <3>5
  <2>2. NodesMax \in 0..NodesMax
    BY MemoryAssumption
  <2> QED
    BY <2>1, <2>2 DEF Total, f
<1>5. Cardinality({}) = 0
  BY FS_EmptySet
<1>6. Noted(node, 0, 0, {})
  <2>1. 0 \in Int /\ 0 >= Cardinality(Named(node))
    BY <1>3, <1>5
  <2>2. \A i \in Named(node) : node[i].ptr \in {} /\ \A j \in Named(node) : i = j
    BY <1>3
  <2> QED
    BY <1>2, <1>3, <1>4, <2>1, <2>2 DEF Noted
<1>7. /\ IsHeap(record) /\ record.live = {} /\ record.node = node /\ record.total = 0 /\ record.cnt = 0
      /\ record.refused = {} /\ Nameable(record) = {}
  BY <1>1 DEF IsHeap, Nameable
<1> QED
  BY <1>6, <1>7 DEF HeapGood, HeapOf

(* A hash table of entries of S: each is in the bucket of its key, and no  *)
(* two of them have the same node.                                         *)
BucketIds == 0..Buckets - 1
InPlace(t) == \A b \in BucketIds : \A i \in 1..Len(t[b]) : t[b][i].key \in Keys /\ M!Bucket(t[b][i].key) = b
NodesApart(t) == \A b, c \in BucketIds : \A i \in 1..Len(t[b]), j \in 1..Len(t[c]) :
                     t[b][i].node = t[c][j].node => b = c /\ i = j
TableOf(t, S) == t \in [BucketIds -> Seq(S)] /\ InPlace(t) /\ NodesApart(t)
EntriesOf(t) == UNION {{t[b][i] : i \in 1..Len(t[b])} : b \in BucketIds}

LEMMA EntryAt == \A t, e : e \in EntriesOf(t) <=> \E b \in BucketIds : \E i \in 1..Len(t[b]) : e = t[b][i]
BY DEF EntriesOf

LEMMA BucketOf == ASSUME NEW k \in Keys PROVE M!Bucket(k) \in BucketIds
<1>1. k \in Nat /\ Buckets \in Nat /\ Buckets > 0
  BY MemoryAssumption
<1>2. k % Buckets \in 0..Buckets - 1
  BY ONLY <1>1
<1> QED
  BY <1>2 DEF M!Bucket, BucketIds

LEMMA EntriesAre ==
    ASSUME NEW S, TableOf(table, S)
    PROVE  M!Entries = EntriesOf(table)
<1>1. \A b \in BucketIds : DOMAIN table[b] = 1..Len(table[b])
  BY DEF TableOf
<1>2. ASSUME NEW e \in M!Entries PROVE e \in EntriesOf(table)
  <2>1. PICK k \in Keys : \E i \in DOMAIN M!Chain(k) : e = M!Chain(k)[i]
    BY <1>2 DEF M!Entries
  <2>2. M!Bucket(k) \in BucketIds
    BY BucketOf
  <2> QED
    BY <1>1, <2>1, <2>2, EntryAt DEF M!Chain
<1>3. ASSUME NEW e \in EntriesOf(table) PROVE e \in M!Entries
  <2>1. PICK b \in BucketIds : \E i \in 1..Len(table[b]) : e = table[b][i]
    BY <1>3, EntryAt
  <2>2. PICK i \in 1..Len(table[b]) : e = table[b][i]
    BY <2>1
  <2>3. e.key \in Keys /\ M!Bucket(e.key) = b
    BY <2>2 DEF TableOf, InPlace
  <2>4. M!Chain(e.key) = table[b]
    BY <2>3 DEF M!Chain
  <2> QED
    BY <1>1, <2>2, <2>3, <2>4 DEF M!Entries
<1> QED
  BY <1>2, <1>3

LEMMA EntryNodes ==
    ASSUME NEW S, NEW t, TableOf(t, S), NEW e \in EntriesOf(t), NEW f \in EntriesOf(t)
    PROVE  e \in S /\ e.key \in Keys /\ (e.node = f.node => e = f)
<1>1. PICK b \in BucketIds, i \in Nat : i \in 1..Len(t[b]) /\ e = t[b][i]
  BY EntryAt
<1>2. PICK c \in BucketIds, j \in Nat : j \in 1..Len(t[c]) /\ f = t[c][j]
  BY EntryAt
<1>3. t[b] \in Seq(S)
  BY DEF TableOf
<1>4. e \in S
  BY <1>1, <1>3
<1>5. e.key \in Keys
  BY <1>1 DEF TableOf, InPlace
<1>6. e.node = f.node => b = c /\ i = j
  BY <1>1, <1>2 DEF TableOf, NodesApart
<1> QED
  BY <1>1, <1>2, <1>4, <1>5, <1>6

(* A new entry is the first of its chain.                                  *)
WithFirst(t, x) == [t EXCEPT ![M!Bucket(x.key)] = <<x>> \o @]

LEMMA TablePut ==
    ASSUME NEW S, NEW t, TableOf(t, S), NEW x \in S, x.key \in Keys,
           \A e \in EntriesOf(t) : e.node # x.node,
           NEW u, u = WithFirst(t, x)
    PROVE  TableOf(u, S) /\ EntriesOf(u) = EntriesOf(t) \cup {x}
<1> DEFINE b == M!Bucket(x.key)
<1>1. b \in BucketIds
  BY BucketOf
<1>2. t \in [BucketIds -> Seq(S)] /\ t[b] \in Seq(S) /\ Len(t[b]) \in Nat
  BY <1>1 DEF TableOf
<1>3. <<x>> \o t[b] \in Seq(S) /\ PutIn(t[b], <<x>> \o t[b], 0, x)
  BY <1>2, FrontIn
<1>4. u = [t EXCEPT ![b] = <<x>> \o t[b]]
  BY <1>1, <1>2 DEF WithFirst
<1> HIDE DEF b
<1>5. u \in [BucketIds -> Seq(S)] /\ u[b] = <<x>> \o t[b] /\ \A c \in BucketIds : c # b => u[c] = t[c]
  BY ONLY <1>1, <1>2, <1>3, <1>4
<1>6. /\ Len(u[b]) = Len(t[b]) + 1 /\ u[b][1] = x
      /\ \A i \in 1..Len(t[b]) : u[b][i + 1] = t[b][i]
  <2>1. Len(u[b]) = Len(t[b]) + 1 /\ \A i \in 1..Len(t[b]) + 1 :
            u[b][i] = IF i <= 0 THEN t[b][i] ELSE IF i = 0 + 1 THEN x ELSE t[b][i - 1]
    BY <1>3, <1>5 DEF PutIn
  <2>2. 1 \in 1..Len(t[b]) + 1 /\ ~(1 <= 0) /\ 1 = 0 + 1
    BY <1>2
  <2>3. ASSUME NEW i \in 1..Len(t[b])
        PROVE  i + 1 \in 1..Len(t[b]) + 1 /\ ~(i + 1 <= 0) /\ i + 1 # 0 + 1 /\ (i + 1) - 1 = i
    BY <1>2
  <2> QED
    BY <2>1, <2>2, <2>3
<1>7. ASSUME NEW i \in 1..Len(u[b]), i # 1
      PROVE  i - 1 \in 1..Len(t[b]) /\ u[b][i] = t[b][i - 1]
  <2>1. i - 1 \in 1..Len(t[b]) /\ (i - 1) + 1 = i
    BY <1>2, <1>6, <1>7
  <2>2. u[b][(i - 1) + 1] = t[b][i - 1]
    BY <1>6, <2>1
  <2> QED
    BY <2>1, <2>2
<1>8. InPlace(u)
  <2> SUFFICES ASSUME NEW c \in BucketIds, NEW i \in 1..Len(u[c])
               PROVE  u[c][i].key \in Keys /\ M!Bucket(u[c][i].key) = c
    BY DEF InPlace
  <2>1. InPlace(t)
    BY DEF TableOf
  <2>2. CASE c # b
    BY <1>5, <2>1, <2>2 DEF InPlace
  <2>3. CASE c = b /\ i = 1
    BY <1>6, <2>3 DEF b
  <2>4. CASE c = b /\ i # 1
    BY <1>1, <1>7, <2>1, <2>4 DEF InPlace
  <2> QED
    BY <2>2, <2>3, <2>4
<1>9. \A c \in BucketIds : \A i \in 1..Len(t[c]) : t[c][i].node # x.node
  BY EntryAt
<1>10. NodesApart(u)
  <2> SUFFICES ASSUME NEW c \in BucketIds, NEW d \in BucketIds, NEW i \in 1..Len(u[c]), NEW j \in 1..Len(u[d]),
                      u[c][i].node = u[d][j].node
               PROVE  c = d /\ i = j
    BY DEF NodesApart
  <2> DEFINE In(e, k) == IF e = b THEN k - 1 ELSE k
  <2>1. \A e \in BucketIds : \A k \in 1..Len(u[e]) :
            (e = b /\ k = 1 /\ u[e][k] = x) \/ (In(e, k) \in 1..Len(t[e]) /\ u[e][k] = t[e][In(e, k)])
    BY <1>5, <1>6, <1>7
  <2>2. i \in Int /\ j \in Int
    OBVIOUS
  <2>3. NodesApart(t)
    BY DEF TableOf
  <2>4. (c = b /\ i = 1 /\ u[c][i] = x) \/ (In(c, i) \in 1..Len(t[c]) /\ u[c][i] = t[c][In(c, i)])
    BY <2>1
  <2>5. (d = b /\ j = 1 /\ u[d][j] = x) \/ (In(d, j) \in 1..Len(t[d]) /\ u[d][j] = t[d][In(d, j)])
    BY <2>1
  <2>6. In(c, i) \in 1..Len(t[c]) /\ u[c][i] = t[c][In(c, i)] /\ In(d, j) \in 1..Len(t[d]) /\ u[d][j] = t[d][In(d, j)]
        => c = d /\ In(c, i) = In(d, j)
    BY <2>3 DEF NodesApart
  <2>7. c = d /\ In(c, i) = In(d, j) => i = j
    BY <2>2
  <2> HIDE DEF In
  <2> QED
    BY <1>9, <2>4, <2>5, <2>6, <2>7
<1>11. ASSUME NEW e \in EntriesOf(u) PROVE e \in EntriesOf(t) \cup {x}
  <2>0. \E c \in BucketIds : \E i \in 1..Len(u[c]) : e = u[c][i]
    BY ONLY <1>11, EntryAt
  <2>1. PICK c \in BucketIds, i \in Nat : i \in 1..Len(u[c]) /\ e = u[c][i]
    BY ONLY <2>0
  <2>2. CASE c # b
    BY <1>5, <2>1, <2>2, EntryAt
  <2>3. CASE c = b /\ i = 1
    BY <1>6, <2>1, <2>3
  <2>4. CASE c = b /\ i # 1
    BY <1>1, <1>7, <2>1, <2>4, EntryAt
  <2> QED
    BY <2>2, <2>3, <2>4
<1>12. ASSUME NEW e \in EntriesOf(t) PROVE e \in EntriesOf(u)
  <2>1. PICK c \in BucketIds, i \in Nat : i \in 1..Len(t[c]) /\ e = t[c][i]
    BY <1>12, EntryAt
  <2>2. CASE c # b
    BY <1>5, <2>1, <2>2, EntryAt
  <2>3. CASE c = b
    <3>1. i + 1 \in 1..Len(u[b]) /\ u[b][i + 1] = e
      BY <1>2, <1>6, <2>1, <2>3
    <3> QED
      BY <1>1, <3>1, EntryAt
  <2> QED
    BY <2>2, <2>3
<1>13. x \in EntriesOf(u)
  <2>1. 1 \in 1..Len(u[b])
    BY <1>2, <1>6
  <2> QED
    BY <1>1, <1>6, <2>1, EntryAt
<1> QED
  BY <1>5, <1>8, <1>10, <1>11, <1>12, <1>13 DEF TableOf

(* The k-th entry of a chain is cut out of it.                             *)
WithoutAt(t, b, k) == [t EXCEPT ![b] = M!CutAt(@, k)]

LEMMA TableCut ==
    ASSUME NEW S, NEW t, TableOf(t, S), NEW b \in BucketIds, NEW k \in 1..Len(t[b]),
           NEW u, u = WithoutAt(t, b, k)
    PROVE  TableOf(u, S) /\ EntriesOf(u) = EntriesOf(t) \ {t[b][k]}
<1>2. t \in [BucketIds -> Seq(S)] /\ t[b] \in Seq(S) /\ Len(t[b]) \in Nat /\ k \in Int /\ 1 <= k /\ k <= Len(t[b])
  BY DEF TableOf
<1> DEFINE s == t[b]
           r == M!CutAt(s, k)
<1>3. r \in Seq(S) /\ CutOut(s, r, k)
  <2>1. r = L!Dropped(s, k - 1)
    <3>1. (k - 1) + 2 = k + 1
      BY <1>2
    <3> QED
      BY <3>1 DEF M!CutAt, L!Dropped
  <2> HIDE DEF r
  <2> QED
    BY <1>2, <2>1, DroppedOut
<1>4. u = [t EXCEPT ![b] = r]
  BY <1>2 DEF WithoutAt
<1> HIDE DEF r
<1>5. u \in [BucketIds -> Seq(S)] /\ u[b] = r /\ \A c \in BucketIds : c # b => u[c] = t[c]
  BY ONLY <1>2, <1>3, <1>4, b \in BucketIds
<1>6. Len(r) = Len(s) - 1 /\ \A i \in 1..Len(s) - 1 : r[i] = IF i < k THEN s[i] ELSE s[i + 1]
  BY <1>3 DEF CutOut
<1> DEFINE In(e, i) == IF e = b /\ ~(i < k) THEN i + 1 ELSE i
<1>7. ASSUME NEW c \in BucketIds, NEW i \in 1..Len(u[c])
      PROVE  In(c, i) \in 1..Len(t[c]) /\ u[c][i] = t[c][In(c, i)] /\ (c = b => In(c, i) # k)
  <2>1. CASE c # b
    BY <1>5, <2>1
  <2>2. CASE c = b
    <3>1. i \in 1..Len(s) - 1 /\ i \in Int
      BY <1>2, <1>5, <1>6, <2>2
    <3>2. CASE i < k
      BY <1>2, <1>5, <1>6, <2>2, <3>1, <3>2
    <3>3. CASE ~(i < k)
      BY <1>2, <1>5, <1>6, <2>2, <3>1, <3>3
    <3> QED
      BY <3>2, <3>3
  <2> QED
    BY <2>1, <2>2
<1>8. InPlace(u)
  <2>1. InPlace(t)
    BY DEF TableOf
  <2> HIDE DEF In
  <2> QED
    BY <1>7, <2>1 DEF InPlace
<1>10. NodesApart(u)
  <2> SUFFICES ASSUME NEW c \in BucketIds, NEW d \in BucketIds, NEW i \in 1..Len(u[c]), NEW j \in 1..Len(u[d]),
                      u[c][i].node = u[d][j].node
               PROVE  c = d /\ i = j
    BY DEF NodesApart
  <2>1. i \in Int /\ j \in Int
    OBVIOUS
  <2>2. NodesApart(t)
    BY DEF TableOf
  <2>3. c = d /\ In(c, i) = In(d, j)
    <3> HIDE DEF In
    <3>1. In(c, i) \in 1..Len(t[c]) /\ u[c][i] = t[c][In(c, i)]
      BY <1>7
    <3>2. In(d, j) \in 1..Len(t[d]) /\ u[d][j] = t[d][In(d, j)]
      BY <1>7
    <3>3. t[c][In(c, i)].node = t[d][In(d, j)].node
      BY <3>1, <3>2
    <3> QED
      BY ONLY <2>2, <3>1, <3>2, <3>3, c \in BucketIds, d \in BucketIds DEF NodesApart
  <2> QED
    BY <1>2, <2>1, <2>3
<1>11. ASSUME NEW e \in EntriesOf(u) PROVE e \in EntriesOf(t) /\ e # t[b][k]
  <2>0. \E c \in BucketIds : \E i \in 1..Len(u[c]) : e = u[c][i]
    BY ONLY <1>11, EntryAt
  <2>1. PICK c \in BucketIds, i \in Nat : i \in 1..Len(u[c]) /\ e = u[c][i]
    BY ONLY <2>0
  <2> HIDE DEF In
  <2>2. In(c, i) \in 1..Len(t[c]) /\ e = t[c][In(c, i)] /\ (c = b => In(c, i) # k)
    BY <1>7, <2>1
  <2>3. NodesApart(t)
    BY DEF TableOf
  <2>4. e # t[b][k]
    BY <2>2, <2>3 DEF NodesApart
  <2> QED
    BY <2>2, <2>4, EntryAt
<1>12. ASSUME NEW e \in EntriesOf(t), e # t[b][k] PROVE e \in EntriesOf(u)
  <2>1. PICK c \in BucketIds, i \in Nat : i \in 1..Len(t[c]) /\ e = t[c][i]
    BY <1>12, EntryAt
  <2>2. CASE c # b
    BY <1>5, <2>1, <2>2, EntryAt
  <2>3. CASE c = b /\ i < k
    <3>1. i \in 1..Len(u[b]) /\ u[b][i] = e
      <4>1. i \in 1..Len(s) - 1
        BY <1>2, <2>1, <2>3
      <4> QED
        BY <1>5, <1>6, <2>1, <2>3, <4>1
    <3> QED
      BY <3>1, EntryAt
  <2>4. CASE c = b /\ ~(i < k)
    <3>1. i - 1 \in 1..Len(s) - 1 /\ ~(i - 1 < k) /\ (i - 1) + 1 = i
      <4>1. i # k
        BY <1>12, <2>1, <2>4
      <4> QED
        BY <1>2, <2>1, <2>4, <4>1
    <3>2. r[i - 1] = s[i]
      BY <1>6, <3>1
    <3>3. i - 1 \in 1..Len(u[b]) /\ u[b][i - 1] = e
      BY <1>5, <1>6, <2>1, <2>4, <3>1, <3>2
    <3> QED
      BY <3>3, EntryAt
  <2> QED
    BY <2>2, <2>3, <2>4
<1>13. t[b][k] \in EntriesOf(t)
  BY EntryAt
<1> QED
  BY <1>5, <1>8, <1>10, <1>11, <1>12, <1>13 DEF TableOf

LEMMA TableEmpty ==
    ASSUME NEW S, NEW t, t = [b \in BucketIds |-> <<>>]
    PROVE  TableOf(t, S) /\ EntriesOf(t) = {}
<1>1. \A b \in BucketIds : t[b] = <<>> /\ Len(t[b]) = 0
  OBVIOUS
<1>2. \A b \in BucketIds : 1..Len(t[b]) = {}
  BY <1>1
<1>3. t \in [BucketIds -> Seq(S)]
  BY EmptySeq
<1>4. InPlace(t) /\ NodesApart(t)
  BY <1>2 DEF InPlace, NodesApart
<1>5. \A e : e \notin EntriesOf(t)
  BY <1>2, EntryAt
<1> QED
  BY <1>3, <1>4, <1>5 DEF TableOf

(* RtMetaData: the blocks S that the entries E of its table own, an item   *)
(* in the data of each and, if that has one, the block of its value: no    *)
(* block twice.                                                            *)
MetaOf == [key : Keys, data : Blocks, node : Blocks]
Fits(item) == item.ext \in Blocks \cup {Nothing} /\ (item.size > M!Reservoir <=> item.ext # Nothing)
OwnedBy(E, ty) == {e.node : e \in E} \cup {e.data : e \in E} \cup ({ty[e.data].ext : e \in E} \ {Nothing})
Places(S, E, ty) ==
    /\ E \subseteq MetaOf /\ ty = [b \in Blocks |-> ty[b]] /\ \A b \in Blocks : Fits(ty[b])
    /\ \A e, f \in E : (e.node = f.node => e = f) /\ (e.data = f.data => e = f) /\ e.data # f.node
    /\ \A e, f \in E : ty[e.data].ext # f.node /\ ty[e.data].ext # f.data
    /\ \A e, f \in E : ty[e.data].ext = ty[f.data].ext /\ ty[e.data].ext # Nothing => e = f
    /\ \A b \in Blocks : (\A e \in E : e.data # b) => ty[b] = M!Emptied
    /\ S = OwnedBy(E, ty)

LEMMA OwnedIs ==
    ASSUME NEW E, NEW ty, NEW b
    PROVE  b \in OwnedBy(E, ty) <=> \E e \in E : b = e.node \/ b = e.data \/ (b = ty[e.data].ext /\ b # Nothing)
BY DEF OwnedBy

LEMMA EmptiedIs == Fits(M!Emptied) /\ M!Emptied.ext = Nothing /\ M!Emptied.size = 0 /\ M!Emptied.type = "none"
BY DEF Fits, M!Emptied, M!Reservoir

LEMMA PlacesFacts ==
    ASSUME NEW S, NEW E, NEW ty, Places(S, E, ty)
    PROVE  /\ E \subseteq MetaOf /\ ty = [b \in Blocks |-> ty[b]] /\ \A b \in Blocks : Fits(ty[b])
           /\ \A e, f \in E : (e.node = f.node => e = f) /\ (e.data = f.data => e = f) /\ e.data # f.node
           /\ \A e, f \in E : ty[e.data].ext # f.node /\ ty[e.data].ext # f.data
           /\ \A e, f \in E : ty[e.data].ext = ty[f.data].ext /\ ty[e.data].ext # Nothing => e = f
           /\ \A b \in Blocks : (\A e \in E : e.data # b) => ty[b] = M!Emptied
           /\ S = OwnedBy(E, ty)
           /\ \A e \in E : e.node \in Blocks /\ e.data \in Blocks /\ e.key \in Keys
           /\ \A e \in E : e.node \in S /\ e.data \in S /\ (ty[e.data].ext \in S \/ ty[e.data].ext = Nothing)
           /\ S \subseteq Blocks
<1>1. /\ E \subseteq MetaOf /\ ty = [b \in Blocks |-> ty[b]] /\ \A b \in Blocks : Fits(ty[b])
      /\ \A e, f \in E : (e.node = f.node => e = f) /\ (e.data = f.data => e = f) /\ e.data # f.node
      /\ \A e, f \in E : ty[e.data].ext # f.node /\ ty[e.data].ext # f.data
      /\ \A e, f \in E : ty[e.data].ext = ty[f.data].ext /\ ty[e.data].ext # Nothing => e = f
      /\ \A b \in Blocks : (\A e \in E : e.data # b) => ty[b] = M!Emptied
      /\ S = OwnedBy(E, ty)
  BY DEF Places
<1>2. \A e \in E : e.node \in Blocks /\ e.data \in Blocks /\ e.key \in Keys
  BY <1>1 DEF MetaOf
<1>3. \A e \in E : e.node \in S /\ e.data \in S /\ (ty[e.data].ext \in S \/ ty[e.data].ext = Nothing)
  BY <1>1, OwnedIs
<1>4. ASSUME NEW b \in S PROVE b \in Blocks
  <2>1. PICK e \in E : b = e.node \/ b = e.data \/ (b = ty[e.data].ext /\ b # Nothing)
    BY <1>1, OwnedIs
  <2>2. Fits(ty[e.data]) /\ e.node \in Blocks /\ e.data \in Blocks
    BY <1>1, <1>2
  <2> QED
    BY <2>1, <2>2 DEF Fits
<1> QED
  BY ONLY <1>1, <1>2, <1>3, <1>4

LEMMA PlacesPut ==
    ASSUME NEW S, NEW E, NEW ty, Places(S, E, ty), NEW x \in MetaOf,
           x.data \notin S, x.node \notin S, x.data # x.node
    PROVE  Places(S \cup {x.data, x.node}, E \cup {x}, ty) /\ ty[x.data] = M!Emptied /\ x \notin E
<1> DEFINE F == E \cup {x}
<1>1. x.data \in Blocks /\ x.node \in Blocks /\ x.data # Nothing /\ x.node # Nothing
  BY BlocksAre DEF MetaOf
<1>2. \A e \in E : /\ e.node # x.node /\ e.node # x.data /\ e.data # x.node /\ e.data # x.data
                   /\ ty[e.data].ext # x.node /\ ty[e.data].ext # x.data
  BY <1>1, PlacesFacts
<1>3. ty[x.data] = M!Emptied
  BY <1>1, <1>2, PlacesFacts
<1>4. ty[x.data].ext = Nothing
  BY <1>3, EmptiedIs
<1>5. F \subseteq MetaOf /\ ty = [b \in Blocks |-> ty[b]] /\ \A b \in Blocks : Fits(ty[b])
  BY PlacesFacts
<1>6. \A e \in E : e.node # Nothing /\ e.data # Nothing
  BY PlacesFacts, BlocksAre
<1>7. ASSUME NEW e \in F, NEW f \in F
      PROVE  /\ (e.node = f.node => e = f) /\ (e.data = f.data => e = f) /\ e.data # f.node
             /\ ty[e.data].ext # f.node /\ ty[e.data].ext # f.data
             /\ ty[e.data].ext = ty[f.data].ext /\ ty[e.data].ext # Nothing => e = f
  <2>1. CASE e \in E /\ f \in E
    BY <2>1, PlacesFacts
  <2>2. CASE e = x
    BY <1>1, <1>2, <1>4, <1>6, <2>2
  <2>3. CASE f = x
    BY <1>1, <1>2, <1>4, <1>6, <2>3
  <2> QED
    BY <2>1, <2>2, <2>3
<1>8. ASSUME NEW b \in Blocks, \A e \in F : e.data # b PROVE ty[b] = M!Emptied
  BY <1>8, PlacesFacts
<1>9. S \cup {x.data, x.node} = OwnedBy(F, ty)
  <2>1. \A b : b \in S <=> \E e \in E : b = e.node \/ b = e.data \/ (b = ty[e.data].ext /\ b # Nothing)
    BY PlacesFacts, OwnedIs
  <2>2. \A b : b \in OwnedBy(F, ty) <=> \E e \in F : b = e.node \/ b = e.data \/ (b = ty[e.data].ext /\ b # Nothing)
    BY OwnedIs
  <2>3. ASSUME NEW b \in OwnedBy(F, ty) PROVE b \in S \cup {x.data, x.node}
    <3>1. PICK e \in F : b = e.node \/ b = e.data \/ (b = ty[e.data].ext /\ b # Nothing)
      BY <2>2
    <3> QED
      BY <1>4, <2>1, <3>1
  <2>4. ASSUME NEW b \in S PROVE b \in OwnedBy(F, ty)
    <3>1. PICK e \in E : b = e.node \/ b = e.data \/ (b = ty[e.data].ext /\ b # Nothing)
      BY <2>1
    <3> QED
      BY <2>2, <3>1
  <2>5. x \in F
    OBVIOUS
  <2>6. x.data \in OwnedBy(F, ty) /\ x.node \in OwnedBy(F, ty)
    BY ONLY <2>2, <2>5
  <2> QED
    BY <2>3, <2>4, <2>6
<1> HIDE DEF F
<1>10. Places(S \cup {x.data, x.node}, F, ty)
  BY ONLY <1>5, <1>7, <1>8, <1>9 DEF Places
<1> QED
  BY <1>2, <1>3, <1>10 DEF F

LEMMA PlacesSwap ==
    ASSUME NEW S, NEW E, NEW ty, Places(S, E, ty), NEW e \in E,
           NEW item, Fits(item), item.ext \notin S \ {ty[e.data].ext},
           NEW ty2, ty2 = [ty EXCEPT ![e.data] = item]
    PROVE  Places((S \ {ty[e.data].ext}) \cup ({item.ext} \ {Nothing}), E, ty2)
<1> DEFINE old == ty[e.data].ext
           S2 == (S \ {old}) \cup ({item.ext} \ {Nothing})
<1>1. /\ E \subseteq MetaOf /\ ty = [b \in Blocks |-> ty[b]] /\ \A b \in Blocks : Fits(ty[b])
      /\ \A f, g \in E : (f.node = g.node => f = g) /\ (f.data = g.data => f = g) /\ f.data # g.node
      /\ \A f, g \in E : ty[f.data].ext # g.node /\ ty[f.data].ext # g.data
      /\ \A f, g \in E : ty[f.data].ext = ty[g.data].ext /\ ty[f.data].ext # Nothing => f = g
      /\ \A b \in Blocks : (\A f \in E : f.data # b) => ty[b] = M!Emptied
      /\ \A f \in E : f.node \in Blocks /\ f.data \in Blocks
      /\ \A f \in E : f.node \in S /\ f.data \in S /\ (ty[f.data].ext \in S \/ ty[f.data].ext = Nothing)
  BY PlacesFacts
<1>2. /\ ty2 = [b \in Blocks |-> ty2[b]] /\ ty2[e.data] = item
      /\ \A b \in Blocks : b # e.data => ty2[b] = ty[b]
  BY <1>1
<1>3. \A f \in E : f # e => ty2[f.data] = ty[f.data]
  BY <1>1, <1>2
<1>4. \A f \in E : /\ item.ext # f.node /\ item.ext # f.data
                   /\ f # e /\ item.ext # Nothing => item.ext # ty[f.data].ext
  <2> SUFFICES ASSUME NEW f \in E
               PROVE  /\ item.ext # f.node /\ item.ext # f.data
                      /\ f # e /\ item.ext # Nothing => item.ext # ty[f.data].ext
    OBVIOUS
  <2>1. f.node # old /\ f.data # old /\ f.node \in S /\ f.data \in S
    BY <1>1
  <2>2. f # e /\ item.ext # Nothing /\ item.ext = ty[f.data].ext => FALSE
    BY <1>1
  <2> QED
    BY <2>1, <2>2
<1>5. \A b \in Blocks : Fits(ty2[b])
  BY <1>1, <1>2
<1>6. \A f, g \in E : ty2[f.data].ext # g.node /\ ty2[f.data].ext # g.data
  BY <1>1, <1>2, <1>3, <1>4
<1>7. ASSUME NEW f \in E, NEW g \in E, ty2[f.data].ext = ty2[g.data].ext, ty2[f.data].ext # Nothing
      PROVE  f = g
  <2>1. CASE f = e /\ g # e
    BY <1>2, <1>3, <1>4, <1>7, <2>1
  <2>2. CASE f # e /\ g = e
    BY <1>2, <1>3, <1>4, <1>7, <2>2
  <2>3. CASE f # e /\ g # e
    BY <1>1, <1>3, <1>7, <2>3
  <2> QED
    BY <2>1, <2>2, <2>3
<1>8. ASSUME NEW b \in Blocks, \A f \in E : f.data # b PROVE ty2[b] = M!Emptied
  BY <1>1, <1>2, <1>8
<1>9. S2 = OwnedBy(E, ty2)
  <2>1. \A b : b \in S <=> \E f \in E : b = f.node \/ b = f.data \/ (b = ty[f.data].ext /\ b # Nothing)
    BY PlacesFacts, OwnedIs
  <2>2. \A b : b \in OwnedBy(E, ty2) <=> \E f \in E : b = f.node \/ b = f.data \/ (b = ty2[f.data].ext /\ b # Nothing)
    BY ONLY OwnedIs
  <2>3. ASSUME NEW b \in S, b # old PROVE b \in OwnedBy(E, ty2)
    <3>1. PICK f \in E : b = f.node \/ b = f.data \/ (b = ty[f.data].ext /\ b # Nothing)
      BY <2>1
    <3>2. b = ty[f.data].ext => f # e
      BY <2>3
    <3> QED
      BY <1>3, <2>2, <3>1, <3>2
  <2>4. item.ext # Nothing => item.ext \in OwnedBy(E, ty2)
    BY <1>2, <2>2
  <2>5. ASSUME NEW b \in OwnedBy(E, ty2) PROVE b \in S2
    <3>1. PICK f \in E : b = f.node \/ b = f.data \/ (b = ty2[f.data].ext /\ b # Nothing)
      BY <2>2
    <3>2. CASE b = f.node \/ b = f.data
      BY <1>1, <3>2
    <3>3. CASE b = ty2[f.data].ext /\ b # Nothing /\ f = e
      BY <1>2, <3>3
    <3>4. CASE b = ty2[f.data].ext /\ b # Nothing /\ f # e
      <4>1. b = ty[f.data].ext
        BY <1>3, <3>4
      <4>2. b \in S /\ b # old
        BY <1>1, <3>4, <4>1
      <4> QED
        BY <4>2
    <3> QED
      BY <3>1, <3>2, <3>3, <3>4
  <2> QED
    BY <2>3, <2>4, <2>5
<1> HIDE DEF S2
<1>10. Places(S2, E, ty2)
  BY ONLY <1>1, <1>2, <1>5, <1>6, <1>7, <1>8, <1>9 DEF Places
<1> QED
  BY <1>10 DEF S2

LEMMA PlacesCut ==
    ASSUME NEW S, NEW E, NEW ty, Places(S, E, ty), NEW e \in E,
           NEW ty2, ty2 = [ty EXCEPT ![e.data] = M!Emptied]
    PROVE  Places(((S \ {ty[e.data].ext}) \ {e.data}) \ {e.node}, E \ {e}, ty2)
<1> DEFINE old == ty[e.data].ext
           F == E \ {e}
           S2 == ((S \ {old}) \ {e.data}) \ {e.node}
<1>1. /\ E \subseteq MetaOf /\ ty = [b \in Blocks |-> ty[b]] /\ \A b \in Blocks : Fits(ty[b])
      /\ \A f, g \in E : (f.node = g.node => f = g) /\ (f.data = g.data => f = g) /\ f.data # g.node
      /\ \A f, g \in E : ty[f.data].ext # g.node /\ ty[f.data].ext # g.data
      /\ \A f, g \in E : ty[f.data].ext = ty[g.data].ext /\ ty[f.data].ext # Nothing => f = g
      /\ \A b \in Blocks : (\A f \in E : f.data # b) => ty[b] = M!Emptied
      /\ \A f \in E : f.node \in Blocks /\ f.data \in Blocks
  BY PlacesFacts
<1>2. /\ ty2 = [b \in Blocks |-> ty2[b]] /\ ty2[e.data] = M!Emptied
      /\ \A b \in Blocks : b # e.data => ty2[b] = ty[b]
  BY <1>1
<1>3. \A f \in F : ty2[f.data] = ty[f.data]
  BY <1>1, <1>2
<1>4. \A b \in Blocks : Fits(ty2[b])
  BY <1>1, <1>2, EmptiedIs
<1>5. ASSUME NEW f \in F, NEW g \in F
      PROVE  /\ (f.node = g.node => f = g) /\ (f.data = g.data => f = g) /\ f.data # g.node
             /\ ty2[f.data].ext # g.node /\ ty2[f.data].ext # g.data
             /\ ty2[f.data].ext = ty2[g.data].ext /\ ty2[f.data].ext # Nothing => f = g
  BY <1>1, <1>3
<1>6. ASSUME NEW b \in Blocks, \A f \in F : f.data # b PROVE ty2[b] = M!Emptied
  <2>1. CASE b = e.data
    BY <1>2, <2>1
  <2>2. CASE b # e.data
    <3>1. \A f \in E : f.data # b
      BY <1>6, <2>2
    <3> QED
      BY <1>1, <1>2, <2>2, <3>1
  <2> QED
    BY <2>1, <2>2
<1>7. S2 = OwnedBy(F, ty2)
  <2>1. \A b : b \in S <=> \E f \in E : b = f.node \/ b = f.data \/ (b = ty[f.data].ext /\ b # Nothing)
    BY PlacesFacts, OwnedIs
  <2>2. \A b : b \in OwnedBy(F, ty2) <=> \E f \in F : b = f.node \/ b = f.data \/ (b = ty2[f.data].ext /\ b # Nothing)
    BY ONLY OwnedIs
  <2>3. ASSUME NEW b \in S2 PROVE b \in OwnedBy(F, ty2)
    <3>1. PICK f \in E : b = f.node \/ b = f.data \/ (b = ty[f.data].ext /\ b # Nothing)
      BY <2>1
    <3>2. f \in F
      BY <3>1
    <3> QED
      BY <1>3, <2>2, <3>1, <3>2
  <2>4. ASSUME NEW b \in OwnedBy(F, ty2) PROVE b \in S2
    <3>1. PICK f \in F : b = f.node \/ b = f.data \/ (b = ty2[f.data].ext /\ b # Nothing)
      BY <2>2
    <3>2. b = f.node \/ b = f.data \/ (b = ty[f.data].ext /\ b # Nothing)
      BY <1>3, <3>1
    <3>3. b \in S
      BY <2>1, <3>2
    <3>4. f # e /\ f \in E
      OBVIOUS
    <3>5. CASE b = f.node
      BY <1>1, <3>3, <3>4, <3>5
    <3>6. CASE b = f.data
      BY <1>1, <3>3, <3>4, <3>6
    <3>7. CASE b = ty[f.data].ext /\ b # Nothing
      BY <1>1, <3>3, <3>4, <3>7
    <3> QED
      BY <3>2, <3>5, <3>6, <3>7
  <2> QED
    BY <2>3, <2>4
<1>8. F \subseteq MetaOf
  BY <1>1
<1> HIDE DEF S2, F
<1>9. Places(S2, F, ty2)
  BY ONLY <1>2, <1>4, <1>5, <1>6, <1>7, <1>8 DEF Places
<1> QED
  BY <1>9 DEF S2, F

LEMMA PlacesNone == Places({}, {}, [b \in Blocks |-> M!Emptied])
<1> DEFINE ty == [b \in Blocks |-> M!Emptied]
<1>1. ty = [b \in Blocks |-> ty[b]] /\ \A b \in Blocks : ty[b] = M!Emptied
  OBVIOUS
<1> HIDE DEF ty
<1>2. OwnedBy({}, ty) = {}
  BY DEF OwnedBy
<1>3. Places({}, {}, ty)
  BY <1>1, <1>2, EmptiedIs DEF Places
<1> QED
  BY <1>3 DEF ty

(* What the caller believes about a key agrees with the item.              *)
Kept(item, k) ==
    /\ item.type = k.type /\ item.type \in M!Types
    /\ ~k.lost => item.size = M!SizeOf[item.type] /\ item.value = k.value
    /\ k.lost => item.size = 0

LEMMA SizesAre ==
    /\ M!Reservoir = 1 /\ M!SizeOf["typed_data"] = 3 /\ M!SizeOf["node"] = 3
    /\ \A t \in M!Types : M!SizeOf[t] \in Nat /\ M!SizeOf[t] > 0
BY DEF M!SizeOf, M!Types, M!Reservoir

LEMMA FreeStorage ==
    ASSUME NEW h, HeapGood(h), NEW item, Fits(item)
    PROVE  HeapGood(M!freeStorage(h, item)) /\ M!freeStorage(h, item).live = h.live \ {item.ext}
<1>1. CASE item.size > M!Reservoir
  BY <1>1, FreeKeeps DEF M!freeStorage, Fits
<1>2. CASE ~(item.size > M!Reservoir)
  <2>1. item.ext = Nothing /\ item.ext \notin h.live
    BY <1>2, BlocksAre DEF Fits, HeapGood
  <2> QED
    BY <1>2, <2>1 DEF M!freeStorage
<1> QED
  BY <1>1, <1>2

LEMMA SetItem ==
    ASSUME NEW h, HeapGood(h), NEW b, Fits(typed[b]), NEW type \in M!Types, NEW value,
           NEW r, r = M!typed_setData(h, b, type, value),
           NEW k, k = [type |-> type, value |-> value,
                       lost |-> M!SizeOf[type] > M!Reservoir /\ r.item.ext = Nothing]
    PROVE  /\ HeapGood(r.heap) /\ Fits(r.item) /\ Kept(r.item, k)
           /\ r.item.ext \notin h.live \ {typed[b].ext}
           /\ r.heap.live = (h.live \ {typed[b].ext}) \cup ({r.item.ext} \ {Nothing})
<1> DEFINE c == M!freeStorage(h, typed[b])
           size == M!SizeOf[type]
           stored == [type |-> type, size |-> size, value |-> value, ext |-> Nothing]
           live == h.live \ {typed[b].ext}
<1>1. HeapGood(c) /\ c.live = live
  BY FreeStorage
<1>2. size \in Nat /\ size > 0 /\ M!Reservoir = 1
  BY SizesAre
<1>3. r = IF size <= M!Reservoir THEN [heap |-> c, item |-> stored]
          ELSE IF M!Block(c) = Nothing THEN [heap |-> c, item |-> [stored EXCEPT !.size = 0]]
          ELSE [heap |-> M!rt_mem_malloc(c, size), item |-> [stored EXCEPT !.ext = M!Block(c)]]
  BY DEF M!typed_setData
<1>4. k.type = type /\ k.value = value /\ (k.lost <=> size > M!Reservoir /\ r.item.ext = Nothing)
  OBVIOUS
<1>5. Nothing \notin live
  BY BlocksAre DEF HeapGood
<1>6. \A n, x : Fits([type |-> type, size |-> n, value |-> value, ext |-> x])
                  <=> x \in Blocks \cup {Nothing} /\ (n > M!Reservoir <=> x # Nothing)
  BY DEF Fits
<1>7. \A n, x : Kept([type |-> type, size |-> n, value |-> value, ext |-> x], k)
                  <=> (~k.lost => n = size) /\ (k.lost => n = 0)
  BY <1>4 DEF Kept
<1>8. CASE size <= M!Reservoir
  <2>1. r.heap = c /\ r.item = stored
    BY <1>3, <1>8
  <2>2. r.item.ext = Nothing
    BY <2>1
  <2>3. ~(size > M!Reservoir) /\ ~k.lost
    BY <1>2, <1>4, <1>8
  <2>4. Fits(r.item) /\ Kept(r.item, k)
    BY <1>6, <1>7, <2>1, <2>3
  <2> HIDE DEF c, stored, live
  <2> QED
    BY <1>1, <1>5, <2>1, <2>2, <2>4 DEF live
<1>9. CASE ~(size <= M!Reservoir) /\ M!Block(c) = Nothing
  <2>1. r.heap = c /\ r.item = [type |-> type, size |-> 0, value |-> value, ext |-> Nothing]
    BY <1>3, <1>9
  <2>2. r.item.ext = Nothing
    BY <2>1
  <2>3. size > M!Reservoir /\ k.lost /\ ~(0 > M!Reservoir)
    BY <1>2, <1>4, <1>9, <2>2
  <2>4. Fits(r.item) /\ Kept(r.item, k)
    BY <1>6, <1>7, <2>1, <2>3
  <2> HIDE DEF c, stored, live
  <2> QED
    BY <1>1, <1>5, <2>1, <2>2, <2>4 DEF live
<1>10. CASE ~(size <= M!Reservoir) /\ M!Block(c) # Nothing
  <2>1. r.heap = M!rt_mem_malloc(c, size)
        /\ r.item = [type |-> type, size |-> size, value |-> value, ext |-> M!Block(c)]
    BY <1>3, <1>10
  <2>2. r.item.ext = M!Block(c)
    BY <2>1
  <2>3. size > M!Reservoir /\ ~k.lost
    BY <1>2, <1>4, <1>10, <2>2
  <2>4. HeapGood(r.heap) /\ r.heap.live = live \cup {M!Block(c)} /\ M!Block(c) \in Blocks \ live
    <3> HIDE DEF c, size
    <3> QED
      BY <1>1, <1>2, <1>10, <2>1, MallocKeeps
  <2>5. Fits(r.item) /\ Kept(r.item, k)
    BY <1>6, <1>7, <1>10, <2>1, <2>3, <2>4
  <2> HIDE DEF c, stored, live
  <2> QED
    BY <1>10, <2>2, <2>4, <2>5 DEF live
<1> QED
  BY <1>8, <1>9, <1>10

(* A key is found if an entry has it, and the entry is that one.           *)
KeysApart(E) == \A e, f \in E : e.key = f.key => e = f

LEMMA Found ==
    ASSUME NEW S, TableOf(table, S), KeysApart(EntriesOf(table)), NEW k \in Keys
    PROVE  /\ \A e \in EntriesOf(table) : e.key = k =>
                 /\ M!Position(k) \in 1..Len(table[M!Bucket(k)]) /\ M!Position(k) # 0
                 /\ table[M!Bucket(k)][M!Position(k)] = e
           /\ (\A e \in EntriesOf(table) : e.key # k) => M!Position(k) = 0
<1> DEFINE b == M!Bucket(k)
           s == table[b]
           hit == {i \in 1..Len(s) : s[i].key = k}
<1>1. b \in BucketIds
  BY BucketOf
<1>2. s \in Seq(S) /\ DOMAIN s = 1..Len(s)
  BY <1>1 DEF TableOf
<1>3. M!Position(k) = IF hit = {} THEN 0 ELSE M!Least(hit)
  BY <1>2 DEF M!Position, M!Chain
<1>4. \A i \in hit : i \in 1..Len(s) /\ s[i] \in EntriesOf(table) /\ s[i].key = k
  BY <1>1, EntryAt
<1>5. ASSUME NEW e \in EntriesOf(table), e.key = k
      PROVE  M!Position(k) \in 1..Len(s) /\ M!Position(k) # 0 /\ s[M!Position(k)] = e
  <2>0. \E c \in BucketIds : \E i \in 1..Len(table[c]) : e = table[c][i]
    BY ONLY <1>5, EntryAt
  <2>1. PICK c \in BucketIds, i \in Nat : i \in 1..Len(table[c]) /\ e = table[c][i]
    BY ONLY <2>0
  <2>2. c = b
    BY <1>5, <2>1 DEF TableOf, InPlace
  <2>3. i \in hit
    BY <1>5, <2>1, <2>2
  <2>4. M!Least(hit) \in hit
    <3>1. hit \in SUBSET Nat /\ hit # {}
      BY <2>3
    <3> HIDE DEF hit
    <3> QED
      BY <3>1, LeastIn
  <2>5. M!Position(k) \in hit
    BY <1>3, <2>3, <2>4
  <2> HIDE DEF hit, s
  <2>6. s[M!Position(k)] \in EntriesOf(table) /\ s[M!Position(k)].key = k /\ M!Position(k) \in 1..Len(s)
    BY <1>4, <2>5
  <2>7. M!Position(k) # 0
    BY <2>6
  <2> QED
    BY <1>5, <2>6, <2>7 DEF KeysApart
<1>6. ASSUME \A e \in EntriesOf(table) : e.key # k PROVE M!Position(k) = 0
  <2>1. hit = {}
    BY <1>4, <1>6
  <2> QED
    BY <1>3, <2>1
<1> QED
  BY <1>5, <1>6

(* The entries E of the table keep what kn says is known of their keys,    *)
(* and of a key without an entry nothing is known.                         *)
Store(E, ty, kn) ==
    /\ KeysApart(E) /\ kn = [k \in Keys |-> kn[k]]
    /\ \A e \in E : Kept(ty[e.data], kn[e.key])
    /\ \A k \in Keys : (\A e \in E : e.key # k) => kn[k] = M!Unset

LEMMA StoreSet ==
    ASSUME NEW E, NEW ty, NEW kn, Store(E, ty, kn), ty = [b \in Blocks |-> ty[b]],
           \A e \in E : e.key \in Keys /\ e.data \in Blocks,
           NEW x, x.key \in Keys, x.data \in Blocks,
           \A e \in E : (e.key = x.key => e = x) /\ (e.data = x.data => e = x),
           NEW item, NEW k, Kept(item, k),
           NEW ty2, ty2 = [ty EXCEPT ![x.data] = item], NEW kn2, kn2 = [kn EXCEPT ![x.key] = k]
    PROVE  Store(E \cup {x}, ty2, kn2)
<1>1. /\ KeysApart(E) /\ kn = [j \in Keys |-> kn[j]]
      /\ \A e \in E : Kept(ty[e.data], kn[e.key])
      /\ \A j \in Keys : (\A e \in E : e.key # j) => kn[j] = M!Unset
  BY DEF Store
<1>2. ty2[x.data] = item /\ \A b \in Blocks : b # x.data => ty2[b] = ty[b]
  OBVIOUS
<1>3. /\ kn2 = [j \in Keys |-> kn2[j]] /\ kn2[x.key] = k
      /\ \A j \in Keys : j # x.key => kn2[j] = kn[j]
  BY <1>1
<1>4. KeysApart(E \cup {x})
  BY <1>1 DEF KeysApart
<1>5. ASSUME NEW e \in E \cup {x} PROVE Kept(ty2[e.data], kn2[e.key])
  <2>1. CASE e = x
    BY <1>2, <1>3, <2>1
  <2>2. CASE e # x
    BY <1>1, <1>2, <1>3, <2>2
  <2> QED
    BY <2>1, <2>2
<1>6. ASSUME NEW j \in Keys, \A e \in E \cup {x} : e.key # j PROVE kn2[j] = M!Unset
  BY <1>1, <1>3, <1>6
<1> QED
  BY ONLY <1>3, <1>4, <1>5, <1>6 DEF Store

LEMMA StoreCut ==
    ASSUME NEW E, NEW ty, NEW kn, Store(E, ty, kn), ty = [b \in Blocks |-> ty[b]],
           \A e \in E : e.key \in Keys /\ e.data \in Blocks,
           NEW x \in E, \A e \in E : e.data = x.data => e = x,
           NEW ty2, ty2 = [ty EXCEPT ![x.data] = M!Emptied], NEW kn2, kn2 = [kn EXCEPT ![x.key] = M!Unset]
    PROVE  Store(E \ {x}, ty2, kn2)
<1>1. /\ KeysApart(E) /\ kn = [j \in Keys |-> kn[j]]
      /\ \A e \in E : Kept(ty[e.data], kn[e.key])
      /\ \A j \in Keys : (\A e \in E : e.key # j) => kn[j] = M!Unset
  BY DEF Store
<1>2. \A b \in Blocks : b # x.data => ty2[b] = ty[b]
  OBVIOUS
<1>3. /\ kn2 = [j \in Keys |-> kn2[j]] /\ kn2[x.key] = M!Unset
      /\ \A j \in Keys : j # x.key => kn2[j] = kn[j]
  BY <1>1
<1>4. KeysApart(E \ {x})
  BY <1>1 DEF KeysApart
<1>5. ASSUME NEW e \in E \ {x} PROVE Kept(ty2[e.data], kn2[e.key])
  <2>1. e.key # x.key /\ e.data # x.data
    BY <1>1 DEF KeysApart
  <2> QED
    BY <1>1, <1>2, <1>3, <2>1
<1>6. ASSUME NEW j \in Keys, \A e \in E \ {x} : e.key # j PROVE kn2[j] = M!Unset
  BY <1>1, <1>3, <1>6
<1> QED
  BY ONLY <1>3, <1>4, <1>5, <1>6 DEF Store

(* Metadata: the entries are in their buckets, with blocks of their own    *)
(* which are all that live, and keep what is known.                        *)
MetaInv ==
    /\ HeapGood(record) /\ TableOf(table, MetaOf)
    /\ Places(record.live, EntriesOf(table), typed)
    /\ Store(EntriesOf(table), typed, known)

(* What is stored is still there once memory has run out for the node of   *)
(* an entry: the owned blocks belong to the entries, and others leak.      *)
MetaLeft ==
    /\ TableOf(table, MetaOf) /\ Store(EntriesOf(table), typed, known)
    /\ \E owned : Places(owned, EntriesOf(table), typed)

LEMMA MetaSet ==
    ASSUME MetaInv, NEW key \in Keys, NEW type \in M!Types, NEW value, M!setData(key, type, value)
    PROVE  MetaInv'
<1> DEFINE E == EntriesOf(table)
           old == M!rt_hash_table_find(key)
           h1 == IF old = Nothing THEN M!rt_mem_malloc(record, M!SizeOf["typed_data"]) ELSE record
           b == IF old = Nothing THEN M!Block(record) ELSE old
           h2 == IF old = Nothing THEN M!rt_mem_malloc(h1, M!SizeOf["node"]) ELSE h1
           r == M!typed_setData(h2, b, type, value)
           k == [type |-> type, value |-> value,
                 lost |-> M!SizeOf[type] > M!Reservoir /\ r.item.ext = Nothing]
<1>1. /\ old = Nothing => M!Block(record) # Nothing /\ M!Block(h1) # Nothing
      /\ record' = r.heap /\ typed' = [typed EXCEPT ![b] = r.item]
      /\ table' = IF old = Nothing THEN M!rt_hash_table_insert(key, b, M!Block(h1)) ELSE table
      /\ known' = [known EXCEPT ![key] = k]
  BY DEF M!setData
<1>2. HeapGood(record) /\ TableOf(table, MetaOf) /\ Places(record.live, E, typed) /\ Store(E, typed, known)
  BY DEF MetaInv
<1>3. KeysApart(E)
  BY <1>2 DEF Store
<1> HIDE DEF E
<1>4. /\ typed = [y \in Blocks |-> typed[y]] /\ \A y \in Blocks : Fits(typed[y])
      /\ \A e, f \in E : e.data = f.data => e = f
      /\ \A e \in E : e.key \in Keys /\ e.data \in Blocks /\ e.data \in record.live
  BY <1>2, PlacesFacts
<1>5. CASE \E e \in E : e.key = key
  <2>1. PICK e \in E : e.key = key
    BY <1>5
  <2>2. old = e.data /\ old # Nothing
    <3>1. M!Position(key) # 0 /\ table[M!Bucket(key)][M!Position(key)] = e
      BY <1>2, <1>3, <2>1, Found DEF E
    <3> QED
      BY <1>4, <3>1, BlocksAre DEF M!rt_hash_table_find, M!Chain
  <2>3. h2 = record /\ b = e.data /\ table' = table
    BY <1>1, <2>2
  <2> HIDE DEF old, h1, h2, b
  <2> DEFINE g == r.heap
             item == r.item
  <2>4. HeapGood(h2) /\ Fits(typed[b])
    BY <1>2, <1>4, <2>3
  <2>5. /\ HeapGood(g) /\ Fits(item) /\ Kept(item, k)
        /\ item.ext \notin h2.live \ {typed[b].ext}
        /\ g.live = (h2.live \ {typed[b].ext}) \cup ({item.ext} \ {Nothing})
    BY ONLY <2>4, type \in M!Types, SetItem
  <2>6. record' = g /\ typed' = [typed EXCEPT ![e.data] = item] /\ known' = [known EXCEPT ![e.key] = k]
    BY <1>1, <2>1, <2>3
  <2> HIDE DEF g, item, k
  <2>7. Places((record.live \ {typed[e.data].ext}) \cup ({item.ext} \ {Nothing}), E, typed')
    BY <1>2, <2>3, <2>5, <2>6, PlacesSwap
  <2>8. Places(record'.live, E, typed')
    BY <2>3, <2>5, <2>6, <2>7
  <2>9. E \cup {e} = E
    OBVIOUS
  <2>10. Store(E \cup {e}, typed', known')
    <3>1. \A f \in E : (f.key = e.key => f = e) /\ (f.data = e.data => f = e)
      BY <1>3, <1>4 DEF KeysApart
    <3>2. \A f \in E : f.key \in Keys /\ f.data \in Blocks
      BY <1>4
    <3>3. typed = [y \in Blocks |-> typed[y]]
      BY <1>4
    <3> QED
      BY ONLY <1>2, <2>5, <2>6, <3>1, <3>2, <3>3, e \in E, StoreSet
  <2>11. EntriesOf(table') = E /\ TableOf(table', MetaOf)
    BY <1>2, <2>3 DEF E
  <2> QED
    BY <2>5, <2>6, <2>8, <2>9, <2>10, <2>11 DEF MetaInv
<1>6. CASE ~ \E e \in E : e.key = key
  <2> DEFINE n == M!Block(h1)
             x == [key |-> key, data |-> b, node |-> n]
             F == E \cup {x}
  <2>1. old = Nothing
    <3>1. M!Position(key) = 0
      BY <1>2, <1>3, <1>6, Found DEF E
    <3> QED
      BY <3>1 DEF M!rt_hash_table_find
  <2>2. b = M!Block(record) /\ h1 = M!rt_mem_malloc(record, 3) /\ h2 = M!rt_mem_malloc(h1, 3)
    BY <2>1, SizesAre
  <2>3. b # Nothing /\ n # Nothing
    BY <1>1, <2>1
  <2>4. table' = [table EXCEPT ![M!Bucket(key)] = <<x>> \o @]
    BY <1>1, <2>1 DEF M!rt_hash_table_insert
  <2>5. record' = r.heap /\ typed' = [typed EXCEPT ![b] = r.item] /\ known' = [known EXCEPT ![key] = k]
    BY <1>1
  <2> HIDE DEF old, b, h1, h2
  <2>6. b \in Blocks \ record.live /\ HeapGood(h1) /\ h1.live = record.live \cup {b}
    BY <1>2, <2>2, <2>3, MallocKeeps
  <2>7. n \in Blocks \ h1.live /\ HeapGood(h2) /\ h2.live = h1.live \cup {n}
    BY <2>2, <2>3, <2>6, MallocKeeps
  <2> HIDE DEF n
  <2>8. x \in MetaOf /\ x.data = b /\ x.node = n /\ x.key = key /\ b # n /\ b \notin record.live /\ n \notin record.live
        /\ b \in Blocks
    BY <2>6, <2>7 DEF MetaOf
  <2> HIDE DEF x
  <2>9. Places(record.live \cup {b, n}, F, typed) /\ typed[b] = M!Emptied
    BY <1>2, <2>8, PlacesPut
  <2>10. h2.live = record.live \cup {b, n}
    BY <2>6, <2>7
  <2> DEFINE g == r.heap
             item == r.item
  <2>11. Fits(typed[b])
    BY <2>9, EmptiedIs
  <2>12. /\ HeapGood(g) /\ Fits(item) /\ Kept(item, k)
         /\ item.ext \notin h2.live \ {typed[b].ext}
         /\ g.live = (h2.live \ {typed[b].ext}) \cup ({item.ext} \ {Nothing})
    BY ONLY <2>7, <2>11, type \in M!Types, SetItem
  <2> HIDE DEF g, item, k
  <2>13. record' = g /\ typed' = [typed EXCEPT ![x.data] = item] /\ known' = [known EXCEPT ![x.key] = k]
    BY <2>5, <2>8 DEF g, item
  <2>14. Places((h2.live \ {typed[x.data].ext}) \cup ({item.ext} \ {Nothing}), F, typed')
    <3>1. Places(h2.live, F, typed) /\ x \in F
      BY <2>9, <2>10
    <3>2. item.ext \notin h2.live \ {typed[x.data].ext}
      BY <2>8, <2>12
    <3> HIDE DEF F
    <3> QED
      BY ONLY <2>12, <2>13, <3>1, <3>2, PlacesSwap
  <2>15. Places(record'.live, F, typed')
    BY <2>8, <2>12, <2>13, <2>14
  <2>16. Store(F, typed', known')
    <3>1. \A f \in E : (f.key = x.key => f = x) /\ (f.data = x.data => f = x)
      BY <1>4, <1>6, <2>8
    <3>2. \A f \in E : f.key \in Keys /\ f.data \in Blocks
      BY <1>4
    <3>3. typed = [y \in Blocks |-> typed[y]] /\ x.key \in Keys /\ x.data \in Blocks
      BY <1>4, <2>8
    <3> QED
      BY ONLY <1>2, <2>12, <2>13, <3>1, <3>2, <3>3, StoreSet
  <2>17. EntriesOf(table') = F /\ TableOf(table', MetaOf)
    <3>1. \A e \in E : e.node # x.node
      BY <1>2, <2>8, PlacesFacts
    <3>2. table' = [table EXCEPT ![M!Bucket(x.key)] = <<x>> \o @] /\ x.key \in Keys
      BY <2>4, <2>8
    <3>3. \A e \in EntriesOf(table) : e.node # x.node
      BY <3>1 DEF E
    <3>4. TableOf(table', MetaOf) /\ EntriesOf(table') = EntriesOf(table) \cup {x}
      <4> DEFINE u == table'
      <4>1. u = WithFirst(table, x) /\ x.key \in Keys /\ x \in MetaOf
        BY <2>8, <3>2 DEF WithFirst
      <4>2. TableOf(table, MetaOf)
        BY <1>2
      <4> HIDE DEF u
      <4>3. TableOf(u, MetaOf) /\ EntriesOf(u) = EntriesOf(table) \cup {x}
        BY ONLY <3>3, <4>1, <4>2, TablePut
      <4> QED
        BY <4>3 DEF u
    <3> QED
      BY <3>4 DEF E
  <2> HIDE DEF F
  <2> QED
    BY <2>12, <2>13, <2>15, <2>16, <2>17 DEF MetaInv
<1> QED
  BY <1>5, <1>6

LEMMA MetaRemove ==
    ASSUME MetaInv, NEW key \in Keys, M!remove(key)
    PROVE  MetaInv'
<1> DEFINE E == EntriesOf(table)
           b == M!rt_hash_table_find(key)
           h == M!freeStorage(record, typed[b])
           g == M!rt_mem_free(h, b)
           d == M!rt_mem_free(g, b)
           bk == M!Bucket(key)
           i == M!Position(key)
           u == table'
<1>1. /\ b # Nothing /\ record' = M!rt_mem_free(d, table[bk][i].node)
      /\ typed' = [typed EXCEPT ![b] = M!Emptied]
      /\ u = [table EXCEPT ![bk] = M!CutAt(@, i)] /\ known' = [known EXCEPT ![key] = M!Unset]
  BY DEF M!remove, M!Chain, M!rt_hash_table_remove
<1>2. HeapGood(record) /\ TableOf(table, MetaOf) /\ Places(record.live, E, typed) /\ Store(E, typed, known)
  BY DEF MetaInv
<1>3. KeysApart(E)
  BY <1>2 DEF Store
<1>4. b = IF i = 0 THEN Nothing ELSE table[bk][i].data
  BY DEF M!rt_hash_table_find, M!Chain
<1> HIDE DEF b, i, u
<1>5. (\A e \in E : e.key = key => i \in 1..Len(table[bk]) /\ table[bk][i] = e)
      /\ ((\A e \in E : e.key # key) => i = 0)
  BY <1>2, <1>3, Found DEF i
<1> HIDE DEF E
<1>6. PICK e \in E : e.key = key
  BY <1>1, <1>4, <1>5
<1>7. i \in 1..Len(table[bk]) /\ table[bk][i] = e
  BY <1>5, <1>6
<1>8. b = e.data
  BY <1>1, <1>4, <1>7
<1>9. /\ typed = [y \in Blocks |-> typed[y]] /\ \A y \in Blocks : Fits(typed[y])
      /\ \A f \in E : f.data = e.data => f = e
      /\ \A f \in E : f.key \in Keys /\ f.data \in Blocks /\ f.node \in Blocks
  BY <1>2, PlacesFacts
<1>10. HeapGood(h) /\ h.live = record.live \ {typed[e.data].ext}
  BY <1>2, <1>8, <1>9, FreeStorage
<1> HIDE DEF h
<1>11. HeapGood(g) /\ g.live = h.live \ {e.data}
  BY <1>8, <1>9, <1>10, FreeKeeps
<1> HIDE DEF g
<1>12. HeapGood(d) /\ d.live = g.live \ {e.data}
  BY <1>8, <1>9, <1>11, FreeKeeps
<1> HIDE DEF d
<1>13. HeapGood(record') /\ record'.live = d.live \ {e.node}
  BY <1>1, <1>7, <1>9, <1>12, FreeKeeps
<1>14. record'.live = ((record.live \ {typed[e.data].ext}) \ {e.data}) \ {e.node}
  BY <1>10, <1>11, <1>12, <1>13
<1>15. typed' = [typed EXCEPT ![e.data] = M!Emptied] /\ known' = [known EXCEPT ![e.key] = M!Unset]
  BY <1>1, <1>6, <1>8
<1>16. Places(record'.live, E \ {e}, typed')
  <2> DEFINE ty2 == typed'
  <2>1. ty2 = [typed EXCEPT ![e.data] = M!Emptied]
    BY <1>15
  <2> HIDE DEF ty2
  <2>2. Places(((record.live \ {typed[e.data].ext}) \ {e.data}) \ {e.node}, E \ {e}, ty2)
    BY ONLY <1>2, <2>1, e \in E, PlacesCut
  <2> QED
    BY <1>14, <2>2 DEF ty2
<1>17. Store(E \ {e}, typed', known')
  BY <1>2, <1>9, <1>15, StoreCut
<1>18. TableOf(u, MetaOf) /\ EntriesOf(u) = E \ {e}
  <2>1. bk \in BucketIds
    BY BucketOf
  <2>2. EntriesOf(u) = EntriesOf(table) \ {table[bk][i]} /\ TableOf(u, MetaOf)
    <3>1. TableOf(table, MetaOf) /\ u = WithoutAt(table, bk, i)
      BY <1>1, <1>2 DEF WithoutAt
    <3> HIDE DEF bk
    <3> QED
      BY ONLY <1>7, <2>1, <3>1, TableCut
  <2> QED
    BY <1>7, <2>2 DEF E
<1> QED
  BY <1>13, <1>16, <1>17, <1>18 DEF MetaInv, u

LEMMA MetaDenied ==
    ASSUME MetaInv, NEW key \in Keys, M!SetDenied(key)
    PROVE  MetaLeft' /\ HeapGood(record') /\ record'.live = Blocks
<1>1. HeapGood(record) /\ TableOf(table, MetaOf) /\ Places(record.live, EntriesOf(table), typed)
      /\ Store(EntriesOf(table), typed, known)
  BY DEF MetaInv
<1>2. /\ M!Block(record) # Nothing /\ record' = M!rt_mem_malloc(record, 3) /\ M!Block(record') = Nothing
      /\ table' = table /\ typed' = typed /\ known' = known
  BY SizesAre DEF M!SetDenied
<1>3. HeapGood(record')
  BY <1>1, <1>2, MallocKeeps
<1> QED
  BY <1>1, <1>2, <1>3, BlockIs DEF MetaLeft, HeapGood

LEMMA MetaClear ==
    ASSUME MetaInv, M!clear
    PROVE  MetaInv'
<1> DEFINE E == EntriesOf(table)
           items == {e.data : e \in E}
           exts == {typed[b].ext : b \in items}
           nodes == {e.node : e \in E}
           h == M!FreeAll(record, items \cup exts)
           u == table'
<1>1. HeapGood(record) /\ TableOf(table, MetaOf) /\ Places(record.live, E, typed)
  BY DEF MetaInv
<1>2. M!Entries = E
  BY <1>1, EntriesAre
<1> HIDE DEF E
<1>3. record' = M!FreeAll(h, nodes)
  BY <1>2 DEF M!clear, M!rt_hash_table_clear
<1>4. typed' = [b \in Blocks |-> M!Emptied] /\ u = [b \in DOMAIN table |-> <<>>] /\ known' = [k \in Keys |-> M!Unset]
  BY DEF M!clear
<1>5. HeapGood(h) /\ h.live = record.live \ (items \cup exts)
  BY <1>1, FreeAllKeeps
<1> HIDE DEF h
<1>6. HeapGood(record') /\ record'.live = h.live \ nodes
  BY <1>3, <1>5, FreeAllKeeps
<1>7. record'.live = {}
  <2>1. ASSUME NEW b \in record.live PROVE b \in items \cup exts \/ b \in nodes
    <3>1. record.live = OwnedBy(E, typed)
      BY <1>1, PlacesFacts
    <3>2. PICK e \in E : b = e.node \/ b = e.data \/ (b = typed[e.data].ext /\ b # Nothing)
      BY <2>1, <3>1, OwnedIs
    <3>3. e.data \in items
      OBVIOUS
    <3> QED
      BY <3>2, <3>3
  <2> QED
    BY <1>5, <1>6, <2>1
<1>8. DOMAIN table = BucketIds
  BY <1>1 DEF TableOf
<1>9. TableOf(u, MetaOf) /\ EntriesOf(u) = {}
  BY <1>4, <1>8, TableEmpty
<1>10. Places({}, {}, typed')
  BY <1>4, PlacesNone
<1>11. Store({}, typed', known')
  BY <1>4 DEF Store, KeysApart
<1> HIDE DEF u
<1> QED
  BY <1>6, <1>7, <1>9, <1>10, <1>11 DEF MetaInv, u

(* The persistent objects: the blocks S of the entries E, two of each and  *)
(* none twice; a name is in a bucket once, and an object in one entry.     *)
ObjectOf == [key : Keys, data : [uuid : Uuids, object : Objects, item : Blocks], node : Blocks]
Registered(S, E) ==
    /\ E \subseteq ObjectOf
    /\ \A e, f \in E : (e.node = f.node => e = f) /\ (e.data.item = f.data.item => e = f) /\ e.data.item # f.node
    /\ S = {e.node : e \in E} \cup {e.data.item : e \in E}
NamedOnce(E) == \A e, f \in E : e.data.uuid = f.data.uuid /\ M!Bucket(e.key) = M!Bucket(f.key) => e = f
Holds(E, g) ==
    /\ g = [held |-> g.held, freed |-> g.freed] /\ g.held \cap g.freed = {}
    /\ \A e, f \in E : e.data.object = f.data.object => e = f
    /\ g.held = {e.data.object : e \in E}

PersistInv ==
    /\ HeapGood(record) /\ TableOf(table, ObjectOf)
    /\ Registered(record.live, EntriesOf(table))
    /\ NamedOnce(EntriesOf(table)) /\ Holds(EntriesOf(table), given)

PersistLeft ==
    /\ TableOf(table, ObjectOf) /\ NamedOnce(EntriesOf(table)) /\ Holds(EntriesOf(table), given)
    /\ \E owned : Registered(owned, EntriesOf(table))

(* A name is found in the bucket of a key if an entry there has it, and    *)
(* the entry is that one.                                                  *)
LEMMA FoundByName ==
    ASSUME NEW S, TableOf(table, S), NamedOnce(EntriesOf(table)), NEW u, NEW k \in Keys
    PROVE  /\ M!WithUuid(u, k) # {} =>
                 /\ M!Least(M!WithUuid(u, k)) \in 1..Len(table[M!Bucket(k)])
                 /\ table[M!Bucket(k)][M!Least(M!WithUuid(u, k))] \in EntriesOf(table)
           /\ \A e \in EntriesOf(table) : e.data.uuid = u /\ M!Bucket(e.key) = M!Bucket(k) =>
                 M!WithUuid(u, k) # {} /\ table[M!Bucket(k)][M!Least(M!WithUuid(u, k))] = e
<1> DEFINE b == M!Bucket(k)
           s == table[b]
           hit == M!WithUuid(u, k)
           i == M!Least(hit)
<1>1. b \in BucketIds
  BY BucketOf
<1>2. s \in Seq(S) /\ DOMAIN s = 1..Len(s)
  BY <1>1 DEF TableOf
<1>3. hit = {j \in 1..Len(s) : s[j].data.uuid = u}
  BY <1>2 DEF M!WithUuid, M!Chain
<1> HIDE DEF hit
<1>4. \A j \in hit : j \in 1..Len(s) /\ s[j] \in EntriesOf(table) /\ s[j].data.uuid = u /\ M!Bucket(s[j].key) = b
  <2>1. \A j \in hit : j \in 1..Len(s) /\ s[j].data.uuid = u
    BY <1>3
  <2>2. \A j \in 1..Len(s) : s[j] \in EntriesOf(table)
    BY <1>1, EntryAt
  <2>3. \A j \in 1..Len(s) : M!Bucket(s[j].key) = b
    BY <1>1 DEF TableOf, InPlace
  <2> QED
    BY <2>1, <2>2, <2>3
<1>5. hit # {} => i \in hit
  <2>1. hit \in SUBSET Nat
    BY <1>3
  <2> QED
    BY <2>1, LeastIn
<1>6. ASSUME NEW e \in EntriesOf(table), e.data.uuid = u, M!Bucket(e.key) = b
      PROVE  hit # {} /\ s[i] = e
  <2>0. \E c \in BucketIds : \E j \in 1..Len(table[c]) : e = table[c][j]
    BY ONLY <1>6, EntryAt
  <2>1. PICK c \in BucketIds, j \in Nat : j \in 1..Len(table[c]) /\ e = table[c][j]
    BY ONLY <2>0
  <2>2. c = b
    BY <1>6, <2>1 DEF TableOf, InPlace
  <2>3. j \in hit
    BY <1>3, <1>6, <2>1, <2>2
  <2> HIDE DEF i
  <2>4. s[i] \in EntriesOf(table) /\ s[i].data.uuid = u /\ M!Bucket(s[i].key) = b
    BY <1>4, <1>5, <2>3
  <2> QED
    BY <1>6, <2>3, <2>4 DEF NamedOnce
<1> HIDE DEF i
<1>7. hit # {} => i \in 1..Len(s) /\ s[i] \in EntriesOf(table)
  BY <1>4, <1>5
<1> QED
  BY <1>6, <1>7 DEF hit, i

LEMMA PersistRegister ==
    ASSUME PersistInv, NEW uuid \in Uuids, NEW key \in Keys, NEW object \in Objects,
           M!persist_object_register(uuid, key, object)
    PROVE  PersistInv'
<1> DEFINE E == EntriesOf(table)
<1>1. HeapGood(record) /\ TableOf(table, ObjectOf) /\ Registered(record.live, E) /\ NamedOnce(E) /\ Holds(E, given)
  BY DEF PersistInv
<1>2. object \notin given.held \cup given.freed
  BY DEF M!persist_object_register
<1>3. CASE M!WithUuid(uuid, key) # {}
  <2>1. record' = record /\ table' = table /\ given' = given
    BY <1>3 DEF M!persist_object_register
  <2> QED
    BY <1>1, <2>1 DEF PersistInv
<1>4. CASE M!WithUuid(uuid, key) = {}
  <2> DEFINE b == M!Block(record)
             h == M!rt_mem_malloc(record, 3)
             n == M!Block(h)
             g == M!rt_mem_malloc(h, 3)
             x == [key |-> key, data |-> [uuid |-> uuid, object |-> object, item |-> b], node |-> n]
             u == table'
             own == given'
             F == E \cup {x}
  <2>1. record' = g
    BY <1>4, SizesAre DEF M!persist_object_register
  <2>2. u = WithFirst(table, x)
    BY <1>4, SizesAre DEF M!persist_object_register, M!rt_hash_table_insert, WithFirst
  <2>3. own = [given EXCEPT !.held = @ \cup {object}]
    BY <1>4 DEF M!persist_object_register
  <2>4. b # Nothing /\ n # Nothing
    BY <1>4, SizesAre DEF M!persist_object_register
  <2>5. b \in Blocks \ record.live /\ HeapGood(h) /\ h.live = record.live \cup {b}
    BY <1>1, <2>4, MallocKeeps
  <2> HIDE DEF b, h
  <2>6. n \in Blocks \ h.live /\ HeapGood(g) /\ g.live = h.live \cup {n}
    BY <2>4, <2>5, MallocKeeps
  <2> HIDE DEF n, g, E, u, own
  <2>7. /\ x \in ObjectOf /\ x.key = key /\ x.data.uuid = uuid /\ x.data.object = object
        /\ x.data.item = b /\ x.node = n
    BY <2>5, <2>6 DEF ObjectOf
  <2> HIDE DEF x
  <2>8. E \subseteq ObjectOf /\ \A e \in E : e.node \in record.live /\ e.data.item \in record.live
    BY <1>1 DEF Registered
  <2>9. \A e \in E : e.node # x.node /\ e.data.item # x.node /\ e.node # x.data.item /\ e.data.item # x.data.item
    BY <2>5, <2>6, <2>7, <2>8
  <2>10. x.data.item # x.node
    BY <2>5, <2>6, <2>7
  <2>11. Registered(g.live, F)
    <3>1. g.live = record.live \cup {x.node, x.data.item}
      BY <2>5, <2>6, <2>7
    <3>2. g.live = {e.node : e \in F} \cup {e.data.item : e \in F}
      BY <1>1, <3>1 DEF Registered
    <3>3. \A e, f \in F : (e.node = f.node => e = f) /\ (e.data.item = f.data.item => e = f) /\ e.data.item # f.node
      BY <1>1, <2>9, <2>10 DEF Registered
    <3> QED
      BY <2>7, <2>8, <3>2, <3>3 DEF Registered
  <2>12. NamedOnce(F)
    <3>1. \A e \in E : ~(e.data.uuid = x.data.uuid /\ M!Bucket(e.key) = M!Bucket(x.key))
      BY <1>1, <1>4, <2>7, FoundByName DEF E
    <3> QED
      BY <1>1, <3>1 DEF NamedOnce
  <2>13. Holds(F, own)
    <3>1. /\ given = [held |-> given.held, freed |-> given.freed] /\ given.held \cap given.freed = {}
          /\ \A e, f \in E : e.data.object = f.data.object => e = f
          /\ given.held = {e.data.object : e \in E}
      BY <1>1 DEF Holds
    <3>2. own = [held |-> given.held \cup {object}, freed |-> given.freed]
      BY <2>3, <3>1
    <3>3. own.held = given.held \cup {object} /\ own.freed = given.freed
      BY <3>2
    <3>4. own.held = {e.data.object : e \in F}
      BY <2>7, <3>1, <3>3
    <3>5. \A e \in E : e.data.object # x.data.object
      BY <1>2, <2>7, <3>1
    <3>6. \A e, f \in F : e.data.object = f.data.object => e = f
      BY <3>1, <3>5
    <3>7. own.held \cap own.freed = {}
      BY <1>2, <3>1, <3>3
    <3> QED
      BY ONLY <3>2, <3>3, <3>4, <3>6, <3>7 DEF Holds
  <2>14. TableOf(u, ObjectOf) /\ EntriesOf(u) = F
    <3>1. \A e \in EntriesOf(table) : e.node # x.node
      BY <2>9 DEF E
    <3>2. TableOf(table, ObjectOf) /\ x \in ObjectOf /\ x.key \in Keys
      BY <1>1, <2>7
    <3>3. TableOf(u, ObjectOf) /\ EntriesOf(u) = EntriesOf(table) \cup {x}
      BY ONLY <2>2, <3>1, <3>2, TablePut
    <3> QED
      BY <3>3 DEF E
  <2> HIDE DEF F
  <2> QED
    BY <2>1, <2>6, <2>11, <2>12, <2>13, <2>14 DEF PersistInv, u, own
<1> QED
  BY <1>3, <1>4

LEMMA PersistDenied ==
    ASSUME PersistInv, NEW uuid \in Uuids, NEW key \in Keys, M!RegisterDenied(uuid, key)
    PROVE  PersistLeft' /\ HeapGood(record') /\ record'.live = Blocks
<1>1. HeapGood(record) /\ TableOf(table, ObjectOf) /\ Registered(record.live, EntriesOf(table))
      /\ NamedOnce(EntriesOf(table)) /\ Holds(EntriesOf(table), given)
  BY DEF PersistInv
<1>2. /\ record' = M!rt_mem_malloc(record, 3) /\ M!Block(record') = Nothing
      /\ table' = table /\ given' = given
  BY SizesAre DEF M!RegisterDenied
<1>3. HeapGood(record')
  <2>1. CASE M!Block(record) = Nothing
    BY <1>1, <1>2, <2>1 DEF M!rt_mem_malloc
  <2>2. CASE M!Block(record) # Nothing
    BY <1>1, <1>2, <2>2, MallocKeeps
  <2> QED
    BY <2>1, <2>2
<1> QED
  BY <1>1, <1>2, <1>3, BlockIs DEF PersistLeft, HeapGood

LEMMA PersistDelete ==
    ASSUME PersistInv, NEW uuid \in Uuids, NEW key \in Keys, M!persist_object_delete(uuid, key)
    PROVE  PersistInv'
<1> DEFINE E == EntriesOf(table)
           b == M!Bucket(key)
           i == M!Least(M!WithUuid(uuid, key))
           x == table[b][i]
           h == M!rt_mem_free(record, x.data.item)
           u == table'
           own == given'
           F == E \ {x}
<1>1. HeapGood(record) /\ TableOf(table, ObjectOf) /\ Registered(record.live, E) /\ NamedOnce(E) /\ Holds(E, given)
  BY DEF PersistInv
<1>2. M!WithUuid(uuid, key) # {} /\ u = WithoutAt(table, b, i) /\ record' = M!rt_mem_free(h, x.node)
      /\ own = [held |-> given.held \ {x.data.object}, freed |-> given.freed \cup {x.data.object}]
  BY DEF M!persist_object_delete, M!Chain, WithoutAt
<1>3. b \in BucketIds
  BY BucketOf
<1>4. i \in 1..Len(table[b]) /\ x \in E
  BY <1>1, <1>2, FoundByName
<1> HIDE DEF i, b
<1>5. TableOf(u, ObjectOf) /\ EntriesOf(u) = F
  <2>1. TableOf(table, ObjectOf) /\ u = WithoutAt(table, b, i)
    BY <1>1, <1>2
  <2> HIDE DEF u
  <2> QED
    BY ONLY <1>3, <1>4, <2>1, TableCut
<1> HIDE DEF E, x, u, own
<1>6. E \subseteq ObjectOf /\ x \in ObjectOf /\ x.node \in Blocks /\ x.data.item \in Blocks
  <2>1. E \subseteq ObjectOf /\ x \in ObjectOf
    BY <1>1, <1>4 DEF Registered
  <2> QED
    BY <2>1 DEF ObjectOf
<1>7. HeapGood(h) /\ h.live = record.live \ {x.data.item}
  BY <1>1, <1>6, FreeKeeps
<1> HIDE DEF h
<1>8. HeapGood(record') /\ record'.live = (record.live \ {x.data.item}) \ {x.node}
  BY <1>2, <1>6, <1>7, FreeKeeps
<1>9. Registered(record'.live, F)
  <2>1. \A e, f \in E : (e.node = f.node => e = f) /\ (e.data.item = f.data.item => e = f) /\ e.data.item # f.node
    BY <1>1 DEF Registered
  <2>2. record.live = {e.node : e \in E} \cup {e.data.item : e \in E}
    BY <1>1 DEF Registered
  <2>3. record'.live = {e.node : e \in F} \cup {e.data.item : e \in F}
    BY <1>4, <1>8, <2>1, <2>2
  <2> QED
    BY <1>6, <2>1, <2>3 DEF Registered
<1>10. NamedOnce(F)
  BY <1>1 DEF NamedOnce
<1>11. Holds(F, own)
  <2>1. /\ given.held \cap given.freed = {}
        /\ \A e, f \in E : e.data.object = f.data.object => e = f
        /\ given.held = {e.data.object : e \in E}
    BY <1>1 DEF Holds
  <2>2. own.held = given.held \ {x.data.object} /\ own.freed = given.freed \cup {x.data.object}
        /\ own = [held |-> own.held, freed |-> own.freed]
    BY <1>2
  <2>3. own.held = {e.data.object : e \in F}
    BY <1>4, <2>1, <2>2
  <2>4. own.held \cap own.freed = {}
    BY <2>1, <2>2
  <2> QED
    BY <2>1, <2>2, <2>3, <2>4 DEF Holds
<1> HIDE DEF F
<1> QED
  BY <1>5, <1>8, <1>9, <1>10, <1>11 DEF PersistInv, u, own

-----------------------------------------------------------------------------
(* The three users of the heap.                                            *)
MemoryInv ==
    /\ user \in {"raw", "meta", "persist"} /\ crashed \in BOOLEAN /\ HeapGood(record)
    /\ user = "meta" => MetaLeft /\ (~crashed => MetaInv)
    /\ user = "persist" => PersistLeft /\ (~crashed => PersistInv)
    /\ crashed => record.live = Blocks /\ user # "raw"

LEMMA MemoryStart == ASSUME M!Init PROVE MemoryInv
<1>1. HeapGood(record) /\ record.live = {}
  BY HeapStart
<1>2. /\ user \in {"raw", "meta", "persist"} /\ table = [b \in BucketIds |-> <<>>]
      /\ typed = [b \in Blocks |-> M!Emptied] /\ known = [k \in Keys |-> M!Unset]
      /\ given = [held |-> {}, freed |-> {}] /\ crashed = FALSE
  BY DEF M!Init, BucketIds
<1>3. TableOf(table, MetaOf) /\ TableOf(table, ObjectOf) /\ EntriesOf(table) = {}
  BY <1>2, TableEmpty
<1>4. Places(record.live, EntriesOf(table), typed)
  BY <1>1, <1>2, <1>3, PlacesNone
<1>5. Store({}, typed, known)
  BY <1>2 DEF Store, KeysApart
<1>6. Registered(record.live, EntriesOf(table)) /\ NamedOnce(EntriesOf(table)) /\ Holds(EntriesOf(table), given)
  BY <1>1, <1>2, <1>3 DEF Registered, NamedOnce, Holds
<1> QED
  BY <1>1, <1>2, <1>3, <1>4, <1>5, <1>6 DEF MemoryInv, MetaInv, PersistInv, MetaLeft, PersistLeft

LEMMA RawKeeps == ASSUME MemoryInv, M!RawStep PROVE MemoryInv'
<1>1. user = "raw" /\ user' = "raw" /\ HeapGood(record) /\ crashed = FALSE /\ crashed' = FALSE
  BY DEF M!RawStep, MemoryInv, M!RawMalloc, M!RawFree, M!RawRealloc
<1>2. M!SizeOf["zero"] \in Nat /\ \A t \in {"zero", "int32", "int64", "node"} : M!SizeOf[t] \in Nat
  BY DEF M!SizeOf
<1>3. ASSUME NEW t \in {"zero", "int32", "int64"}, M!RawMalloc(M!SizeOf[t]) PROVE HeapGood(record')
  <2>1. record' = M!rt_mem_malloc(record, M!SizeOf[t]) /\ record.live # Blocks
    BY <1>3 DEF M!RawMalloc
  <2>2. M!Block(record) # Nothing
    BY <1>1, <2>1, BlockIs DEF HeapGood
  <2> QED
    BY <1>1, <1>2, <2>1, <2>2, MallocKeeps
<1>4. ASSUME NEW b \in Blocks, M!RawFree(b) PROVE HeapGood(record')
  <2>1. record' = M!rt_mem_free(record, b)
    BY <1>4 DEF M!RawFree
  <2> QED
    BY <1>1, <2>1, FreeKeeps
<1>5. ASSUME NEW b \in Blocks, NEW to \in Blocks \cup {Nothing}, NEW t \in {"zero", "int32", "node"},
             M!RawRealloc(b, to, M!SizeOf[t])
      PROVE  HeapGood(record')
  <2>1. record' = M!rt_mem_realloc(record, b, to, M!SizeOf[t]) /\ b \in record.live /\ to \notin record.live \ {b}
    BY <1>5, BlocksAre, <1>1 DEF M!RawRealloc, HeapGood
  <2> QED
    BY <1>1, <1>2, <2>1, ReallocKeeps
<1>6. HeapGood(record')
  BY <1>3, <1>4, <1>5 DEF M!RawStep
<1> QED
  BY <1>1, <1>6 DEF MemoryInv

LEMMA MetaKeeps == ASSUME MemoryInv, M!MetaStep PROVE MemoryInv'
<1>1. user = "meta" /\ user' = "meta" /\ crashed = FALSE /\ MetaInv
  BY DEF M!MetaStep, MemoryInv
<1>2. CASE \E k \in Keys : M!SetDenied(k)
  <2>1. crashed' = TRUE
    BY <1>2 DEF M!SetDenied
  <2>2. MetaLeft' /\ HeapGood(record') /\ record'.live = Blocks
    BY <1>1, <1>2, MetaDenied
  <2> QED
    BY <1>1, <2>1, <2>2 DEF MemoryInv
<1>3. CASE ~ \E k \in Keys : M!SetDenied(k)
  <2>1. crashed' = FALSE
    BY <1>1, <1>3 DEF M!MetaStep, M!setData, M!remove, M!clear
  <2>2. MetaInv'
    BY <1>1, <1>3, MetaSet, MetaRemove, MetaClear DEF M!MetaStep
  <2>3. MetaLeft' /\ HeapGood(record')
    BY <2>2 DEF MetaInv, MetaLeft
  <2> QED
    BY <1>1, <2>1, <2>2, <2>3 DEF MemoryInv
<1> QED
  BY <1>2, <1>3

LEMMA PersistKeeps == ASSUME MemoryInv, M!PersistStep PROVE MemoryInv'
<1>1. user = "persist" /\ user' = "persist" /\ crashed = FALSE /\ PersistInv
  BY DEF M!PersistStep, MemoryInv
<1>2. CASE \E u \in Uuids : \E k \in Keys : M!RegisterDenied(u, k)
  <2>1. crashed' = TRUE
    BY <1>2 DEF M!RegisterDenied
  <2>2. PersistLeft' /\ HeapGood(record') /\ record'.live = Blocks
    BY <1>1, <1>2, PersistDenied
  <2> QED
    BY <1>1, <2>1, <2>2 DEF MemoryInv
<1>3. CASE ~ \E u \in Uuids : \E k \in Keys : M!RegisterDenied(u, k)
  <2>1. crashed' = FALSE
    BY <1>1, <1>3 DEF M!PersistStep, M!persist_object_register, M!persist_object_delete
  <2>2. PersistInv'
    BY <1>1, <1>3, PersistRegister, PersistDelete DEF M!PersistStep
  <2>3. PersistLeft' /\ HeapGood(record')
    BY <2>2 DEF PersistInv, PersistLeft
  <2> QED
    BY <1>1, <2>1, <2>2, <2>3 DEF MemoryInv
<1> QED
  BY <1>2, <1>3

LEMMA MemoryStays == ASSUME MemoryInv, UNCHANGED memoryVars PROVE MemoryInv'
BY DEF MemoryInv, MetaInv, PersistInv, MetaLeft, PersistLeft, memoryVars

(* What the invariant means to the users: no block leaks while there is    *)
(* memory for what the code does not ask, and the record agrees with the   *)
(* heap.                                                                   *)
LEMMA OwnedAre == ASSUME MemoryInv, ~crashed PROVE record.live = M!Owned
<1>1. CASE user = "raw"
  BY <1>1 DEF M!Owned
<1>2. CASE user = "meta"
  <2>1. TableOf(table, MetaOf) /\ Places(record.live, EntriesOf(table), typed)
    BY <1>2 DEF MemoryInv, MetaInv
  <2>2. M!Entries = EntriesOf(table)
    BY <2>1, EntriesAre
  <2>3. record.live = OwnedBy(M!Entries, typed)
    BY <2>1, <2>2, PlacesFacts
  <2>4. M!Owned = OwnedBy(M!Entries, typed)
    BY <1>2 DEF M!Owned, OwnedBy
  <2> QED
    BY <2>3, <2>4
<1>3. CASE user = "persist"
  <2>1. TableOf(table, ObjectOf) /\ Registered(record.live, EntriesOf(table))
    BY <1>3 DEF MemoryInv, PersistInv
  <2>2. M!Entries = EntriesOf(table)
    BY <2>1, EntriesAre
  <2> QED
    BY <1>3, <2>1, <2>2 DEF M!Owned, Registered
<1> QED
  BY <1>1, <1>2, <1>3 DEF MemoryInv

LEMMA HeapIsBalanced == ASSUME MemoryInv PROVE M!HeapBalanced
<1>1. Noted(record.node, record.total, record.cnt, record.live \cup record.refused)
  BY DEF MemoryInv, HeapGood, HeapOf, Nameable
<1>2. M!Recorded = Named(record.node)
  BY DEF M!Recorded, Named
<1>3. M!Cardinality(M!Recorded) = Cardinality(Named(record.node))
  BY <1>2 DEF M!Cardinality, Cardinality
<1>4. record.total = M!RecordedSize
  BY <1>1, TotalIs DEF Noted
<1>5. /\ record.cnt >= Cardinality(Named(record.node))
      /\ \A i \in Named(record.node) : record.node[i].ptr \in record.live \cup record.refused
      /\ \A i, j \in Named(record.node) :
             record.node[i].ptr = record.node[j].ptr => i = j \/ record.node[i].ptr = Nothing
  BY <1>1 DEF Noted
<1>6. IF crashed THEN record.live = Blocks ELSE record.live = M!Owned
  BY OwnedAre DEF MemoryInv
<1> QED
  BY <1>2, <1>3, <1>4, <1>5, <1>6 DEF M!HeapBalanced

(* A key answers with what the caller believes.                            *)
LEMMA KeysAnswer ==
    ASSUME MetaLeft, NEW k \in Keys, NEW t \in M!Types
    PROVE  M!find(k, t) = IF known[k].type # t THEN "nothing"
                          ELSE IF ~known[k].lost THEN known[k].value
                          ELSE IF t = "string" THEN "empty" ELSE "nothing"
<1> DEFINE E == EntriesOf(table)
           item == M!findData(k)
           kn == known[k]
<1>0. TableOf(table, MetaOf) /\ Store(E, typed, known) /\ \E S : Places(S, E, typed)
  BY DEF MetaLeft
<1>1. PICK S : TableOf(table, MetaOf) /\ Places(S, E, typed) /\ Store(E, typed, known)
  BY <1>0
<1>2. KeysApart(E)
  BY <1>1 DEF Store
<1>3. M!find(k, t) = IF item.type # t THEN "nothing"
                     ELSE IF t = "string" /\ item.size = 0 THEN "empty"
                     ELSE IF item.size # M!SizeOf[t] THEN "nothing" ELSE item.value
  BY DEF M!find
<1>4. M!SizeOf[t] > 0 /\ M!SizeOf[t] \in Nat
  BY SizesAre
<1>5. CASE \E e \in E : e.key = k
  <2>1. PICK e \in E : e.key = k
    BY <1>5
  <2>2. M!Position(k) # 0 /\ table[M!Bucket(k)][M!Position(k)] = e
    BY <1>1, <1>2, <2>1, Found
  <2>3. e.data # Nothing
    BY <1>1, PlacesFacts, BlocksAre
  <2>4. M!rt_hash_table_find(k) = e.data
    BY <2>2 DEF M!rt_hash_table_find, M!Chain
  <2>5. item = typed[e.data]
    BY <2>3, <2>4 DEF M!findData
  <2> HIDE DEF item
  <2>6. Kept(item, kn)
    BY <1>1, <2>1, <2>5 DEF Store
  <2>7. /\ item.type = kn.type
        /\ ~kn.lost => item.size = M!SizeOf[item.type] /\ item.value = kn.value
        /\ kn.lost => item.size = 0
    BY <2>6 DEF Kept
  <2> HIDE DEF kn
  <2>8. CASE kn.type # t
    BY <1>3, <2>7, <2>8 DEF kn
  <2>9. CASE kn.type = t /\ ~kn.lost
    BY <1>3, <1>4, <2>7, <2>9 DEF kn
  <2>10. CASE kn.type = t /\ kn.lost
    BY <1>3, <1>4, <2>7, <2>10 DEF kn
  <2> QED
    BY <2>8, <2>9, <2>10
<1>6. CASE ~ \E e \in E : e.key = k
  <2>1. M!Position(k) = 0
    BY <1>1, <1>2, <1>6, Found
  <2>2. item = M!Emptied
    BY <2>1 DEF M!rt_hash_table_find, M!findData
  <2>3. kn = M!Unset
    BY <1>1, <1>6 DEF Store
  <2>4. item.type # t /\ kn.type # t
    BY <2>2, <2>3 DEF M!Emptied, M!Unset, M!Types
  <2> QED
    BY <1>3, <2>4
<1> QED
  BY <1>5, <1>6

LEMMA ObjectsAnswer ==
    ASSUME PersistLeft
    PROVE  /\ given.held = {e.data.object : e \in M!Entries} /\ given.held \cap given.freed = {}
           /\ \A o \in given.held : \E u \in Uuids, k \in Keys : M!persist_object_find(u, k) = o
<1> DEFINE E == EntriesOf(table)
<1>0. TableOf(table, ObjectOf) /\ NamedOnce(E) /\ Holds(E, given) /\ \E S : Registered(S, E)
  BY DEF PersistLeft
<1>1. PICK S : TableOf(table, ObjectOf) /\ Registered(S, E) /\ NamedOnce(E) /\ Holds(E, given)
  BY <1>0
<1>2. M!Entries = E
  BY <1>1, EntriesAre
<1>3. given.held = {e.data.object : e \in E} /\ given.held \cap given.freed = {}
  BY <1>1 DEF Holds
<1>4. ASSUME NEW o \in given.held PROVE \E u \in Uuids, k \in Keys : M!persist_object_find(u, k) = o
  <2>1. PICK e \in E : o = e.data.object
    BY <1>3
  <2>2. e.data.uuid \in Uuids /\ e.key \in Keys
    BY <1>1 DEF Registered, ObjectOf
  <2> DEFINE u == e.data.uuid
             k == e.key
  <2>3. M!WithUuid(u, k) # {} /\ table[M!Bucket(k)][M!Least(M!WithUuid(u, k))] = e
    BY <1>1, <2>2, FoundByName
  <2>4. M!persist_object_find(u, k) = o
    BY <2>1, <2>3 DEF M!persist_object_find, M!Chain
  <2> QED
    BY <2>2, <2>4
<1> QED
  BY <1>2, <1>3, <1>4

(* MemoryIsKept: no call of the raw heap, of a RtMetaData or of the        *)
(* persistent objects leaks a block or leaves the record or what is stored *)
(* out of step with the heap, also when memory runs out, with the two      *)
(* exceptions HeapBalanced names: a realloc() that fails has the record    *)
(* name NULL for the block, and where the code writes through NULL the     *)
(* item it had allocated is lost.  What was stored before is still found.  *)
THEOREM MemoryIsKept == LibrarySpec => []MemoryKept
<1>1. LibraryInit => MemoryInv
  BY MemoryStart DEF LibraryInit
<1>2. MemoryInv /\ [LibraryNext]_<<part, kernelVars, listsVars, memoryVars, allocatorVars, conversionVars>> => MemoryInv'
  <2> SUFFICES ASSUME MemoryInv, LibraryNext \/ UNCHANGED memoryVars PROVE MemoryInv'
    BY DEF memoryVars
  <2> QED
    BY RawKeeps, MetaKeeps, PersistKeeps, MemoryStays DEF LibraryNext, M!Next
<1>3. MemoryInv => MemoryKept
  <2> SUFFICES ASSUME MemoryInv PROVE M!HeapBalanced /\ M!StoreKept
    BY DEF MemoryKept, M!MemoryKept
  <2>1. user = "meta" => MetaLeft
    BY DEF MemoryInv
  <2>2. user = "persist" => PersistLeft
    BY DEF MemoryInv
  <2>3. M!StoreKept
    BY <2>1, <2>2, KeysAnswer, ObjectsAnswer DEF M!StoreKept
  <2> QED
    BY <2>3, HeapIsBalanced
<1> QED
  BY <1>1, <1>2, <1>3, PTL DEF LibrarySpec
=============================================================================
