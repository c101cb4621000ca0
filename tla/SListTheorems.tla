---------------------------- MODULE SListTheorems ----------------------------
(***************************************************************************)
(* What the operations of SList do to a list, told by the sequence of its  *)
(* entries: which list is there after each, that other lists stay what     *)
(* they are, and that a walk over the pointers meets the entries of it,    *)
(* all of them and in their order.                                         *)
(***************************************************************************)
EXTENDS SList, WellFoundedInduction, FiniteSetTheorems, SequenceTheorems, TLAPS

-----------------------------------------------------------------------------
(* Induction over the numbers, from the library's theorem that the order of *)
(* the numbers is well founded.                                             *)

\* Every set of numbers has a least element.
LEMMA LeastElement ==
  ASSUME NEW S \in SUBSET Nat, S # {}
  PROVE  \E n \in S : \A m \in S : n <= m
<1>1. PICK R : R = OpToRel(<, Nat)
  OBVIOUS
<1>2. IsWellFoundedOn(R, Nat)
  BY <1>1, NatLessThanWellFounded
<1>3. PICK n \in S : \A m \in S : ~(<<m, n>> \in R)
  BY <1>2, WFMin
<1>4. \A m, k \in Nat : <<m, k>> \in R <=> m < k
  BY <1>1 DEF OpToRel
<1>5. ASSUME NEW m \in S PROVE n <= m
  <2>1. m \in Nat /\ n \in Nat /\ ~(m < n)
    BY <1>3, <1>4
  <2> QED BY <2>1
<1> QED
  BY <1>5

\* What holds of 0 and of every successor holds of every number.
LEMMA Induction ==
  ASSUME NEW S, 0 \in S, \A n \in Nat : n \in S => n + 1 \in S
  PROVE  Nat \subseteq S
<1> SUFFICES ASSUME Nat \ S # {} PROVE FALSE
  OBVIOUS
<1>1. PICK n \in Nat \ S : \A m \in Nat \ S : n <= m
  BY LeastElement
<1>2. n - 1 \in Nat /\ n - 1 \in S
  BY <1>1
<1> QED
  BY <1>1, <1>2

-----------------------------------------------------------------------------
(* Heaps and lists.                                                         *)

\* The heaps of the entries E and the lists L.
Heaps(E, L) ==
  [next : [E -> E \cup {Null}],
   list : [L -> [head : E \cup {Null}, tail : E \cup {Null}]]]

\* No entry is in the sequence twice.
NonRepeating(p) == \A i, j \in 1 .. Len(p) : p[i] = p[j] => i = j

\* The list l of the heap has the entries of p, in that order.
Holds(heap, l, p) ==
  /\ NonRepeating(p)
  /\ p = <<>> => heap.list[l] = NoEntries
  /\ p # <<>> => /\ heap.list[l].head = p[1]
                 /\ heap.list[l].tail = p[Len(p)]
                 /\ heap.next[p[Len(p)]] = Null
  /\ \A i \in 1 .. Len(p) - 1 : heap.next[p[i]] = p[i + 1]

\* A sequence that repeats no entry is no longer than there are entries.
LEMMA NoLongerThanEntries ==
  ASSUME NEW n \in Nat, NEW p \in Seq(1 .. n), NonRepeating(p)
  PROVE  Len(p) <= n
<1>1. Len(p) \in Nat /\ p \in [1 .. Len(p) -> 1 .. n]
  BY LenProperties
<1>2. p \in Injection(1 .. Len(p), 1 .. n)
  BY <1>1 DEF NonRepeating, Injection, IsInjective
<1>3. ASSUME NEW m \in Nat
      PROVE  IsFiniteSet(1 .. m) /\ Cardinality(1 .. m) = m
  <2>1. 1 \in Int /\ m \in Int
    OBVIOUS
  <2>2. IsFiniteSet(1 .. m) /\ Cardinality(1 .. m) = IF 1 > m THEN 0 ELSE m - 1 + 1
    BY <2>1, FS_Interval, Zenon
  <2> QED
    BY <2>2
<1>4. /\ IsFiniteSet(1 .. n) /\ Cardinality(1 .. n) = n
      /\ Cardinality(1 .. Len(p)) = Len(p)
  BY <1>1, <1>3
<1> QED
  BY <1>2, <1>4, FS_Injection

\* A list depends on its ends and the next pointers of its entries alone.
LEMMA HoldsStill ==
  ASSUME NEW E, NEW heap, NEW after, NEW l, NEW p \in Seq(E),
         Holds(heap, l, p),
         after.list[l] = heap.list[l],
         \A i \in 1 .. Len(p) : after.next[p[i]] = heap.next[p[i]]
  PROVE  Holds(after, l, p)
<1>1. p # <<>> => Len(p) \in 1 .. Len(p)
  OBVIOUS
<1>2. \A i \in 1 .. Len(p) - 1 : i \in 1 .. Len(p)
  OBVIOUS
<1> QED
  BY <1>1, <1>2 DEF Holds

-----------------------------------------------------------------------------
(* Walking over a list.                                                     *)

\* One step of the walk: the entry after the last one met.
Grown(heap, l, q) ==
  IF (IF q = <<>> THEN heap.list[l].head ELSE heap.next[q[Len(q)]]) = Null THEN q
  ELSE Append(q, IF q = <<>> THEN heap.list[l].head ELSE heap.next[q[Len(q)]])

\* The first i entries of p, or all of them.
Prefix(p, i) == [j \in 1 .. (IF i < Len(p) THEN i ELSE Len(p)) |-> p[j]]

\* A step of the walk goes from one prefix of the list to the next.
LEMMA PrefixGrows ==
  ASSUME NEW E, Null \notin E, NEW heap, NEW l, NEW p \in Seq(E), Holds(heap, l, p),
         NEW i \in Nat
  PROVE  Prefix(p, i + 1) = Grown(heap, l, Prefix(p, i))
<1>1. PICK N \in Nat : N = Len(p) /\ p \in [1 .. N -> E]
  OBVIOUS
<1>2. CASE N <= i
  <2>1. Prefix(p, i) = p /\ Prefix(p, i + 1) = p
    <3>1. p = [j \in 1 .. N |-> p[j]]
      BY <1>1
    <3>2. (IF i < N THEN i ELSE N) = N /\ (IF i + 1 < N THEN i + 1 ELSE N) = N
      BY <1>2
    <3> QED BY <1>1, <3>1, <3>2 DEF Prefix
  <2>2. CASE N = 0
    <3>1. p = <<>> /\ heap.list[l].head = Null
      BY <1>1, <2>2 DEF Holds, NoEntries
    <3> QED BY <2>1, <3>1 DEF Grown
  <2>3. CASE N # 0
    <3>1. p # <<>> /\ heap.next[p[Len(p)]] = Null
      BY <1>1, <2>3 DEF Holds
    <3> QED BY <2>1, <3>1 DEF Grown
  <2> QED BY <2>2, <2>3
<1>3. CASE i < N
  <2>1. PICK q, r : q = Prefix(p, i) /\ r = Prefix(p, i + 1)
    OBVIOUS
  <2>2. q = [j \in 1 .. i |-> p[j]] /\ r = [j \in 1 .. i + 1 |-> p[j]]
    BY <1>1, <1>3, <2>1 DEF Prefix
  <2>3. q \in Seq(E) /\ Len(q) = i /\ p[i + 1] \in E
    BY <1>1, <1>3, <2>2
  <2>4. r = Append(q, p[i + 1])
    BY <2>2, <2>3
  <2>5. CASE i = 0
    <3>1. q = <<>> /\ heap.list[l].head = p[i + 1]
      BY <1>1, <1>3, <2>3, <2>5 DEF Holds
    <3> QED BY <2>1, <2>3, <2>4, <3>1 DEF Grown
  <2>6. CASE i # 0
    <3>1. q # <<>> /\ q[Len(q)] = p[i] /\ heap.next[p[i]] = p[i + 1]
      <4>1. i \in 1 .. Len(p) - 1 /\ i \in 1 .. i
        BY <1>1, <1>3, <2>6
      <4>2. heap.next[p[i]] = p[i + 1]
        BY <4>1 DEF Holds
      <4>3. q[i] = p[i] /\ q # <<>>
        BY <2>2, <2>3, <4>1
      <4> QED BY <2>3, <4>2, <4>3
    <3> QED BY <2>1, <2>3, <2>4, <3>1 DEF Grown
  <2> QED BY <2>5, <2>6
<1> QED
  BY <1>1, <1>2, <1>3

\* A walk that is long enough meets the entries of the list, in their order.
THEOREM WalkMeetsAll ==
  ASSUME NEW E, Null \notin E, NEW heap, NEW l, NEW p \in Seq(E), Holds(heap, l, p),
         NEW n \in Nat, Len(p) <= n
  PROVE  Walk(heap, l, n) = p
<1>1. PICK k : k = [i \in 0 .. n |-> Prefix(p, i)]
  OBVIOUS
<1>2. k = [i \in 0 .. n |-> IF i = 0 THEN <<>> ELSE Grown(heap, l, k[i - 1])]
  <2>1. ASSUME NEW i \in 0 .. n
        PROVE  k[i] = IF i = 0 THEN <<>> ELSE Grown(heap, l, k[i - 1])
    <3>1. CASE i = 0
      BY <1>1, <3>1 DEF Prefix
    <3>2. CASE i # 0
      <4>1. i - 1 \in Nat /\ i - 1 \in 0 .. n /\ i - 1 + 1 = i
        BY <3>2
      <4>2. Prefix(p, i) = Grown(heap, l, Prefix(p, i - 1))
        BY <4>1, PrefixGrows
      <4> QED BY <1>1, <3>2, <4>1, <4>2
    <3> QED BY <3>1, <3>2
  <2> QED BY <1>1, <2>1
<1>3. PICK path : /\ path = [i \in 0 .. n |-> IF i = 0 THEN <<>> ELSE Grown(heap, l, path[i - 1])]
                  /\ Walk(heap, l, n) = path[n]
  BY <1>2 DEF Walk, Grown
<1> DEFINE S == {i \in Nat : i <= n => path[i] = Prefix(p, i)}
<1>4. 0 \in S
  BY <1>3 DEF Prefix
<1>5. ASSUME NEW i \in Nat, i \in S PROVE i + 1 \in S
  <2> SUFFICES ASSUME i + 1 <= n PROVE path[i + 1] = Prefix(p, i + 1)
    OBVIOUS
  <2>1. path[i + 1] = Grown(heap, l, path[i])
    BY <1>3
  <2>2. path[i] = Prefix(p, i)
    BY <1>5
  <2> HIDE DEF S
  <2>3. Prefix(p, i + 1) = Grown(heap, l, Prefix(p, i))
    BY PrefixGrows
  <2> QED BY <2>1, <2>2, <2>3
<1>6. n \in S
  <2> HIDE DEF S
  <2> QED BY <1>4, <1>5, Induction
<1>7. Prefix(p, n) = p
  BY DEF Prefix
<1> QED
  BY <1>3, <1>6, <1>7

\* What WellFormed says of a heap is that a list is there.
LEMMA HoldsIsWellFormed ==
  ASSUME NEW E, Null \notin E, NEW heap, NEW l, NEW p \in Seq(E), Holds(heap, l, p),
         NEW n \in Nat, Len(p) <= n
  PROVE  WellFormed(heap, l, n)
<1>1. Walk(heap, l, n) = p
  BY WalkMeetsAll
<1> QED
  BY <1>1 DEF WellFormed, Holds, NonRepeating

-----------------------------------------------------------------------------
(* Adding an entry.                                                         *)

\* After differs from heap in the ends of l, in the next of e and in that of
\* the old tail.
LinkedFields(E, L, heap, l, e, old, after) ==
  /\ after \in Heaps(E, L)
  /\ after.list[l] = [head |-> IF Empty(heap, l) THEN e ELSE heap.list[l].head, tail |-> e]
  /\ \A k \in L \ {l} : after.list[k] = heap.list[k]
  /\ after.next[e] = Null
  /\ \A x \in E \ {e} : Empty(heap, l) \/ x # old => after.next[x] = heap.next[x]
  /\ ~Empty(heap, l) /\ old \in E \ {e} => after.next[old] = e

\* What slist_insert_tail_unsafe writes.
LEMMA LinkedTailFields ==
  ASSUME NEW E, NEW L, NEW heap \in Heaps(E, L), NEW l \in L, NEW e \in E
  PROVE  LinkedFields(E, L, heap, l, e, heap.list[l].tail, LinkedTail(heap, l, e))
<1>0. PICK after, old : after = LinkedTail(heap, l, e) /\ old = heap.list[l].tail
  OBVIOUS
<1> DEFINE ends == [head |-> IF Empty(heap, l) THEN e ELSE heap.list[l].head, tail |-> e]
           kept == IF Empty(heap, l) THEN heap.next ELSE [heap.next EXCEPT ![old] = e]
<1>1. /\ heap.next \in [E -> E \cup {Null}]
      /\ heap.list \in [L -> [head : E \cup {Null}, tail : E \cup {Null}]]
  BY DEF Heaps
<1>2. after = [next |-> [kept EXCEPT ![e] = Null], list |-> [heap.list EXCEPT ![l] = ends]]
  BY <1>0 DEF LinkedTail, LinkedTailKeepsNext
<1>3. kept \in [E -> E \cup {Null}]
  BY <1>1
<1>4. ends \in [head : E \cup {Null}, tail : E \cup {Null}]
  BY <1>1
<1>5. after \in Heaps(E, L)
  <2> HIDE DEF kept, ends
  <2> QED BY <1>1, <1>2, <1>3, <1>4 DEF Heaps
<1>6. after.list[l] = ends /\ \A k \in L \ {l} : after.list[k] = heap.list[k]
  <2> HIDE DEF kept, ends
  <2> QED BY <1>1, <1>2
<1>7. after.next[e] = Null /\ \A x \in E \ {e} : after.next[x] = kept[x]
  <2> HIDE DEF kept, ends
  <2> QED BY <1>2, <1>3
<1>8. \A x \in E : Empty(heap, l) \/ x # old => kept[x] = heap.next[x]
  BY <1>1
<1>9. ~Empty(heap, l) /\ old \in E => kept[old] = e
  BY <1>1
<1>10. ends = [head |-> IF Empty(heap, l) THEN e ELSE heap.list[l].head, tail |-> e]
  OBVIOUS
<1> HIDE DEF kept, ends
<1> QED
  BY <1>0, <1>5, <1>6, <1>7, <1>8, <1>9, <1>10 DEF LinkedFields

\* It leaves a heap.
LEMMA LinkedTailInHeaps ==
  ASSUME NEW E, NEW L, NEW heap \in Heaps(E, L), NEW l \in L, NEW e \in E
  PROVE  LinkedTail(heap, l, e) \in Heaps(E, L)
  BY LinkedTailFields DEF LinkedFields

\* An entry in no place of the list comes to be its last.
LEMMA LinkedTailAppends ==
  ASSUME NEW E, Null \notin E, NEW L, NEW heap \in Heaps(E, L), NEW l \in L, NEW e \in E,
         NEW p \in Seq(E), Holds(heap, l, p), \A i \in 1 .. Len(p) : p[i] # e
  PROVE  Holds(LinkedTail(heap, l, e), l, Append(p, e))
<1>0. PICK N \in Nat : N = Len(p) /\ p \in [1 .. N -> E]
  OBVIOUS
<1>1. PICK after, q :
        /\ after = LinkedTail(heap, l, e) /\ q = Append(p, e)
        /\ N = Len(p) /\ p \in [1 .. N -> E]
  BY <1>0
<1>2. /\ after.list[l] = [head |-> IF Empty(heap, l) THEN e ELSE heap.list[l].head, tail |-> e]
      /\ after.next[e] = Null
      /\ \A x \in E \ {e} : Empty(heap, l) \/ x # heap.list[l].tail => after.next[x] = heap.next[x]
      /\ ~Empty(heap, l) /\ heap.list[l].tail \in E \ {e} => after.next[heap.list[l].tail] = e
  <2>1. LinkedFields(E, L, heap, l, e, heap.list[l].tail, after)
    BY <1>1, LinkedTailFields
  <2> QED BY <2>1 DEF LinkedFields
<1>3. q \in Seq(E) /\ Len(q) = N + 1 /\ q[N + 1] = e /\ \A i \in 1 .. N : q[i] = p[i]
  BY <1>1
<1>4. NonRepeating(q)
  BY <1>1, <1>3 DEF Holds, NonRepeating
<1>5. CASE N = 0
  <2>1. p = <<>> /\ Empty(heap, l)
    BY <1>1, <1>5 DEF Holds, Empty, NoEntries
  <2>2. after.list[l].head = q[1] /\ after.list[l].tail = q[Len(q)] /\ after.next[q[Len(q)]] = Null
    BY <1>2, <1>3, <1>5, <2>1
  <2>3. Len(q) = 1 /\ q # <<>> /\ 1 .. Len(q) - 1 = {}
    BY <1>3, <1>5
  <2> QED BY <1>1, <1>4, <2>2, <2>3 DEF Holds
<1>6. CASE N # 0
  <2>1. /\ p # <<>> /\ N \in 1 .. N /\ 1 \in 1 .. N
        /\ heap.list[l].head = p[1] /\ heap.list[l].tail = p[N]
    BY <1>1, <1>6 DEF Holds
  <2>2. ~Empty(heap, l) /\ p[N] \in E \ {e}
    BY <1>1, <2>1 DEF Empty
  <2>3. after.list[l].head = q[1] /\ after.list[l].tail = q[Len(q)] /\ after.next[q[Len(q)]] = Null
    BY <1>2, <1>3, <2>1, <2>2
  <2>4. ASSUME NEW i \in 1 .. N PROVE after.next[q[i]] = q[i + 1]
    <3>1. CASE i = N
      BY <1>2, <1>3, <2>1, <2>2, <3>1
    <3>2. CASE i # N
      <4>1. i \in 1 .. N - 1 /\ i + 1 \in 1 .. N
        BY <3>2
      <4>2. p[i] \in E \ {e} /\ p[i] # p[N] /\ heap.next[p[i]] = p[i + 1]
        BY <1>1, <2>1, <3>2, <4>1 DEF Holds, NonRepeating
      <4> QED BY <1>2, <1>3, <2>1, <4>1, <4>2
    <3> QED BY <3>1, <3>2
  <2>5. q # <<>> /\ Len(q) - 1 = N
    BY <1>3
  <2> QED BY <1>1, <1>4, <2>3, <2>4, <2>5 DEF Holds
<1> QED
  BY <1>5, <1>6

\* The tail of a list, added to it once more, leaves it what it was.
LEMMA LinkedTailAgain ==
  ASSUME NEW E, Null \notin E, NEW L, NEW heap \in Heaps(E, L), NEW l \in L,
         NEW p \in Seq(E), p # <<>>, Holds(heap, l, p)
  PROVE  Holds(LinkedTail(heap, l, p[Len(p)]), l, p)
<1>0. p[Len(p)] \in E /\ Len(p) \in Nat \ {0} /\ p \in [1 .. Len(p) -> E]
  OBVIOUS
<1>00. PICK e \in E, N \in Nat \ {0} : e = p[N] /\ N = Len(p)
  BY <1>0
<1>1. PICK after :
        /\ e = p[N] /\ after = LinkedTail(heap, l, e)
        /\ N = Len(p) /\ p \in [1 .. N -> E]
  BY <1>0, <1>00
<1>2. heap.list[l].head = p[1] /\ heap.list[l].tail = e /\ p[1] \in E
  BY <1>1 DEF Holds
<1>3. /\ after.list[l] = [head |-> IF Empty(heap, l) THEN e ELSE heap.list[l].head, tail |-> e]
      /\ after.next[e] = Null
      /\ \A x \in E \ {e} : Empty(heap, l) \/ x # heap.list[l].tail => after.next[x] = heap.next[x]
  <2>1. LinkedFields(E, L, heap, l, e, heap.list[l].tail, after)
    BY <1>1, LinkedTailFields
  <2> QED BY <2>1 DEF LinkedFields
<1>4. after.list[l].head = p[1] /\ after.list[l].tail = p[N]
  BY <1>1, <1>2, <1>3 DEF Empty
<1>5. ASSUME NEW i \in 1 .. N - 1 PROVE after.next[p[i]] = p[i + 1]
  <2>1. p[i] \in E \ {e} /\ heap.next[p[i]] = p[i + 1]
    BY <1>1 DEF Holds, NonRepeating
  <2> QED BY <1>2, <1>3, <2>1
<1> QED
  BY <1>1, <1>3, <1>4, <1>5 DEF Holds

\* Another list stays what it is when the entry and the old tail are not in it,
\* or the entry is the last of it.
LEMMA LinkedTailElsewhere ==
  ASSUME NEW E, Null \notin E, NEW L, NEW heap \in Heaps(E, L), NEW l \in L, NEW e \in E,
         NEW k \in L \ {l}, NEW q \in Seq(E), Holds(heap, k, q),
         \A i \in 1 .. Len(q) : /\ q[i] = e => i = Len(q)
                                /\ Empty(heap, l) \/ q[i] # heap.list[l].tail \/ q[i] = e
  PROVE  Holds(LinkedTail(heap, l, e), k, q)
<1>1. PICK after, old : after = LinkedTail(heap, l, e) /\ old = heap.list[l].tail
  OBVIOUS
<1>2. /\ \A m \in L \ {l} : after.list[m] = heap.list[m]
      /\ after.next[e] = Null
      /\ \A x \in E \ {e} : Empty(heap, l) \/ x # old => after.next[x] = heap.next[x]
  <2>1. LinkedFields(E, L, heap, l, e, old, after)
    BY <1>1, LinkedTailFields
  <2> QED BY <2>1 DEF LinkedFields
<1>3. ASSUME NEW i \in 1 .. Len(q) PROVE after.next[q[i]] = heap.next[q[i]]
  <2>1. q[i] \in E
    OBVIOUS
  <2>2. CASE q[i] = e
    <3>1. i = Len(q) /\ q # <<>>
      BY <2>2
    <3> QED BY <1>2, <2>2, <3>1 DEF Holds
  <2>3. CASE q[i] # e
    BY <1>1, <1>2, <2>1, <2>3
  <2> QED BY <2>2, <2>3
<1> QED
  BY <1>1, <1>2, <1>3, HoldsStill

-----------------------------------------------------------------------------
(* Taking entries out.                                                      *)

\* Taking the head out leaves the rest, and no next pointer changes.
LEMMA UnlinkedHeadDrops ==
  ASSUME NEW E, Null \notin E, NEW L, NEW heap \in Heaps(E, L), NEW l \in L,
         NEW p \in Seq(E), p # <<>>, Holds(heap, l, p)
  PROVE  /\ Holds(UnlinkedHead(heap, l), l, Tail(p))
         /\ UnlinkedHead(heap, l).next = heap.next
         /\ \A k \in L \ {l} : UnlinkedHead(heap, l).list[k] = heap.list[k]
<1>0. Len(p) \in Nat \ {0} /\ p \in [1 .. Len(p) -> E]
  OBVIOUS
<1>00. PICK N \in Nat \ {0} : N = Len(p)
  BY <1>0
<1>1. PICK after, q :
        /\ after = UnlinkedHead(heap, l) /\ q = Tail(p)
        /\ N = Len(p) /\ p \in [1 .. N -> E]
  BY <1>0, <1>00
<1>2. q \in Seq(E) /\ Len(q) = N - 1 /\ \A i \in 1 .. N - 1 : q[i] = p[i + 1]
  BY <1>1
<1>3. heap.list[l].head = p[1] /\ heap.list[l].tail = p[N] /\ heap.next[p[N]] = Null
  BY <1>1 DEF Holds
<1>4. NonRepeating(q)
  BY <1>1, <1>2 DEF Holds, NonRepeating
<1>5. DOMAIN heap.list = L
  BY DEF Heaps
<1>6. CASE N = 1
  <2>1. after = [heap EXCEPT !.list[l] = NoEntries] /\ q = <<>>
    BY <1>1, <1>2, <1>3, <1>6 DEF UnlinkedHead
  <2>2. /\ after.list[l] = NoEntries /\ after.next = heap.next
        /\ \A k \in L \ {l} : after.list[k] = heap.list[k]
    BY <1>5, <2>1 DEF Heaps
  <2> QED BY <1>1, <1>4, <2>1, <2>2 DEF Holds
<1>7. CASE N # 1
  <2>1. p[1] # p[N] /\ heap.next[p[1]] = p[2]
    BY <1>1, <1>7 DEF Holds, NonRepeating
  <2>2. after = [heap EXCEPT !.list[l].head = p[2]]
    BY <1>1, <1>3, <2>1, <1>5 DEF UnlinkedHead, Heaps
  <2>3. /\ after.list[l].head = p[2] /\ after.list[l].tail = p[N] /\ after.next = heap.next
        /\ \A k \in L \ {l} : after.list[k] = heap.list[k]
    BY <1>3, <1>5, <2>2 DEF Heaps
  <2>4. q # <<>> /\ q[1] = p[2] /\ q[Len(q)] = p[N]
    BY <1>2, <1>7
  <2>5. ASSUME NEW i \in 1 .. Len(q) - 1 PROVE after.next[q[i]] = q[i + 1]
    <3>1. q[i] = p[i + 1] /\ q[i + 1] = p[i + 2] /\ i + 1 \in 1 .. Len(p) - 1
      BY <1>1, <1>2
    <3>2. heap.next[p[i + 1]] = p[i + 1 + 1]
      BY <3>1 DEF Holds
    <3> QED BY <2>3, <3>1, <3>2
  <2> QED BY <1>1, <1>3, <1>4, <2>3, <2>4, <2>5 DEF Holds
<1> QED
  BY <1>6, <1>7

\* The list p without its i-th entry.
Without(p, i) == [j \in 1 .. Len(p) - 1 |-> p[IF j < i THEN j ELSE j + 1]]

\* The sequence q has what p has but for its i-th entry.
HasOthers(E, p, i, q) ==
  /\ q \in Seq(E)
  /\ \A x : (\E j \in 1 .. Len(q) : q[j] = x) <=> (x # p[i] /\ \E j \in 1 .. Len(p) : p[j] = x)

\* What is left without the i-th entry are the others.
LEMMA WithoutKeepsOthers ==
  ASSUME NEW E, NEW p \in Seq(E), NonRepeating(p), NEW i \in 1 .. Len(p)
  PROVE  HasOthers(E, p, i, Without(p, i))
<1>1. PICK N \in Nat : N = Len(p) /\ p \in [1 .. N -> E] /\ i \in 1 .. N
  BY LenProperties
<1>2. PICK q : q = Without(p, i)
  OBVIOUS
<1>3. q = [j \in 1 .. N - 1 |-> p[IF j < i THEN j ELSE j + 1]] /\ N - 1 \in Nat
  BY <1>1, <1>2 DEF Without
<1>4. \A j \in 1 .. N - 1 : (IF j < i THEN j ELSE j + 1) \in 1 .. N
  BY <1>1
<1>5. q \in [1 .. N - 1 -> E]
  BY <1>1, <1>3, <1>4
<1>6. q \in Seq(E) /\ Len(q) = N - 1
  <2>1. q \in UNION {[1 .. n -> E] : n \in Nat}
    BY <1>3, <1>5
  <2>2. q \in Seq(E)
    BY <2>1, SeqDef, Zenon
  <2>3. Len(q) \in Nat /\ DOMAIN q = 1 .. Len(q)
    BY <2>2, LenProperties
  <2>4. DOMAIN q = 1 .. N - 1
    BY <1>5
  <2> QED
    BY <1>3, <2>2, <2>3, <2>4
<1>7. ASSUME NEW j \in 1 .. N - 1
      PROVE  q[j] # p[i] /\ \E k \in 1 .. N : p[k] = q[j]
  <2>1. PICK k \in 1 .. N : k = IF j < i THEN j ELSE j + 1
    BY <1>4
  <2>2. q[j] = p[k] /\ k # i
    BY <1>1, <1>3, <2>1
  <2> QED
    BY <1>1, <2>1, <2>2 DEF NonRepeating
<1>8. ASSUME NEW k \in 1 .. N, p[k] # p[i]
      PROVE  \E j \in 1 .. N - 1 : q[j] = p[k]
  <2>1. k # i
    BY <1>8
  <2>2. CASE k < i
    <3>1. k \in 1 .. N - 1
      BY <1>1, <2>2
    <3> QED
      BY <1>3, <2>2, <3>1
  <2>3. CASE k > i
    <3>1. k - 1 \in 1 .. N - 1 /\ ~(k - 1 < i) /\ k - 1 + 1 = k
      BY <1>1, <2>3
    <3> QED
      BY <1>3, <3>1
  <2> QED
    BY <1>1, <2>1, <2>2, <2>3
<1>9. ASSUME NEW x
      PROVE  (\E j \in 1 .. N - 1 : q[j] = x) <=> (x # p[i] /\ \E j \in 1 .. N : p[j] = x)
  BY <1>7, <1>8
<1> QED
  BY <1>1, <1>2, <1>6, <1>9 DEF HasOthers

\* After differs from heap in the ends of l and in the next of the entry before
\* the i-th of p, which is followed by rest.
UnlinkedFields(E, L, heap, l, p, i, rest, after) ==
  /\ after \in Heaps(E, L)
  /\ after.list[l] = [head |-> IF i = 1 THEN rest ELSE heap.list[l].head,
                      tail |-> IF rest # Null THEN heap.list[l].tail
                               ELSE IF i = 1 THEN Null ELSE p[i - 1]]
  /\ \A k \in L \ {l} : after.list[k] = heap.list[k]
  /\ i # 1 => after.next[p[i - 1]] = rest
  /\ \A x \in E : i = 1 \/ x # p[i - 1] => after.next[x] = heap.next[x]

\* What slist_remove_first_match_unsafe writes, when it stops at the i-th entry.
LEMMA UnlinkedAtFields ==
  ASSUME NEW E, Null \notin E, NEW L, NEW heap \in Heaps(E, L), NEW l \in L,
         NEW p \in Seq(E), NEW i \in 1 .. Len(p)
  PROVE  UnlinkedFields(E, L, heap, l, p, i, heap.next[p[i]], UnlinkedAt(heap, l, p, i))
<1>0. PICK after, rest : after = UnlinkedAt(heap, l, p, i) /\ rest = heap.next[p[i]]
  OBVIOUS
<1>1. /\ heap.next \in [E -> E \cup {Null}]
      /\ heap.list \in [L -> [head : E \cup {Null}, tail : E \cup {Null}]]
      /\ heap = [next |-> heap.next, list |-> heap.list]
  BY DEF Heaps
<1>2. p[i] \in E /\ rest \in E \cup {Null} /\ (i # 1 => p[i - 1] \in E)
  BY <1>0, <1>1
<1> DEFINE next == IF i = 1 THEN heap.next ELSE [heap.next EXCEPT ![p[i - 1]] = rest]
           tail == IF rest # Null THEN heap.list[l].tail ELSE IF i = 1 THEN Null ELSE p[i - 1]
           ends == [head |-> IF i = 1 THEN rest ELSE heap.list[l].head, tail |-> tail]
<1>3. ends \in [head : E \cup {Null}, tail : E \cup {Null}]
  BY <1>1, <1>2
<1>4. next \in [E -> E \cup {Null}]
  BY <1>1, <1>2
<1>5. after = [next |-> next, list |-> [heap.list EXCEPT ![l] = ends]]
  <2>1. CASE i = 1
    <3>1. UnlinkedAtKeepsTail(heap, l, p, i) = [heap EXCEPT !.list[l].head = rest]
      BY <1>0, <2>1 DEF UnlinkedAtKeepsTail
    <3>2. UnlinkedAtKeepsTail(heap, l, p, i) =
            [next |-> heap.next, list |-> [heap.list EXCEPT ![l] = [head |-> rest, tail |-> heap.list[l].tail]]]
      <4>1. heap.list[l] = [head |-> heap.list[l].head, tail |-> heap.list[l].tail]
        BY <1>1
      <4>2. [heap.list[l] EXCEPT !.head = rest] = [head |-> rest, tail |-> heap.list[l].tail]
        BY <4>1
      <4>3. [heap.list EXCEPT ![l].head = rest]
              = [heap.list EXCEPT ![l] = [head |-> rest, tail |-> heap.list[l].tail]]
        BY <1>1, <4>2
      <4> QED BY <1>1, <3>1, <4>3
    <3>3. after = [UnlinkedAtKeepsTail(heap, l, p, i) EXCEPT
                     !.list[l].tail = IF rest # Null THEN heap.list[l].tail ELSE Null]
      BY <1>0, <1>1, <2>1, <3>2, SMTT(30) DEF UnlinkedAt
    <3>4. PICK kept, f :
            /\ kept = heap.next
            /\ f = [heap.list EXCEPT ![l] = [head |-> rest, tail |-> heap.list[l].tail]]
      OBVIOUS
    <3>5. [f EXCEPT ![l].tail = tail] = [heap.list EXCEPT ![l] = ends]
      <4>1. f[l] = [head |-> rest, tail |-> heap.list[l].tail] /\ DOMAIN f = L
        BY <1>1, <3>4
      <4>2. [f[l] EXCEPT !.tail = tail] = ends
        BY <2>1, <4>1
      <4> HIDE DEF tail, ends
      <4> QED BY <1>1, <3>4, <4>1, <4>2
    <3>6. after = [[next |-> kept, list |-> f] EXCEPT !.list[l].tail = tail]
      BY <2>1, <3>2, <3>3, <3>4
    <3>7. after = [next |-> kept, list |-> [f EXCEPT ![l].tail = tail]]
      <4> HIDE DEF tail
      <4> QED BY <3>6
    <3>8. next = kept
      BY <2>1, <3>4
    <3> QED BY <3>5, <3>7, <3>8
  <2>2. CASE i # 1
    <3>1. UnlinkedAtKeepsTail(heap, l, p, i) = [heap EXCEPT !.next[p[i - 1]] = rest]
      BY <1>0, <2>2 DEF UnlinkedAtKeepsTail
    <3>2. UnlinkedAtKeepsTail(heap, l, p, i) =
            [next |-> [heap.next EXCEPT ![p[i - 1]] = rest], list |-> heap.list]
      BY <1>1, <3>1
    <3>3. after = [UnlinkedAtKeepsTail(heap, l, p, i) EXCEPT
                     !.list[l].tail = IF rest # Null THEN heap.list[l].tail ELSE p[i - 1]]
      BY <1>0, <1>1, <2>2, <3>2 DEF UnlinkedAt
    <3>4. heap.list[l] = [head |-> heap.list[l].head, tail |-> heap.list[l].tail]
      BY <1>1
    <3>5. [heap.list[l] EXCEPT !.tail = tail] = ends
      BY <2>2, <3>4
    <3>6. tail = IF rest # Null THEN heap.list[l].tail ELSE p[i - 1]
      BY <2>2
    <3>7. after = [UnlinkedAtKeepsTail(heap, l, p, i) EXCEPT !.list[l].tail = tail]
      BY <3>3, <3>6
    <3>8. next = [heap.next EXCEPT ![p[i - 1]] = rest]
      BY <2>2
    <3> HIDE DEF tail, ends, next
    <3>9. [heap.list EXCEPT ![l].tail = tail] = [heap.list EXCEPT ![l] = ends]
      BY <1>1, <3>5
    <3>10. after = [next |-> [heap.next EXCEPT ![p[i - 1]] = rest],
                    list |-> [heap.list EXCEPT ![l].tail = tail]]
      <4>1. PICK kept, f : kept = [heap.next EXCEPT ![p[i - 1]] = rest] /\ f = heap.list
        OBVIOUS
      <4>2. after = [[next |-> kept, list |-> f] EXCEPT !.list[l].tail = tail]
        BY <3>2, <3>7, <4>1
      <4>3. after = [next |-> kept, list |-> [f EXCEPT ![l].tail = tail]]
        BY <4>2
      <4> QED BY <4>1, <4>3
    <3> QED BY <3>8, <3>9, <3>10
  <2> QED BY <2>1, <2>2
<1>6. after \in Heaps(E, L)
  <2> HIDE DEF next, ends
  <2> QED BY <1>1, <1>3, <1>4, <1>5 DEF Heaps
<1>7. after.list[l] = ends /\ after.next = next /\ \A k \in L \ {l} : after.list[k] = heap.list[k]
  <2> HIDE DEF next, ends
  <2> QED BY <1>1, <1>5
<1>8. i # 1 => next[p[i - 1]] = rest
  BY <1>1, <1>2
<1>9. \A x \in E : i = 1 \/ x # p[i - 1] => next[x] = heap.next[x]
  BY <1>1, <1>2
<1>10. ends = [head |-> IF i = 1 THEN rest ELSE heap.list[l].head,
               tail |-> IF rest # Null THEN heap.list[l].tail ELSE IF i = 1 THEN Null ELSE p[i - 1]]
  OBVIOUS
<1> HIDE DEF next, ends
<1> QED
  BY <1>0, <1>6, <1>7, <1>8, <1>9, <1>10 DEF UnlinkedFields

\* Taking the i-th entry out leaves the others in their order.
LEMMA UnlinkedAtRemoves ==
  ASSUME NEW E, Null \notin E, NEW L, NEW heap \in Heaps(E, L), NEW l \in L,
         NEW p \in Seq(E), Holds(heap, l, p), NEW i \in 1 .. Len(p)
  PROVE  Holds(UnlinkedAt(heap, l, p, i), l, Without(p, i))
<1>0. Len(p) \in Nat \ {0} /\ p \in [1 .. Len(p) -> E]
  OBVIOUS
<1>00. PICK N \in Nat \ {0} : N = Len(p)
  BY <1>0
<1>1. PICK after, rest, q :
        /\ after = UnlinkedAt(heap, l, p, i) /\ rest = heap.next[p[i]] /\ q = Without(p, i)
        /\ N = Len(p) /\ p \in [1 .. N -> E] /\ i \in 1 .. N
  BY <1>0, <1>00
<1>2. /\ after.list[l] = [head |-> IF i = 1 THEN rest ELSE heap.list[l].head,
                          tail |-> IF rest # Null THEN heap.list[l].tail
                                   ELSE IF i = 1 THEN Null ELSE p[i - 1]]
      /\ i # 1 => after.next[p[i - 1]] = rest
      /\ \A x \in E : i = 1 \/ x # p[i - 1] => after.next[x] = heap.next[x]
  <2>1. UnlinkedFields(E, L, heap, l, p, i, rest, after)
    BY <1>1, UnlinkedAtFields
  <2> QED BY <2>1 DEF UnlinkedFields
<1>20. N \in Nat \ {0} /\ i \in 1 .. N
  BY <1>1
<1>30. ASSUME NEW j \in 1 .. N
       PROVE  heap.next[p[j]] = IF j = N THEN Null ELSE p[j + 1]
  <2>1. /\ heap.next[p[N]] = Null
        /\ \A k \in 1 .. N - 1 : heap.next[p[k]] = p[k + 1]
    BY <1>1 DEF Holds
  <2>2. CASE j = N
    BY <2>1, <2>2
  <2>3. CASE j # N
    <3>1. j \in 1 .. N - 1
      BY <1>20, <2>3
    <3> QED BY <2>1, <2>3, <3>1
  <2> QED BY <2>2, <2>3
<1>3. rest = IF i = N THEN Null ELSE p[i + 1]
  BY <1>1, <1>20, <1>30
<1>4. heap.list[l].head = p[1] /\ heap.list[l].tail = p[N]
  BY <1>1 DEF Holds
<1>5. /\ q \in Seq(E) /\ Len(q) = N - 1
      /\ \A j \in 1 .. N - 1 : q[j] = p[IF j < i THEN j ELSE j + 1]
  BY <1>1 DEF Without
<1>6. \A j, k \in 1 .. N : p[j] = p[k] => j = k
  BY <1>1 DEF Holds, NonRepeating
<1>7. NonRepeating(q)
  BY <1>1, <1>5, <1>6, SMTT(30) DEF NonRepeating
<1>8. \A j \in 1 .. N : i = 1 \/ j # i - 1 => after.next[p[j]] = heap.next[p[j]]
  <2> SUFFICES ASSUME NEW j \in 1 .. N, i = 1 \/ j # i - 1 PROVE after.next[p[j]] = heap.next[p[j]]
    OBVIOUS
  <2>1. p[j] \in E /\ (i = 1 \/ p[j] # p[i - 1])
    BY <1>1, <1>6
  <2> QED BY <1>2, <2>1
<1>9. CASE N = 1
  <2>1. i = 1 /\ rest = Null /\ q = <<>>
    BY <1>1, <1>3, <1>5, <1>9
  <2>2. after.list[l] = NoEntries
    BY <1>2, <2>1 DEF NoEntries
  <2>3. 1 .. Len(q) - 1 = {}
    BY <1>5, <1>9
  <2> QED BY <1>1, <1>7, <2>1, <2>2, <2>3 DEF Holds
<1>10. CASE N # 1
  <2>1. q # <<>> /\ q[1] = p[IF i = 1 THEN 2 ELSE 1] /\ q[N - 1] = p[IF i = N THEN N - 1 ELSE N]
    <3>1. 1 \in 1 .. N - 1 /\ N - 1 \in 1 .. N - 1
      BY <1>10, <1>20
    <3>2. (IF 1 < i THEN 1 ELSE 1 + 1) = IF i = 1 THEN 2 ELSE 1
      BY <1>20
    <3>3. (IF N - 1 < i THEN N - 1 ELSE N - 1 + 1) = IF i = N THEN N - 1 ELSE N
      BY <1>20
    <3>4. q # <<>>
      BY <1>5, <3>1
    <3> QED BY <1>5, <3>1, <3>2, <3>3, <3>4
  <2>2. after.list[l].head = q[1]
    <3>1. i = 1 => rest = p[2]
      BY <1>1, <1>3, <1>10
    <3> QED BY <1>2, <1>4, <2>1, <3>1
  <2>3. after.list[l].tail = q[N - 1] /\ after.next[q[N - 1]] = Null
    <3>1. CASE i = N
      BY <1>2, <1>3, <1>10, <2>1, <3>1
    <3>2. CASE i # N
      <4>0. i + 1 \in 1 .. N
        BY <1>20, <3>2
      <4>1. rest = p[i + 1] /\ p[i + 1] \in E
        BY <1>1, <1>3, <3>2, <4>0
      <4>2. heap.next[p[N]] = Null /\ N \in 1 .. N /\ (i = 1 \/ N # i - 1)
        <5>1. N \in 1 .. N /\ (i = 1 \/ N # i - 1)
          BY <1>20
        <5> QED BY <1>30, <5>1
      <4>3. after.next[p[N]] = Null
        BY <1>8, <4>2
      <4> QED BY <1>2, <1>4, <2>1, <3>2, <4>1, <4>3
    <3> QED BY <3>1, <3>2
  <2>4. ASSUME NEW j \in 1 .. N - 2 PROVE after.next[q[j]] = q[j + 1]
    <3>0. j \in 1 .. N - 1 /\ j + 1 \in 1 .. N - 1
      OBVIOUS
    <3>1. CASE j >= i
      <4>1. q[j] = p[j + 1] /\ q[j + 1] = p[j + 2]
        BY <1>1, <1>5, <3>0, <3>1
      <4>2. j + 1 \in 1 .. N /\ j + 1 # i - 1 /\ j + 1 # N /\ j + 1 + 1 = j + 2
        BY <1>20, <3>1
      <4>3. heap.next[p[j + 1]] = p[j + 2]
        <5>1. heap.next[p[j + 1]] = p[j + 1 + 1]
          BY <1>30, <4>2
        <5> QED BY <4>2, <5>1
      <4> QED BY <1>8, <4>1, <4>2, <4>3
    <3>2. CASE j = i - 1
      <4>1. q[j] = p[i - 1] /\ q[j + 1] = p[i + 1] /\ i # 1 /\ i # N
        <5>1. j < i /\ j = i - 1 /\ ~(j + 1 < i) /\ j + 1 + 1 = i + 1 /\ i # 1 /\ i # N
          BY <1>20, <3>2
        <5>2. /\ q[j] = p[IF j < i THEN j ELSE j + 1]
              /\ q[j + 1] = p[IF j + 1 < i THEN j + 1 ELSE j + 1 + 1]
          BY <1>5, <3>0
        <5> QED BY <5>1, <5>2
      <4> QED BY <1>2, <1>3, <4>1
    <3>3. CASE j < i - 1
      <4>1. q[j] = p[j] /\ q[j + 1] = p[j + 1]
        BY <1>1, <1>5, <3>0, <3>3
      <4>2. j \in 1 .. N /\ j # i - 1 /\ j # N
        BY <1>20, <3>3
      <4>3. heap.next[p[j]] = p[j + 1]
        BY <1>30, <4>2
      <4> QED BY <1>8, <4>1, <4>2, <4>3
    <3> QED BY <1>1, <3>1, <3>2, <3>3
  <2>5. Len(q) - 1 = N - 2
    BY <1>5
  <2> QED BY <1>1, <1>5, <1>7, <2>1, <2>2, <2>3, <2>4, <2>5 DEF Holds
<1> QED
  BY <1>9, <1>10

\* When one entry of the list matches, it is the one that is found.
LEMMA UnlinkedMatchFinds ==
  ASSUME NEW E, Null \notin E, NEW heap, NEW l, NEW p \in Seq(E), Holds(heap, l, p),
         NEW n \in Nat, Len(p) <= n, NEW matching,
         NEW i \in 1 .. Len(p), \A j \in 1 .. Len(p) : p[j] \in matching <=> j = i
  PROVE  UnlinkedMatch(heap, l, n, matching) = UnlinkedAt(heap, l, p, i)
<1>1. Walk(heap, l, n) = p
  BY WalkMeetsAll
<1>2. {j \in 1 .. Len(p) : p[j] \in matching} = {i}
  OBVIOUS
<1>3. (CHOOSE j \in {i} : \A k \in {i} : j <= k) = i
  OBVIOUS
<1>4. {i} # {}
  OBVIOUS
<1> QED
  BY <1>1, <1>2, <1>3, <1>4 DEF UnlinkedMatch

\* Any head of a list that is not empty can be taken out of any heap.
LEMMA UnlinkedHeadInHeaps ==
  ASSUME NEW E, Null \notin E, NEW L, NEW heap \in Heaps(E, L), NEW l \in L, ~Empty(heap, l)
  PROVE  UnlinkedHead(heap, l) \in Heaps(E, L)
<1>1. PICK n, f : heap = [next |-> n, list |-> f] /\ n \in [E -> E \cup {Null}]
                  /\ f \in [L -> [head : E \cup {Null}, tail : E \cup {Null}]]
  BY DEF Heaps
<1>2. f[l].head \in E
  BY <1>1 DEF Empty
<1>3. NoEntries \in [head : E \cup {Null}, tail : E \cup {Null}]
  BY DEF NoEntries
<1>4. [f EXCEPT ![l] = NoEntries] \in [L -> [head : E \cup {Null}, tail : E \cup {Null}]]
  BY <1>1, <1>3
<1>5. [f EXCEPT ![l].head = n[f[l].head]] \in [L -> [head : E \cup {Null}, tail : E \cup {Null}]]
  <2>1. [f[l] EXCEPT !.head = n[f[l].head]] \in [head : E \cup {Null}, tail : E \cup {Null}]
    BY <1>1, <1>2
  <2> QED BY <1>1, <2>1
<1>6. UnlinkedHead(heap, l) \in {[heap EXCEPT !.list[l] = NoEntries],
                                 [heap EXCEPT !.list[l].head = n[f[l].head]]}
  BY <1>1 DEF UnlinkedHead
<1>7. [heap EXCEPT !.list[l] = NoEntries] = [next |-> n, list |-> [f EXCEPT ![l] = NoEntries]]
  BY <1>1
<1>8. [heap EXCEPT !.list[l].head = n[f[l].head]]
        = [next |-> n, list |-> [f EXCEPT ![l].head = n[f[l].head]]]
  BY <1>1
<1> QED
  BY <1>1, <1>4, <1>5, <1>6, <1>7, <1>8 DEF Heaps

=============================================================================
