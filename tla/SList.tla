-------------------------------- MODULE SList --------------------------------
(***************************************************************************)
(* The single-linked lists of list.h, pointer by pointer.  A heap is       *)
(*   next : where the next field of each entry points,                     *)
(*   list : the head and the tail of each list,                            *)
(* and 0 is the null pointer.  An operation is what the heap is after it;  *)
(* none of them looks whether the entry it links is in a list already.     *)
(***************************************************************************)
EXTENDS Naturals, Sequences

Null == 0
NoEntries == [head |-> Null, tail |-> Null]

\* slist_empty
Empty(heap, l) == heap.list[l].head = Null

\* slist_insert_head_unsafe
LinkedHead(heap, l, e) ==
  [next |-> [heap.next EXCEPT ![e] = heap.list[l].head],
   list |-> [heap.list EXCEPT ![l] =
               [head |-> e, tail |-> IF Empty(heap, l) THEN e ELSE @.tail]]]

\* Slip: the entry keeps the next pointer it had where it was before
LinkedTailKeepsNext(heap, l, e) ==
  [next |-> IF Empty(heap, l) THEN heap.next
            ELSE [heap.next EXCEPT ![heap.list[l].tail] = e],
   list |-> [heap.list EXCEPT ![l] =
               [head |-> IF Empty(heap, l) THEN e ELSE @.head, tail |-> e]]]

\* slist_insert_tail_unsafe: the next of the old tail is e, that of e null.
LinkedTail(heap, l, e) ==
  [LinkedTailKeepsNext(heap, l, e) EXCEPT !.next[e] = Null]

\* slist_remove_head_unsafe, on a list that is not empty: the entry returned
\* is the head, and keeps its next pointer.
UnlinkedHead(heap, l) ==
  IF heap.list[l].head = heap.list[l].tail
  THEN [heap EXCEPT !.list[l] = NoEntries]
  ELSE [heap EXCEPT !.list[l].head = heap.next[@]]

\* The entries met from the head of a list on, up to n of them.
Walk(heap, l, n) ==
  LET path[i \in 0 .. n] ==
        IF i = 0 THEN <<>>
        ELSE LET p == path[i - 1]
                 e == IF p = <<>> THEN heap.list[l].head ELSE heap.next[p[Len(p)]]
             IN IF e = Null THEN p ELSE Append(p, e)
  IN path[n]

\* Slip: the tail stays what it was
UnlinkedAtKeepsTail(heap, l, path, i) ==
  LET after == heap.next[path[i]] IN
  IF i = 1 THEN [heap EXCEPT !.list[l].head = after]
  ELSE [heap EXCEPT !.next[path[i - 1]] = after]

UnlinkedAt(heap, l, path, i) ==
  [UnlinkedAtKeepsTail(heap, l, path, i) EXCEPT
     !.list[l].tail = IF heap.next[path[i]] # Null THEN @
                      ELSE IF i = 1 THEN Null ELSE path[i - 1]]

\* slist_remove_first_match_unsafe, of the entries in matching.
UnlinkedMatch(heap, l, n, matching) ==
  LET path == Walk(heap, l, n)
      found == {i \in 1 .. Len(path) : path[i] \in matching}
  IN IF found = {} THEN heap
     ELSE UnlinkedAt(heap, l, path, CHOOSE i \in found : \A j \in found : i <= j)

\* A list of at most n entries that ends at its tail and repeats none.
WellFormed(heap, l, n) ==
  LET path == Walk(heap, l, n) IN
  /\ \A i, j \in 1 .. Len(path) : path[i] = path[j] => i = j
  /\ IF path = <<>> THEN heap.list[l] = NoEntries
     ELSE heap.list[l].tail = path[Len(path)] /\ heap.next[path[Len(path)]] = Null

=============================================================================
