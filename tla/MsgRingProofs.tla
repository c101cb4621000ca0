---------------------------- MODULE MsgRingProofs ----------------------------
(***************************************************************************)
(* Theorems about MsgRing for every word size, ring size, set of lengths   *)
(* and number of messages: its types, and what it promises as long as the  *)
(* barriers work and no receive cuts its message, or all messages take one *)
(* slot of a ring of whole slots: offsets agree, stores go to cleared      *)
(* bytes, the receiver sees whole messages, and the ring is a MsgChannel.  *)
(***************************************************************************)
EXTENDS MsgRing, TLAPS

(* Arithmetic.  The quotient and remainder of the offsets by a word.       *)

\* A number is its quotient and its remainder.
LEMMA DivMod ==
  ASSUME NEW m \in Nat \ {0}, NEW a \in Nat
  PROVE  /\ a \div m \in Nat
         /\ a % m \in 0 .. (m - 1)
         /\ a = m * (a \div m) + (a % m)
OBVIOUS

\* Quotient and remainder are unique.
LEMMA ModUnique ==
  ASSUME NEW m \in Nat \ {0}, NEW a \in Nat, NEW q \in Nat, NEW r \in 0 .. (m - 1),
         a = m * q + r
  PROVE  a % m = r
OBVIOUS

\* A multiple of m is one of its natural multiples.
LEMMA MultipleMod ==
  ASSUME NEW m \in Nat \ {0}, NEW q \in Nat
  PROVE  (m * q) % m = 0
BY ModUnique

\* BUFFER_WORD_ALIGN rounds down to a multiple of the word.
LEMMA AlignDownFacts ==
  ASSUME NEW n \in Nat
  PROVE  /\ AlignDown(n) \in Nat
         /\ AlignDown(n) <= n
         /\ n < AlignDown(n) + Word
         /\ AlignDown(n) % Word = 0
<1>1. Word \in Nat \ {0}
  BY WordAssumption
<1>2. /\ n \div Word \in Nat
      /\ n % Word \in 0 .. (Word - 1)
      /\ n = Word * (n \div Word) + (n % Word)
  BY <1>1, DivMod
<1>3. AlignDown(n) % Word = 0
  BY <1>1, <1>2, MultipleMod DEF AlignDown
<1>. QED
  BY <1>1, <1>2, <1>3 DEF AlignDown

\* Turning the ring keeps an offset on a word: the ring holds whole words.
LEMMA TurnKeepsAlignment ==
  ASSUME NEW a \in Nat, a % Word = 0
  PROVE  a % (2 * RingSize) \in Offsets
<1> DEFINE M == 2 * RingSize
           y == RingSize \div Word
           x == a \div Word
           q == a \div M
           r == a % M
<1>1. /\ Word \in Nat \ {0} /\ M \in Nat \ {0} /\ RingSize \in Nat \ {0}
  BY WordAssumption, RingAssumption
<1>2. y \in Nat /\ RingSize = Word * y
  BY <1>1, RingAssumption, DivMod
<1>3. x \in Nat /\ a = Word * x
  BY <1>1, DivMod
<1>4. q \in Nat /\ r \in 0 .. (M - 1) /\ a = M * q + r
  BY <1>1, DivMod
<1>5. r % Word = 0
  <2> DEFINE k == x - 2 * (y * q)
  <2>1. y * q \in Nat
    BY <1>2, <1>4
  <2>2. M * q = Word * (2 * (y * q))
    <3> HIDE DEF q, y
    <3> QED BY <1>1, <1>2, <1>4
  <2>3. r = Word * k /\ k \in Int
    <3> HIDE DEF q, y, x, r, M
    <3> QED BY <1>1, <1>2, <1>3, <1>4, <2>1, <2>2
  <2>4. k \in Nat
    <3> HIDE DEF k, r
    <3>1. Word * k >= 0
      BY <1>4, <2>3
    <3> QED BY <1>1, <2>3, <3>1
  <2> HIDE DEF k, r
  <2> QED BY <1>1, <2>3, <2>4, MultipleMod
<1> QED
  BY <1>1, <1>4, <1>5 DEF Offsets

\* new_offset returns a place where a message may start.
LEMMA NewOffsetInOffsets ==
  ASSUME NEW prev \in Nat, NEW n \in Nat
  PROVE  NewOffset(prev, n) \in Offsets
<1>1. prev + n + Word + (Word - 1) \in Nat
  BY WordAssumption
<1>. QED
  BY <1>1, AlignDownFacts, TurnKeepsAlignment DEF NewOffset

\* data_ptr stays in the ring.
LEMMA PosInRing ==
  ASSUME NEW off \in Nat, NEW k \in Nat
  PROVE  Pos(off, k) \in 0 .. (RingSize - 1)
BY RingAssumption, DivMod DEF Pos

-----------------------------------------------------------------------------
(* Type correctness.                                                       *)

\* Remote stores that the sender issues are stores of the ring.
LEMMA PayloadStoresType ==
  ASSUME NEW n \in Nat, NEW off \in Nat, NEW len \in Nat
  PROVE  PayloadStores(n, off, len) \in SUBSET Stores
<1> SUFFICES ASSUME NEW i \in 1 .. len
             PROVE  [at |-> {Pos(off, Word + i - 1)}, byte |-> Byte(n, i)] \in Stores
  BY DEF PayloadStores
<1>1. Word + i - 1 \in Nat
  BY WordAssumption
<1>2. Pos(off, Word + i - 1) \in 0 .. (RingSize - 1)
  BY <1>1, PosInRing
<1>. QED
  BY <1>2 DEF Stores, Byte, Cells

\* The store of the size word is well typed.
LEMMA SizeStoreType ==
  ASSUME NEW n \in Nat, NEW off \in Nat
  PROVE  SizeStore(n, off) \in Stores
<1>1. \A k \in 0 .. (Word - 1) : Pos(off, k) \in 0 .. (RingSize - 1)
  BY PosInRing, WordAssumption
<1>. QED
  BY <1>1 DEF SizeStore, Stores, Byte, Cells

\* The wire holds sets of stores, whether or not the barrier does anything.
LEMMA PutType ==
  ASSUME wire \in Seq(SUBSET Stores), NEW stores \in SUBSET Stores
  PROVE  PutAfterBarrier(stores) \in Seq(SUBSET Stores)
<1>1. CASE stores = {}
  BY <1>1 DEF PutAfterBarrier
<1>2. CASE stores # {} /\ HasSequence
  BY <1>2 DEF PutAfterBarrier
<1>3. CASE stores # {} /\ ~HasSequence /\ wire = <<>>
  <2>1. PutAfterBarrier(stores) = <<stores>>
    BY <1>3 DEF PutAfterBarrier, PutInSameEpoch
  <2>. QED
    BY <2>1
<1>4. CASE stores # {} /\ ~HasSequence /\ wire # <<>>
  <2>1. PutAfterBarrier(stores)
          = [wire EXCEPT ![Len(wire)] = wire[Len(wire)] \cup stores]
    BY <1>4 DEF PutAfterBarrier, PutInSameEpoch
  <2>2. Len(wire) \in 1 .. Len(wire) /\ wire[Len(wire)] \in SUBSET Stores
    BY <1>4
  <2>. QED
    BY <2>1, <2>2
<1>. QED
  BY <1>1, <1>2, <1>3, <1>4, SequenceAssumption

\* What the elements of a sequence of messages are.
LEMMA MessageFacts ==
  ASSUME sent \in Seq(Messages), NEW n \in 1 .. Len(sent)
  PROVE  sent[n].len \in Nat /\ sent[n].at \in Offsets
<1>1. sent[n] \in Messages
  OBVIOUS
<1>. QED
  BY <1>1 DEF Messages

\* What the size word may read as is a length.
LEMMA SizeLoadsType ==
  ASSUME sent \in Seq(Messages), NEW off
  PROVE  SizeLoads(off) \subseteq Nat
<1>1. GarbageSizes \subseteq Nat
  BY LensAssumption, RingAssumption
<1> DEFINE T == {sent[n].len : n \in {m \in 1 .. Len(sent) : Byte(m, 0) \in SizeWord(off)}}
<1>2. T \subseteq Nat
  BY MessageFacts
<1>3. SizeLoads(off) = {0} \/ SizeLoads(off) = T \/ SizeLoads(off) = GarbageSizes
  BY DEF SizeLoads
<1>4. {0} \subseteq Nat
  OBVIOUS
<1>. HIDE DEF T
<1>. QED
  BY <1>1, <1>2, <1>3, <1>4, Zenon

\* Lengths of sequences that Append extends.
LEMMA AppendNotEmpty ==
  ASSUME NEW S, NEW s \in Seq(S), NEW e \in S
  PROVE  Append(s, e) \in Seq(S) /\ Append(s, e) # <<>>
<1>1. Len(Append(s, e)) = Len(s) + 1 /\ Len(s) \in Nat /\ Len(<<>>) = 0
  OBVIOUS
<1>. QED
  BY <1>1

\* At every step of every behaviour the offsets lie on a word of one of the
\* two pages, and every copy, store and completion is what its type says.
THEOREM TypeCorrect == Spec => []TypeOK
<1>1. Init => TypeOK
  <2> SUFFICES ASSUME Init PROVE TypeOK
    OBVIOUS
  <2>1. 0 \in Offsets
    BY WordAssumption, RingAssumption, MultipleMod DEF Offsets
  <2>2. Cleared \in Cells
    BY DEF Cleared, Cells
  <2>. QED
    BY <2>1, <2>2 DEF Init, TypeOK
<1>2. TypeOK /\ [Next]_vars => TypeOK'
  <2> SUFFICES ASSUME TypeOK, [Next]_vars PROVE TypeOK'
    OBVIOUS
  <2>. USE DEF TypeOK
  <2>0. /\ write \in Nat /\ read \in Nat
    BY DEF Offsets
  <2>1. ASSUME NEW len \in plan.send, Post(len) PROVE TypeOK'
    BY <2>1, LensAssumption DEF Post, receiverVars
  <2>2. CASE WritePayload
    <3>1. NewOffset(write, want) \in Offsets
      BY <2>0, NewOffsetInOffsets
    <3>2. PutAfterBarrier(PayloadStores(Len(sent) + 1, write, want)) \in Seq(SUBSET Stores)
      <4>1. PayloadStores(Len(sent) + 1, write, want) \in SUBSET Stores
        BY <2>0, PayloadStoresType
      <4>. QED
        BY <4>1, PutType
    <3>3. [len |-> want, at |-> write] \in Messages
      BY DEF Messages
    <3>4. /\ Append(sent, [len |-> want, at |-> write]) \in Seq(Messages)
          /\ Append(sent, [len |-> want, at |-> write]) # <<>>
      BY <3>3, AppendNotEmpty
    <3>. QED
      BY <2>2, <3>1, <3>2, <3>4 DEF WritePayload, receiverVars
  <2>3. CASE WriteSize
    <3>1. Len(sent) \in 1 .. Len(sent)
      <4>1. sent # <<>>
        BY <2>3 DEF WriteSize
      <4>. QED
        BY <4>1
    <3>2. SizeStore(Len(sent), sent[Len(sent)].at) \in Stores
      <4>1. Len(sent) \in Nat /\ sent[Len(sent)].at \in Nat
        BY <3>1, MessageFacts DEF Offsets
      <4>. QED
        BY <4>1, SizeStoreType
    <3>3. PutAfterBarrier({SizeStore(Len(sent), sent[Len(sent)].at)}) \in Seq(SUBSET Stores)
      BY <3>2, PutType
    <3>. QED
      BY <2>3, <3>3 DEF WriteSize, receiverVars
  <2>4. CASE Land
    <3>1. PICK s \in Head(wire) :
            /\ mem' = Overwrite(s)
            /\ wire' = IF Head(wire) = {s} THEN Tail(wire)
                       ELSE [wire EXCEPT ![1] = wire[1] \ {s}]
      BY <2>4 DEF Land
    <3>2. wire # <<>> /\ Head(wire) \in SUBSET Stores
      BY <2>4 DEF Land
    <3>3. s \in Stores
      BY <3>2
    <3>4. Overwrite(s) \in [0 .. (RingSize - 1) -> Cells]
      BY <3>3 DEF Overwrite, Stores
    <3>5. wire' \in Seq(SUBSET Stores)
      <4>1. Tail(wire) \in Seq(SUBSET Stores)
        BY <3>2
      <4>2. [wire EXCEPT ![1] = wire[1] \ {s}] \in Seq(SUBSET Stores)
        BY <3>2
      <4>. QED
        BY <3>1, <4>1, <4>2
    <3>. QED
      BY <2>4, <3>1, <3>4, <3>5 DEF Land, senderVars, receiverVars
  <2>5. CASE LandStatus
    BY <2>5 DEF LandStatus, senderVars, receiverVars
  <2>6. ASSUME NEW len \in plan.recv, LoadSize(len) PROVE TypeOK'
    BY <2>6, SizeLoadsType, LensAssumption DEF LoadSize, senderVars
  <2>7. CASE CopyOut
    <3>1. Copied \in Nat
      BY DEF Copied, Smaller
    <3>2. ASSUME NEW i \in 1 .. Copied PROVE PayloadByte(i) \in Cells
      <4>1. Word + i - 1 \in Nat
        BY <3>1, WordAssumption
      <4>2. Pos(read, Word + i - 1) \in 0 .. (RingSize - 1)
        BY <2>0, <4>1, PosInRing
      <4>. QED
        BY <4>2 DEF PayloadByte
    <3>3. [i \in 1 .. Copied |-> PayloadByte(i)] \in Seq(Cells)
      BY <3>1, <3>2
    <3>. QED
      BY <2>7, <3>3 DEF CopyOut, senderVars
  <2>8. CASE ClearRead
    <3>1. Cleared \in Cells
      BY DEF Cleared, Cells
    <3>. QED
      BY <2>8, <3>1 DEF ClearRead, senderVars
  <2>9. CASE PublishRead
    <3>1. NextRead \in Offsets
      BY <2>0, NewOffsetInOffsets DEF NextRead
    <3>2. PublishedStatus \in Seq(Offsets)
      BY <3>1 DEF PublishedStatus
    <3>3. [data |-> data, toosmall |-> Copied < size] \in Completions
      <4>1. (Copied < size) \in BOOLEAN
        OBVIOUS
      <4>. QED
        BY <4>1, Zenon DEF Completions
    <3>4. <<>> \in Seq(Cells)
      OBVIOUS
    <3>. QED
      BY <2>9, <3>1, <3>2, <3>3, <3>4 DEF PublishRead, senderVars
  <2>10. CASE UNCHANGED vars
    BY <2>10 DEF vars, senderVars, receiverVars
  <2>. QED
    BY <2>1, <2>2, <2>3, <2>4, <2>5, <2>6, <2>7, <2>8, <2>9, <2>10 DEF Next
<1>. QED
  BY <1>1, <1>2, PTL DEF Spec


-----------------------------------------------------------------------------

\* The buffers of the application hold every message.
Uncut == \A s \in plan.send, r \in plan.recv : s <= r

\* All messages take the same number of bytes, and the ring is a whole number
\* of them: all size words lie at the same places, round after round.
EvenSlots == \A s, t \in plan.send : Slot(s) = Slot(t) /\ RingSize % Slot(s) = 0

\* Either way, no byte that a cut leaves behind lies where a size word goes.
SizesKept == Uncut \/ EvenSlots

(* The layout of the ring: messages that are not yet received lie one      *)
(* behind the other, from the read offset to the write offset.             *)
Unread == (Len(got) + 1) .. Len(sent)
Start(n) == Dist(read, sent[n].at)
End(n) == Start(n) + Slot(sent[n].len)
Used == Dist(read, write)
Lag(x) == Dist(x, read)

Layout ==
  /\ Len(got) <= Len(sent)
  /\ sendPc = "size" => Unread # {}
  /\ IF Unread = {} THEN write = read ELSE sent[Len(got) + 1].at = read
  /\ \A n \in Unread : End(n) = IF n = Len(sent) THEN Used ELSE Start(n + 1)
  /\ \A n \in Unread : End(n) <= Used
  /\ \A n, m \in Unread : n < m => End(n) <= Start(m)

\* Read offsets on their way to the sender, and the one it sees, lag behind.
StatusLags ==
  /\ Lag(visible) + Used <= RingSize
  /\ \A j \in 1 .. Len(statusWire) : Lag(statusWire[j]) <= Lag(visible)
  /\ \A j, k \in 1 .. Len(statusWire) : j < k => Lag(statusWire[k]) <= Lag(statusWire[j])

LengthsAllowed ==
  /\ \A n \in 1 .. Len(sent) : sent[n].len \in plan.send
  /\ sendPc = "try" => want \in plan.send
  /\ recvPc # "idle" => room \in plan.recv

OffsetInv == Layout /\ StatusLags /\ LengthsAllowed

\* With even slots, messages start at multiples of the slot.
OnSlots ==
  EvenSlots => \A s \in plan.send :
    /\ write % Slot(s) = 0
    /\ \A n \in 1 .. Len(sent) : sent[n].at % Slot(s) = 0

(* The bytes: every byte of an unread message is stored once.              *)
\* The store of byte i of message n: its size word, or a byte of its payload.
Store(n, i) ==
  [at |-> IF i = 0 THEN {Pos(sent[n].at, k) : k \in 0 .. (Word - 1)}
          ELSE {Pos(sent[n].at, Word + i - 1)},
   byte |-> Byte(n, i)]
Indices(n) == 0 .. sent[n].len

\* It was issued, is still on the wire, or has landed.
Issued(n, i) == i # 0 \/ n < Len(sent) \/ sendPc # "size"
Pending(n, i) == \E e \in 1 .. Len(wire) : Store(n, i) \in wire[e]
Landed(n, i) == Issued(n, i) /\ ~Pending(n, i)

\* The first message whose bytes the receiver has not cleared.
First == Len(got) + 1 + (IF recvPc = "publish" THEN 1 ELSE 0)

\* The wire holds stores of unread messages, each once, oldest message first
\* and the size of a message last.
WireStores ==
  \A e \in 1 .. Len(wire) : \A s \in wire[e] :
    /\ s.byte.msg \in Unread /\ s.byte.idx \in Indices(s.byte.msg)
    /\ Issued(s.byte.msg, s.byte.idx)
    /\ s = Store(s.byte.msg, s.byte.idx)
WireOnce == \A e, f \in 1 .. Len(wire) : \A s \in wire[e] : s \in wire[f] => e = f
WireOrder ==
  \A e, f \in 1 .. Len(wire) : e <= f => \A s \in wire[e], t \in wire[f] :
    \/ s.byte.msg < t.byte.msg
    \/ s.byte.msg = t.byte.msg /\ (s.byte.idx = 0 => t.byte.idx = 0)
SizeLandsLast ==
  \A n \in Unread : Landed(n, 0) => \A i \in Indices(n) : ~Pending(n, i)

\* A cut may have left this byte behind: no size word of the slots covers it.
Stale(p) == ~Uncut /\ \A s \in plan.send : p % Slot(s) >= Word

\* A byte of the ring that is neither clear nor left behind by a cut has
\* landed; what has landed is there.
MemFromWire ==
  \A p \in 0 .. (RingSize - 1) : mem[p] # Cleared /\ ~Stale(p) =>
    LET n == mem[p].msg
        i == mem[p].idx
    IN /\ n \in First .. Len(sent) /\ i \in Indices(n)
       /\ p \in Store(n, i).at
       /\ Landed(n, i)
LandedIsThere ==
  \A n \in First .. Len(sent) : \A i \in Indices(n) :
    Landed(n, i) => \A p \in Store(n, i).at : mem[p] = Byte(n, i)

\* The receiver is at a message whose size, and so all of it, has landed.
ReceivesLanded ==
  /\ recvPc # "idle" =>
       /\ Unread # {} /\ size = sent[Len(got) + 1].len
       /\ Landed(Len(got) + 1, 0)
  /\ recvPc \in {"clear", "publish"} => data = Payload(Len(got) + 1, Copied)

ByteInv ==
  /\ WireStores /\ WireOnce /\ WireOrder /\ SizeLandsLast
  /\ MemFromWire /\ LandedIsThere /\ ReceivesLanded

IInv == TypeOK /\ (SizesKept => OffsetInv /\ OnSlots /\ ByteInv)

-----------------------------------------------------------------------------
(* Arithmetic: offsets are multiples of the word, on a circle of two rings. *)

\* Quotients are unique.
LEMMA DivUnique ==
  ASSUME NEW m \in Nat \ {0}, NEW a \in Nat, NEW q \in Nat, NEW r \in 0 .. (m - 1),
         a = m * q + r
  PROVE  a \div m = q
OBVIOUS

\* Remainders of numbers below twice the modulus.
LEMMA ModOnce ==
  ASSUME NEW m \in Nat \ {0}, NEW a \in Nat, a < 2 * m
  PROVE  a % m = IF a < m THEN a ELSE a - m
<1>1. CASE a < m
  BY <1>1, ModUnique, a = m * 0 + a
<1>2. CASE a >= m
  BY <1>2, ModUnique, a - m \in 0 .. (m - 1), a = m * 1 + (a - m)
<1> QED
  BY <1>1, <1>2

\* A whole number of turns leaves the remainder.
LEMMA ModTurn ==
  ASSUME NEW m \in Nat \ {0}, NEW a \in Nat
  PROVE  (a + 2 * m) % m = a % m
<1> DEFINE q == a \div m
           r == a % m
<1>1. q \in Nat /\ r \in 0 .. (m - 1) /\ a = m * q + r
  BY DivMod
<1>2. a + 2 * m = m * (q + 2) + r
  <2> HIDE DEF q, r
  <2> QED BY <1>1
<1> HIDE DEF q
<1>3. (a + 2 * m) % m = r
  <2> HIDE DEF r
  <2> QED BY <1>1, <1>2, ModUnique, q + 2 \in Nat, a + 2 * m \in Nat
<1> QED
  BY <1>3

\* Numbers less than the modulus apart have different remainders.
LEMMA ModInjective ==
  ASSUME NEW m \in Nat \ {0}, NEW a \in Nat, NEW b \in Nat, a <= b, b < a + m,
         a % m = b % m
  PROVE  a = b
<1> DEFINE q == a \div m
           k == b \div m
           r == a % m
<1>1. q \in Nat /\ k \in Nat /\ r \in 0 .. (m - 1) /\ a = m * q + r /\ b = m * k + r
  BY DivMod
<1> HIDE DEF q, k, r
<1>2. m * k - m * q = m * (k - q)
  BY <1>1
<1>3. ~ (k - q >= 1)
  <2> SUFFICES ASSUME k - q >= 1 PROVE FALSE
    OBVIOUS
  <2>1. m * (k - q) >= m
    BY <1>1
  <2> QED BY <1>1, <1>2, <2>1
<1>4. ~ (q - k >= 1)
  <2> SUFFICES ASSUME q - k >= 1 PROVE FALSE
    OBVIOUS
  <2>1. m * (q - k) >= m
    BY <1>1
  <2>2. m * q - m * k = m * (q - k)
    BY <1>1
  <2> QED BY <1>1, <2>1, <2>2
<1>5. q = k
  BY <1>1, <1>3, <1>4
<1> QED
  BY <1>1, <1>5

\* Sums and differences of multiples are multiples.
LEMMA MultiplesSum ==
  ASSUME NEW m \in Nat \ {0}, NEW a \in Nat, NEW b \in Nat, a % m = 0, b % m = 0
  PROVE  (a + b) % m = 0 /\ (b <= a => (a - b) % m = 0)
<1>1. PICK x, y : x = a \div m /\ y = b \div m
  OBVIOUS
<1>2. x \in Nat /\ y \in Nat /\ a = m * x /\ b = m * y
  BY <1>1, DivMod
<1>3. (a + b) % m = 0
  <2>1. x + y \in Nat /\ a + b = m * (x + y)
    BY <1>2
  <2> QED BY <2>1, MultipleMod
<1>4. ASSUME b <= a PROVE (a - b) % m = 0
  <2>1. a - b = m * (x - y)
    BY <1>2
  <2>2. x - y \in Nat
    <3> SUFFICES ASSUME x - y <= -1 PROVE FALSE
      BY <1>2
    <3>1. m * (x - y) <= -m
      BY <1>2
    <3> QED BY <1>4, <2>1, <3>1
  <2> QED BY <2>1, <2>2, MultipleMod
<1> QED
  BY <1>3, <1>4

\* A whole number of words.
Aligned(n) == n \in Nat /\ n % Word = 0

\* Sums and differences of whole words, and none lies between two of them.
LEMMA AlignedSum ==
  ASSUME NEW a, NEW b, Aligned(a), Aligned(b)
  PROVE  Aligned(a + b) /\ (b <= a => Aligned(a - b)) /\ (a < b + Word => a <= b)
<1> DEFINE x == a \div Word
           y == b \div Word
<1>1. Word \in Nat \ {0}
  BY WordAssumption
<1>2. x \in Nat /\ y \in Nat /\ a = Word * x /\ b = Word * y
  BY <1>1, DivMod DEF Aligned
<1> HIDE DEF x, y
<1>3. a + b = Word * (x + y)
  BY <1>1, <1>2
<1>4. Aligned(a + b)
  BY <1>1, <1>2, <1>3, MultipleMod, x + y \in Nat DEF Aligned
<1>5. a - b = Word * (x - y)
  BY <1>1, <1>2
<1>6. ASSUME x < y PROVE a < b
  <2>1. Word * (y - x) >= Word
    BY <1>1, <1>2, <1>6
  <2>2. b - a = Word * (y - x)
    BY <1>1, <1>2
  <2> QED BY <1>1, <1>2, <2>1, <2>2
<1>7. ASSUME x > y PROVE a >= b + Word
  <2>1. Word * (x - y) >= Word
    BY <1>1, <1>2, <1>7
  <2> QED BY <1>1, <1>2, <1>5, <2>1
<1>8. ASSUME b <= a PROVE Aligned(a - b)
  <2>1. x - y \in Nat
    BY <1>2, <1>6, <1>8
  <2> QED BY <1>1, <1>5, <2>1, MultipleMod, SMTT(30) DEF Aligned
<1>9. a < b + Word => a <= b
  BY <1>1, <1>2, <1>7
<1> QED
  BY <1>4, <1>8, <1>9

\* Offsets and pages are whole words.
LEMMA OffsetsAligned ==
  /\ \A o \in Offsets : Aligned(o) /\ o < 2 * RingSize
  /\ Aligned(RingSize) /\ Aligned(2 * RingSize)
<1>1. Aligned(RingSize)
  BY RingAssumption DEF Aligned
<1>2. Aligned(RingSize + RingSize)
  BY <1>1, AlignedSum
<1>3. RingSize + RingSize = 2 * RingSize
  BY RingAssumption
<1> QED
  BY <1>1, <1>2, <1>3, RingAssumption DEF Offsets, Aligned

\* The bytes a message takes: its size word, its payload and the padding, and
\* no more than any whole number of words that holds the first two.
LEMMA SlotFacts ==
  ASSUME NEW len \in Nat
  PROVE  /\ Aligned(Slot(len)) /\ Slot(len) >= len + Word
         /\ \A x : Aligned(x) /\ len + Word <= x => Slot(len) <= x
<1>1. Word \in Nat \ {0} /\ len + Word + (Word - 1) \in Nat
  BY WordAssumption
<1>2. /\ Slot(len) \in Nat /\ Slot(len) <= len + Word + (Word - 1)
      /\ len + Word + (Word - 1) < Slot(len) + Word /\ Slot(len) % Word = 0
  BY <1>1, AlignDownFacts DEF Slot
<1>3. ASSUME NEW x, Aligned(x), len + Word <= x PROVE Slot(len) <= x
  <2>1. Slot(len) < x + Word
    BY <1>1, <1>2, <1>3 DEF Aligned
  <2> QED BY <1>2, <1>3, <2>1, AlignedSum DEF Aligned
<1> QED
  BY <1>1, <1>2, <1>3 DEF Aligned

\* new_offset goes forward by what the message takes.
LEMMA NewOffsetIs ==
  ASSUME NEW o \in Offsets, NEW len \in Nat, Slot(len) <= RingSize
  PROVE  NewOffset(o, len) = IF o + Slot(len) < 2 * RingSize THEN o + Slot(len)
                             ELSE o + Slot(len) - 2 * RingSize
<1> DEFINE y == len + Word + (Word - 1)
           x == o \div Word
           q == y \div Word
           r == y % Word
<1>1. Word \in Nat \ {0} /\ RingSize \in Nat \ {0} /\ y \in Nat
  BY WordAssumption, RingAssumption
<1>2. x \in Nat /\ o \in Nat /\ o = Word * x /\ o < 2 * RingSize
  <2>1. o \in Nat /\ o % Word = 0 /\ o < 2 * RingSize
    BY OffsetsAligned DEF Aligned
  <2>2. o \div Word \in Nat /\ o = Word * (o \div Word) + (o % Word)
    BY <1>1, <2>1, DivMod
  <2> HIDE DEF q, r, y
  <2>3. x \in Nat /\ o = Word * x + (o % Word)
    BY <2>2
  <2> HIDE DEF x
  <2> QED BY <1>1, <2>1, <2>3
<1>3. q \in Nat /\ r \in 0 .. (Word - 1) /\ y = Word * q + r
  BY <1>1, DivMod
<1>4. o + y = Word * (x + q) + r
  <2> HIDE DEF x, q, r, y
  <2> QED BY <1>1, <1>2, <1>3
<1>5. (o + y) \div Word = x + q
  <2> HIDE DEF x, q, r, y
  <2> QED BY <1>1, <1>2, <1>3, <1>4, DivUnique, x + q \in Nat, o + y \in Nat
<1>6. AlignDown(o + y) = o + Slot(len)
  <2>1. AlignDown(o + y) = Word * (x + q) /\ Slot(len) = Word * q
    BY <1>5 DEF AlignDown, Slot
  <2> HIDE DEF x, q
  <2> QED BY <1>1, <1>2, <1>3, <2>1
<1>7. Slot(len) \in Nat
  BY SlotFacts DEF Aligned
<1>8. o + y = o + len + Word + (Word - 1)
  BY <1>1, <1>2
<1>9. NewOffset(o, len) = (o + Slot(len)) % (2 * RingSize)
  BY <1>6, <1>8 DEF NewOffset
<1> HIDE DEF x, q, r, y
<1>10. PICK a : a = o + Slot(len)
  OBVIOUS
<1>11. 2 * RingSize \in Nat \ {0} /\ a \in Nat /\ a < 2 * (2 * RingSize)
  BY <1>1, <1>2, <1>7, <1>10
<1>12. a % (2 * RingSize) = IF a < 2 * RingSize THEN a ELSE a - 2 * RingSize
  BY <1>11, ModOnce
<1>13. NewOffset(o, len) = a % (2 * RingSize)
  BY <1>9, <1>10
<1> QED
  BY <1>1, <1>2, <1>7, <1>10, <1>11, <1>12, <1>13

\* The distance from one offset forward to another.
LEMMA DistFacts ==
  ASSUME NEW a \in Offsets, NEW b \in Offsets
  PROVE  /\ Aligned(Dist(a, b)) /\ Dist(a, b) \in Nat /\ Dist(a, b) < 2 * RingSize
         /\ Dist(a, a) = 0 /\ (Dist(a, b) = 0 => a = b)
<1>1. /\ Aligned(a) /\ Aligned(b) /\ Aligned(2 * RingSize) /\ RingSize \in Nat \ {0}
      /\ a \in Nat /\ b \in Nat /\ a < 2 * RingSize /\ b < 2 * RingSize
  BY OffsetsAligned, RingAssumption DEF Aligned
<1>2. CASE a <= b
  <2>1. Dist(a, b) = b - a
    BY <1>2 DEF Dist
  <2>2. Aligned(b - a)
    BY <1>1, <1>2, AlignedSum
  <2> QED BY <1>1, <1>2, <2>1, <2>2 DEF Dist
<1>3. CASE b < a
  <2>1. PICK c : c = b + 2 * RingSize
    OBVIOUS
  <2>2. Aligned(c) /\ a <= c
    <3>1. Aligned(b + 2 * RingSize)
      BY <1>1, AlignedSum
    <3> QED BY <1>1, <2>1, <3>1
  <2>3. Aligned(c - a)
    BY <1>1, <2>2, AlignedSum
  <2>4. Dist(a, b) = c - a
    BY <1>1, <1>3, <2>1 DEF Dist
  <2> QED BY <1>1, <1>3, <2>1, <2>3, <2>4 DEF Dist
<1> QED
  BY <1>1, <1>2, <1>3

\* Two ways that do not go round the circle are one.
LEMMA DistSum ==
  ASSUME NEW a \in Offsets, NEW b \in Offsets, NEW c \in Offsets,
         Dist(a, b) + Dist(b, c) < 2 * RingSize
  PROVE  Dist(a, c) = Dist(a, b) + Dist(b, c)
BY OffsetsAligned, RingAssumption DEF Aligned, Dist

\* A point on the way splits it.
LEMMA DistSplit ==
  ASSUME NEW a \in Offsets, NEW b \in Offsets, NEW c \in Offsets, Dist(a, b) <= Dist(a, c)
  PROVE  Dist(b, c) = Dist(a, c) - Dist(a, b)
BY OffsetsAligned, RingAssumption DEF Aligned, Dist

\* new_offset goes forward by what the message takes.
LEMMA NewOffsetDist ==
  ASSUME NEW a \in Offsets, NEW len \in Nat, Slot(len) <= RingSize
  PROVE  NewOffset(a, len) \in Offsets /\ Dist(a, NewOffset(a, len)) = Slot(len)
<1>1. a \in Nat /\ a < 2 * RingSize /\ RingSize \in Nat \ {0}
  BY OffsetsAligned, RingAssumption DEF Aligned
<1>2. NewOffset(a, len) \in Offsets
  BY <1>1, NewOffsetInOffsets
<1>3. Slot(len) \in Nat /\ Slot(len) > 0
  BY SlotFacts, WordAssumption DEF Aligned
<1>4. CASE a + Slot(len) < 2 * RingSize
  BY <1>1, <1>2, <1>3, <1>4, NewOffsetIs DEF Dist
<1>5. CASE a + Slot(len) >= 2 * RingSize
  BY <1>1, <1>2, <1>3, <1>5, NewOffsetIs DEF Dist
<1> QED
  BY <1>1, <1>2, <1>3, <1>4, <1>5

\* remote_space is what is left of the ring beyond the way from r to w.
LEMMA RemoteSpaceIs ==
  ASSUME NEW r \in Offsets, NEW w \in Offsets, Dist(r, w) <= RingSize
  PROVE  RemoteSpace(r, w) = RingSize - Dist(r, w)
BY OffsetsAligned, RingAssumption DEF Aligned, Dist, RemoteSpace

\* The same byte of the ring, counted from another offset.
LEMMA PosShift ==
  ASSUME NEW r \in Offsets, NEW o \in Offsets, NEW k \in Nat
  PROVE  Pos(o, k) = Pos(r, Dist(r, o) + k)
<1>1. /\ r \in Nat /\ o \in Nat /\ RingSize \in Nat \ {0}
      /\ r < 2 * RingSize /\ o < 2 * RingSize
  BY OffsetsAligned, RingAssumption DEF Aligned
<1>2. CASE r <= o
  <2>1. r + (Dist(r, o) + k) = o + k
    BY <1>1, <1>2 DEF Dist
  <2> QED BY <2>1 DEF Pos
<1>3. CASE o < r
  <2>1. r + (Dist(r, o) + k) = (o + k) + 2 * RingSize
    BY <1>1, <1>3 DEF Dist
  <2>2. ((o + k) + 2 * RingSize) % RingSize = (o + k) % RingSize
    BY <1>1, ModTurn, o + k \in Nat
  <2> QED BY <2>1, <2>2 DEF Pos
<1> QED
  BY <1>1, <1>2, <1>3

\* Bytes less than a ring apart are different bytes.
LEMMA PosInjective ==
  ASSUME NEW r \in Offsets, NEW x \in 0 .. (RingSize - 1), NEW y \in 0 .. (RingSize - 1),
         Pos(r, x) = Pos(r, y)
  PROVE  x = y
<1>1. PICK u, v : u = r + x /\ v = r + y
  OBVIOUS
<1>2. u \in Nat /\ v \in Nat /\ r \in Nat /\ RingSize \in Nat \ {0}
  BY <1>1, OffsetsAligned, RingAssumption DEF Aligned
<1>3. u % RingSize = v % RingSize
  BY <1>1 DEF Pos
<1>4. u < v + RingSize /\ v < u + RingSize
  BY <1>1, <1>2
<1>5. u <= v => u = v
  BY <1>2, <1>3, <1>4, ModInjective
<1>6. v <= u => v = u
  BY <1>2, <1>3, <1>4, ModInjective
<1> QED
  BY <1>1, <1>2, <1>5, <1>6

\* In a ring of whole slots, the byte k bytes into a slot is byte k of a slot
\* in every round.
LEMMA PosInSlot ==
  ASSUME NEW m \in Nat \ {0}, RingSize % m = 0, NEW off \in Nat, off % m = 0,
         NEW k \in 0 .. (m - 1)
  PROVE  Pos(off, k) % m = k
<1>1. RingSize \in Nat \ {0} /\ off + k \in Nat
  BY RingAssumption
<1>2. PICK x, y, q, r : /\ x = off \div m /\ y = RingSize \div m
                        /\ q = (off + k) \div RingSize /\ r = Pos(off, k)
  OBVIOUS
<1>3. x \in Nat /\ off = m * x
  BY <1>2, DivMod
<1>4. y \in Nat /\ RingSize = m * y
  <2>1. PICK a : a = RingSize
    OBVIOUS
  <2>2. a \div m \in Nat /\ a = m * (a \div m) + (a % m)
    BY <1>1, <2>1, DivMod
  <2> QED BY <1>2, <2>1, <2>2
<1>5. q \in Nat /\ r \in Nat /\ off + k = RingSize * q + r
  <2>1. PICK a, R : a = off + k /\ R = RingSize
    OBVIOUS
  <2>2. a \div R \in Nat /\ a % R \in 0 .. (R - 1) /\ a = R * (a \div R) + (a % R)
    BY <1>1, <2>1, DivMod
  <2>3. q = a \div R /\ r = a % R
    BY <1>2, <2>1 DEF Pos
  <2> QED BY <1>1, <2>1, <2>2, <2>3
<1>6. PICK z : z = x - y * q
  OBVIOUS
<1>7. z \in Int /\ r = m * z + k
  <2>1. RingSize * q = m * (y * q)
    BY <1>4, <1>5
  <2>2. m * x - m * (y * q) = m * z
    BY <1>3, <1>4, <1>5, <1>6
  <2> QED BY <1>3, <1>4, <1>5, <1>6, <2>1, <2>2
<1>8. z \in Nat
  <2> SUFFICES ASSUME z <= -1 PROVE FALSE
    BY <1>7
  <2>1. m * z <= -m
    BY <1>7
  <2> QED BY <1>5, <1>7, <2>1
<1> QED
  BY <1>2, <1>5, <1>7, <1>8, ModUnique

-----------------------------------------------------------------------------
(* Where the stores of unread messages go: no two to the same byte.        *)

\* How far behind the read offset the bytes of a store are.
Places(n, i) == IF i = 0 THEN Start(n) .. (Start(n) + Word - 1) ELSE {Start(n) + Word + i - 1}

Apart ==
  \A n, m \in Unread : \A i \in Indices(n), j \in Indices(m) :
    \A p \in Store(n, i).at : p \in Store(m, j).at => n = m /\ i = j

\* An unread message was sent; it begins and ends within the ring.
LEMMA UnreadFacts ==
  ASSUME TypeOK, OffsetInv, NEW n \in Unread
  PROVE  /\ n \in 1 .. Len(sent) /\ n \in Nat
         /\ sent[n].at \in Offsets /\ sent[n].len \in Nat
         /\ Start(n) \in Nat /\ Start(n) + sent[n].len + Word <= End(n)
         /\ End(n) \in Nat /\ End(n) <= Used /\ Used <= RingSize /\ Used \in Nat
<1>1. n \in 1 .. Len(sent) /\ n \in Nat
  BY DEF Unread, TypeOK
<1>2. sent[n].at \in Offsets /\ sent[n].len \in Nat
  BY <1>1, MessageFacts DEF TypeOK
<1>3. Start(n) \in Nat /\ Used \in Nat /\ Lag(visible) \in Nat
  BY <1>2, DistFacts DEF Start, Used, Lag, TypeOK
<1>4. Slot(sent[n].len) \in Nat /\ Slot(sent[n].len) >= sent[n].len + Word
  BY <1>2, SlotFacts DEF Aligned
<1>5. Start(n) + sent[n].len + Word <= End(n) /\ End(n) \in Nat
  BY <1>2, <1>3, <1>4, WordAssumption DEF End
<1>6. End(n) <= Used /\ Used <= RingSize
  <2>1. Lag(visible) + Used <= RingSize
    BY DEF OffsetInv, StatusLags
  <2>2. End(n) <= Used
    BY DEF OffsetInv, Layout
  <2> QED BY <1>3, <2>1, <2>2, RingAssumption
<1> QED
  BY <1>1, <1>2, <1>3, <1>5, <1>6

\* The bytes of a store, counted from the read offset.
LEMMA StorePlaces ==
  ASSUME TypeOK, OffsetInv, NEW n \in Unread, NEW i \in Indices(n)
  PROVE  /\ Store(n, i).at = {Pos(read, k) : k \in Places(n, i)}
         /\ Places(n, i) \subseteq Start(n) .. (End(n) - 1)
         /\ Places(n, i) \subseteq 0 .. (RingSize - 1)
<1>1. /\ sent[n].at \in Offsets /\ sent[n].len \in Nat /\ read \in Offsets
      /\ Start(n) \in Nat /\ Start(n) + sent[n].len + Word <= End(n)
      /\ End(n) \in Nat /\ End(n) <= Used /\ Used <= RingSize /\ Used \in Nat
      /\ Word \in Nat \ {0} /\ RingSize \in Nat
  BY UnreadFacts, WordAssumption, RingAssumption DEF TypeOK
<1>2. i \in Nat /\ i <= sent[n].len
  BY <1>1 DEF Indices
<1>3. Places(n, i) \subseteq Start(n) .. (End(n) - 1)
  BY <1>1, <1>2 DEF Places
<1>4. \A k \in Nat : Pos(sent[n].at, k) = Pos(read, Start(n) + k)
  BY <1>1, PosShift DEF Start
<1>5. CASE i = 0
  <2>1. {Pos(sent[n].at, k) : k \in 0 .. (Word - 1)}
          = {Pos(read, Start(n) + k) : k \in 0 .. (Word - 1)}
    BY <1>1, <1>4
  <2>2. {Pos(read, Start(n) + k) : k \in 0 .. (Word - 1)}
          = {Pos(read, k) : k \in Start(n) .. (Start(n) + Word - 1)}
    <3>1. \A k \in 0 .. (Word - 1) : Start(n) + k \in Start(n) .. (Start(n) + Word - 1)
      BY <1>1
    <3>2. \A k \in Start(n) .. (Start(n) + Word - 1) :
            k - Start(n) \in 0 .. (Word - 1) /\ k = Start(n) + (k - Start(n))
      BY <1>1
    <3> QED BY <3>1, <3>2
  <2> QED BY <1>3, <1>1, <1>5, <2>1, <2>2 DEF Store, Places
<1>6. CASE i # 0
  <2>1. Word + i - 1 \in Nat /\ Start(n) + (Word + i - 1) = Start(n) + Word + i - 1
    BY <1>1, <1>2
  <2>2. Pos(sent[n].at, Word + i - 1) = Pos(read, Start(n) + Word + i - 1)
    BY <1>4, <2>1
  <2> QED BY <1>1, <1>3, <1>6, <2>2 DEF Store, Places
<1> QED
  BY <1>5, <1>6

\* No byte of the ring is the goal of two stores of unread messages.
LEMMA StoresApart == TypeOK /\ OffsetInv => Apart
<1> SUFFICES ASSUME TypeOK, OffsetInv,
                    NEW n \in Unread, NEW m \in Unread,
                    NEW i \in Indices(n), NEW j \in Indices(m),
                    NEW p \in Store(n, i).at, p \in Store(m, j).at
             PROVE  n = m /\ i = j
  BY DEF Apart
<1>1. /\ n \in Nat /\ Start(n) \in Nat /\ End(n) \in Nat /\ sent[n].len \in Nat
      /\ m \in Nat /\ Start(m) \in Nat /\ End(m) \in Nat /\ sent[m].len \in Nat
      /\ Word \in Nat \ {0} /\ read \in Offsets
  BY UnreadFacts, WordAssumption DEF TypeOK
<1>2. PICK k \in Places(n, i) : p = Pos(read, k)
  BY StorePlaces
<1>3. PICK l \in Places(m, j) : p = Pos(read, l)
  BY StorePlaces
<1>4. /\ k \in Start(n) .. (End(n) - 1) /\ k \in 0 .. (RingSize - 1)
      /\ l \in Start(m) .. (End(m) - 1) /\ l \in 0 .. (RingSize - 1)
  BY StorePlaces
<1>5. k = l
  BY <1>1, <1>2, <1>3, <1>4, PosInjective
<1>6. ~(n < m) /\ ~(m < n)
  <2>1. n < m => End(n) <= Start(m)
    BY DEF OffsetInv, Layout
  <2>2. m < n => End(m) <= Start(n)
    BY DEF OffsetInv, Layout
  <2> QED BY <1>1, <1>4, <1>5, <2>1, <2>2
<1>7. n = m
  BY <1>1, <1>6
<1>8. i \in Nat /\ j \in Nat
  BY <1>1 DEF Indices
<1>9. i = j
  BY <1>1, <1>2, <1>3, <1>5, <1>7, <1>8 DEF Places
<1> QED
  BY <1>7, <1>9

-----------------------------------------------------------------------------
(* The offsets.                                                            *)

\* A step that moves no offset keeps them.
LEMMA OffsetsStay ==
  ASSUME OffsetInv, UNCHANGED <<sent, got, read, write, visible, statusWire>>,
         LengthsAllowed', sendPc' = "size" => sendPc = "size"
  PROVE  OffsetInv'
<1>1. UNCHANGED <<Unread, Used>> /\ \A n : Start(n)' = Start(n) /\ End(n)' = End(n)
  BY DEF Unread, Used, Start, End
<1>2. Layout'
  BY <1>1 DEF OffsetInv, Layout
<1>3. StatusLags'
  BY <1>1 DEF OffsetInv, StatusLags, Lag
<1> QED
  BY <1>2, <1>3 DEF OffsetInv

\* What try_send finds free is free: it sees the read offset late.
LEMMA SpaceIsThere ==
  ASSUME TypeOK, OffsetInv, sendPc = "try", want + Word <= RemoteSpace(visible, write)
  PROVE  /\ Slot(want) \in Nat /\ Slot(want) <= RingSize
         /\ Dist(visible, write) = Lag(visible) + Used
         /\ Lag(visible) + Used + Slot(want) <= RingSize
<1>1. /\ visible \in Offsets /\ read \in Offsets /\ write \in Offsets /\ want \in Nat
      /\ RingSize \in Nat \ {0}
  BY RingAssumption DEF TypeOK
<1>2. Lag(visible) + Used <= RingSize /\ Lag(visible) \in Nat /\ Used \in Nat
  BY <1>1, DistFacts DEF OffsetInv, StatusLags, Lag, Used
<1>3. Dist(visible, write) = Lag(visible) + Used
  BY <1>1, <1>2, DistSum DEF Lag, Used
<1>4. RemoteSpace(visible, write) = RingSize - Dist(visible, write)
  BY <1>1, <1>2, <1>3, RemoteSpaceIs
<1>5. Aligned(RingSize - Dist(visible, write))
  BY <1>1, <1>2, <1>3, OffsetsAligned, DistFacts, AlignedSum
<1>6. Slot(want) <= RingSize - Dist(visible, write) /\ Slot(want) \in Nat
  BY <1>1, <1>4, <1>5, SlotFacts DEF Aligned
<1> QED
  BY <1>1, <1>2, <1>3, <1>6

\* A message goes behind the unread ones.
LEMMA OffsetsWritePayload ==
  ASSUME TypeOK, OffsetInv, WritePayload
  PROVE  OffsetInv'
<1>0. PICK N : N = Len(sent) + 1
  OBVIOUS
<1>1. /\ sendPc = "try" /\ want + Word <= RemoteSpace(visible, write)
      /\ sent' = Append(sent, [len |-> want, at |-> write])
      /\ write' = NewOffset(write, want) /\ sendPc' = "size"
      /\ UNCHANGED <<plan, got, read, visible, statusWire, recvPc, room>>
  BY DEF WritePayload, receiverVars
<1>2. /\ Slot(want) \in Nat /\ Slot(want) <= RingSize
      /\ Lag(visible) + Used + Slot(want) <= RingSize
  BY <1>1, SpaceIsThere
<1>3. /\ visible \in Offsets /\ read \in Offsets /\ write \in Offsets /\ want \in Nat
      /\ Len(sent) \in Nat /\ Len(got) \in Nat /\ RingSize \in Nat \ {0}
  BY RingAssumption DEF TypeOK
<1>4. Lag(visible) \in Nat /\ Used \in Nat
  BY <1>3, DistFacts DEF Lag, Used
<1>5. write' \in Offsets /\ Dist(write, write') = Slot(want)
  BY <1>1, <1>2, <1>3, NewOffsetDist
<1>6. Used' = Used + Slot(want)
  BY <1>1, <1>2, <1>3, <1>4, <1>5, DistSum DEF Used
<1>7. Len(sent') = N /\ \A n \in 1 .. Len(sent) : sent'[n] = sent[n]
  BY <1>0, <1>1, <1>3 DEF TypeOK
<1>8. sent'[N] = [len |-> want, at |-> write]
  BY <1>0, <1>1, <1>3 DEF TypeOK
<1>9. Len(got) <= Len(sent) /\ Unread' = Unread \cup {N} /\ Unread \subseteq 1 .. Len(sent)
  BY <1>0, <1>1, <1>3, <1>7 DEF OffsetInv, Layout, Unread
<1>10. ASSUME NEW n \in Unread PROVE Start(n)' = Start(n) /\ End(n)' = End(n)
  BY <1>1, <1>7, <1>9 DEF Start, End
<1>11. Start(N)' = Used /\ End(N)' = Used'
  <2>1. sent'[N].at = write /\ sent'[N].len = want
    BY <1>8
  <2>2. Start(N)' = Dist(read, write) /\ Slot(sent'[N].len) = Slot(want)
    BY <1>1, <2>1 DEF Start
  <2> QED BY <1>6, <2>2 DEF End, Used
<1>12. ASSUME NEW n \in Unread
       PROVE  n \in Nat /\ n < N /\ End(n) \in Nat /\ End(n) <= Used
  BY <1>0, <1>3, <1>9, UnreadFacts
<1>13. Layout'
  <2>1. Len(got') <= Len(sent')
    BY <1>0, <1>1, <1>3, <1>7, <1>9
  <2>2. Unread' # {}
    BY <1>9
  <2>3. sent'[Len(got') + 1].at = read'
    <3>1. CASE Unread = {}
      <4>1. Len(got) = Len(sent)
        BY <1>3, <1>9, <3>1 DEF Unread
      <4>2. write = read
        BY <3>1 DEF OffsetInv, Layout
      <4> QED BY <1>0, <1>1, <1>8, <4>1, <4>2
    <3>2. CASE Unread # {}
      <4>1. Len(got) + 1 \in 1 .. Len(sent)
        BY <1>3, <3>2 DEF Unread
      <4>2. sent[Len(got) + 1].at = read
        BY <3>2 DEF OffsetInv, Layout
      <4> QED BY <1>0, <1>1, <1>7, <4>1, <4>2
    <3> QED BY <3>1, <3>2
  <2>4. ASSUME NEW n \in Unread'
        PROVE  End(n)' = IF n = Len(sent') THEN Used' ELSE Start(n + 1)'
    <3>1. CASE n = N
      BY <1>7, <1>11, <3>1
    <3>2. CASE n \in Unread /\ n = Len(sent)
      <4>1. End(n) = Used
        BY <3>2 DEF OffsetInv, Layout
      <4> QED BY <1>0, <1>3, <1>7, <1>10, <1>11, <3>2, <4>1
    <3>3. CASE n \in Unread /\ n # Len(sent)
      <4>1. End(n) = Start(n + 1)
        BY <3>3 DEF OffsetInv, Layout
      <4>2. n + 1 \in Unread /\ n # N
        BY <1>0, <1>3, <3>3 DEF Unread
      <4> QED BY <1>0, <1>7, <1>10, <3>3, <4>1, <4>2
    <3> QED BY <1>9, <3>1, <3>2, <3>3
  <2>5. ASSUME NEW n \in Unread' PROVE End(n)' <= Used'
    <3>1. CASE n = N
      BY <1>2, <1>4, <1>6, <1>11, <3>1
    <3>2. CASE n \in Unread
      BY <1>2, <1>4, <1>6, <1>10, <1>12, <3>2
    <3> QED BY <1>9, <3>1, <3>2
  <2>6. ASSUME NEW n \in Unread', NEW m \in Unread', n < m PROVE End(n)' <= Start(m)'
    <3>1. n \in Unread
      <4> SUFFICES ASSUME n = N PROVE FALSE
        BY <1>9
      <4> QED BY <1>0, <1>3, <1>9, <1>12, <2>6
    <3>2. CASE m = N
      BY <1>10, <1>11, <1>12, <3>1, <3>2
    <3>3. CASE m \in Unread
      <4>1. End(n) <= Start(m)
        BY <2>6, <3>1, <3>3 DEF OffsetInv, Layout
      <4> QED BY <1>0, <1>10, <3>1, <3>3, <4>1
    <3> QED BY <1>9, <3>2, <3>3
  <2> QED BY <2>1, <2>2, <2>3, <2>4, <2>5, <2>6 DEF Layout
<1>14. StatusLags'
  <2>1. \A x : Lag(x)' = Dist(x, read)
    BY <1>1 DEF Lag
  <2> QED
    BY <1>1, <1>2, <1>3, <1>4, <1>6, <2>1 DEF OffsetInv, StatusLags, Lag
<1>15. LengthsAllowed'
  <2>1. ASSUME NEW n \in 1 .. Len(sent') PROVE sent'[n].len \in plan'.send
    <3>1. CASE n = N
      BY <1>1, <1>8, <3>1 DEF OffsetInv, LengthsAllowed
    <3>2. CASE n \in 1 .. Len(sent)
      BY <1>1, <1>7, <3>2 DEF OffsetInv, LengthsAllowed
    <3> QED BY <1>0, <1>3, <1>7, <3>1, <3>2
  <2> QED BY <1>1, <2>1 DEF OffsetInv, LengthsAllowed
<1> QED
  BY <1>13, <1>14, <1>15 DEF OffsetInv

\* A status word that lands is one the receiver has sent.
LEMMA OffsetsLandStatus ==
  ASSUME TypeOK, OffsetInv, LandStatus
  PROVE  OffsetInv'
<1>1. /\ statusWire # <<>> /\ visible' = Head(statusWire) /\ statusWire' = Tail(statusWire)
      /\ UNCHANGED <<plan, sent, sendPc, want, write, read, got, recvPc, room>>
  BY DEF LandStatus, senderVars, receiverVars
<1>2. UNCHANGED <<Unread, Used>> /\ \A n : Start(n)' = Start(n) /\ End(n)' = End(n)
  BY <1>1 DEF Unread, Used, Start, End
<1>3. Layout' /\ LengthsAllowed'
  BY <1>1, <1>2 DEF OffsetInv, Layout, LengthsAllowed
<1>4. /\ Len(statusWire') = Len(statusWire) - 1 /\ Len(statusWire) \in Nat \ {0}
      /\ visible' = statusWire[1]
      /\ \A j \in 1 .. Len(statusWire') : statusWire'[j] = statusWire[j + 1]
  BY <1>1 DEF TypeOK
<1>5. \A x : Lag(x)' = Dist(x, read)
  BY <1>1 DEF Lag
<1>6. StatusLags'
  <2>1. Lag(visible)' <= Lag(visible)
    BY <1>4, <1>5 DEF OffsetInv, StatusLags, Lag
  <2>2. Lag(visible)' \in Nat /\ Lag(visible) \in Nat /\ Used \in Nat
    <3>1. statusWire[1] \in Offsets
      BY <1>4 DEF TypeOK
    <3> QED BY <1>4, <1>5, <3>1, DistFacts DEF TypeOK, Lag, Used
  <2>3. Lag(visible)' + Used' <= RingSize
    BY <1>2, <2>1, <2>2, RingAssumption DEF OffsetInv, StatusLags
  <2>4. ASSUME NEW j \in 1 .. Len(statusWire')
        PROVE  Lag(statusWire[j + 1]) <= Lag(statusWire[1])
    BY <1>4 DEF OffsetInv, StatusLags
  <2>5. ASSUME NEW j \in 1 .. Len(statusWire'), NEW k \in 1 .. Len(statusWire'), j < k
        PROVE  Lag(statusWire[k + 1]) <= Lag(statusWire[j + 1])
    BY <1>4, <2>5 DEF OffsetInv, StatusLags
  <2> QED BY <1>4, <1>5, <2>3, <2>4, <2>5 DEF StatusLags, Lag
<1> QED
  BY <1>3, <1>6 DEF OffsetInv

\* The read offset goes over the first unread message, by its size.
LEMMA OffsetsPublishRead ==
  ASSUME TypeOK, OffsetInv, ReceivesLanded, PublishRead
  PROVE  OffsetInv'
<1>0. PICK n : n = Len(got) + 1
  OBVIOUS
<1>1. /\ recvPc = "publish" /\ read' = NewOffset(read, size) /\ recvPc' = "idle"
      /\ statusWire' = Append(statusWire, read')
      /\ UNCHANGED <<plan, sent, sendPc, want, write, visible>>
      /\ Len(got') = n /\ n \in Nat
  BY <1>0 DEF PublishRead, PublishedStatus, NextRead, senderVars, TypeOK
<1>2. n \in Unread /\ size = sent[n].len /\ Issued(n, 0)
  <2>1. Unread # {} /\ size = sent[n].len /\ Landed(n, 0)
    BY <1>0, <1>1 DEF ReceivesLanded
  <2> QED BY <1>0, <2>1 DEF Unread, Landed, TypeOK
<1>3. /\ read = sent[n].at /\ End(n) = (IF n = Len(sent) THEN Used ELSE Start(n + 1))
      /\ Len(got) <= Len(sent)
  BY <1>0, <1>2 DEF OffsetInv, Layout
<1>4. /\ n \in 1 .. Len(sent) /\ sent[n].len \in Nat /\ Used \in Nat
      /\ End(n) <= Used /\ Used <= RingSize /\ End(n) \in Nat
  BY <1>2, UnreadFacts
<1>5. /\ visible \in Offsets /\ read \in Offsets /\ write \in Offsets
      /\ Len(sent) \in Nat /\ Len(got) \in Nat /\ RingSize \in Nat \ {0}
  BY RingAssumption DEF TypeOK
<1>6. PICK step : step = Slot(size)
  OBVIOUS
<1>7. End(n) = step /\ step \in Nat
  <2>1. Start(n) = 0
    BY <1>3, <1>5, DistFacts DEF Start
  <2>2. step = Slot(sent[n].len)
    BY <1>2, <1>6
  <2>3. Slot(sent[n].len) \in Nat
    BY <1>4, SlotFacts DEF Aligned
  <2> QED BY <2>1, <2>2, <2>3 DEF End
<1>8. read' \in Offsets /\ Dist(read, read') = step
  BY <1>1, <1>2, <1>4, <1>5, <1>6, <1>7, NewOffsetDist
<1>9. Used' = Used - step
  BY <1>1, <1>4, <1>5, <1>7, <1>8, DistSplit DEF Used
<1>10. Unread' = {m \in Unread : m # n}
  BY <1>0, <1>1, <1>2, <1>5 DEF Unread
<1>11. ASSUME NEW m \in Unread, m # n
       PROVE  /\ m \in Nat /\ n < m /\ Start(m)' = Start(m) - step /\ End(m)' = End(m) - step
              /\ Start(m) \in Nat /\ End(m) \in Nat
  <2>1. /\ m \in Nat /\ sent[m].at \in Offsets /\ Start(m) \in Nat /\ End(m) \in Nat
        /\ sent[m].len \in Nat
    BY UnreadFacts
  <2>2. n < m
    BY <1>0, <1>5, <1>11, <2>1 DEF Unread
  <2>3. End(n) <= Start(m)
    BY <1>2, <2>2 DEF OffsetInv, Layout
  <2>4. Dist(read', sent[m].at) = Dist(read, sent[m].at) - step
    BY <1>5, <1>7, <1>8, <2>1, <2>3, DistSplit DEF Start
  <2>5. Start(m)' = Start(m) - step
    BY <1>1, <2>4 DEF Start
  <2>6. Slot(sent[m].len) \in Nat
    BY <2>1, SlotFacts DEF Aligned
  <2>7. End(m)' = End(m) - step
    BY <1>1, <1>7, <2>1, <2>5, <2>6 DEF End
  <2> QED BY <2>1, <2>2, <2>5, <2>7
<1>12. Layout'
  <2>1. Len(got') <= Len(sent')
    BY <1>1, <1>4
  <2>2. sendPc' = "size" => Unread' # {}
    BY <1>0, <1>1, <1>2, <1>4, <1>5, <1>10 DEF Issued, Unread
  <2>3. IF Unread' = {} THEN write' = read' ELSE sent'[Len(got') + 1].at = read'
    <3>1. CASE n = Len(sent)
      <4>1. Unread' = {}
        BY <1>1, <1>4, <3>1 DEF Unread
      <4>2. Dist(read', write) = 0
        BY <1>1, <1>3, <1>7, <1>9, <3>1 DEF Used
      <4> QED BY <1>1, <1>5, <1>8, <4>1, <4>2, DistFacts
    <3>2. CASE n # Len(sent)
      <4>1. n + 1 \in Unread /\ n + 1 # n
        BY <1>0, <1>4, <1>5, <3>2 DEF Unread
      <4>2. Start(n + 1) = step
        BY <1>3, <1>7, <3>2
      <4>3. Dist(read', sent[n + 1].at) = 0
        BY <1>1, <1>7, <1>11, <4>1, <4>2 DEF Start
      <4>4. sent[n + 1].at \in Offsets
        BY <4>1, UnreadFacts
      <4>5. Unread' # {}
        BY <1>10, <4>1
      <4> QED BY <1>1, <1>8, <4>3, <4>4, <4>5, DistFacts
    <3> QED BY <3>1, <3>2
  <2>4. ASSUME NEW m \in Unread'
        PROVE  End(m)' = IF m = Len(sent') THEN Used' ELSE Start(m + 1)'
    <3>1. m \in Unread /\ m # n
      BY <1>10
    <3>2. End(m) = IF m = Len(sent) THEN Used ELSE Start(m + 1)
      BY <3>1 DEF OffsetInv, Layout
    <3>3. CASE m = Len(sent)
      BY <1>1, <1>9, <1>11, <3>1, <3>2, <3>3
    <3>4. CASE m # Len(sent)
      <4>1. m + 1 \in Unread /\ m + 1 # n
        BY <1>0, <1>5, <1>11, <3>1, <3>4 DEF Unread
      <4> QED BY <1>1, <1>11, <3>1, <3>2, <3>4, <4>1
    <3> QED BY <3>3, <3>4
  <2>5. ASSUME NEW m \in Unread' PROVE End(m)' <= Used'
    <3>1. m \in Unread /\ m # n
      BY <1>10
    <3>2. End(m) <= Used
      BY <3>1 DEF OffsetInv, Layout
    <3> QED BY <1>4, <1>7, <1>9, <1>11, <3>1, <3>2
  <2>6. ASSUME NEW m \in Unread', NEW l \in Unread', m < l PROVE End(m)' <= Start(l)'
    <3>1. m \in Unread /\ m # n /\ l \in Unread /\ l # n
      BY <1>10
    <3>2. End(m) <= Start(l)
      BY <2>6, <3>1 DEF OffsetInv, Layout
    <3> QED BY <1>7, <1>11, <3>1, <3>2
  <2> QED BY <2>1, <2>2, <2>3, <2>4, <2>5, <2>6 DEF Layout
<1>13. StatusLags'
  <2>1. /\ Lag(visible) + Used <= RingSize /\ Lag(visible) \in Nat
        /\ Len(statusWire) \in Nat
    BY <1>5, DistFacts DEF OffsetInv, StatusLags, Lag, TypeOK
  <2>2. ASSUME NEW x \in Offsets, Lag(x) <= Lag(visible)
        PROVE  Dist(x, read') = Lag(x) + step /\ Lag(x) \in Nat
    <3>1. Lag(x) \in Nat
      BY <1>5, DistFacts DEF Lag
    <3> QED BY <1>4, <1>5, <1>7, <1>8, <2>1, <2>2, <3>1, DistSum DEF Lag
  <2>3. /\ Len(statusWire') = Len(statusWire) + 1
        /\ statusWire'[Len(statusWire) + 1] = read'
        /\ \A j \in 1 .. Len(statusWire) :
             statusWire'[j] = statusWire[j] /\ statusWire[j] \in Offsets
    BY <1>1, <2>1 DEF TypeOK
  <2>4. Dist(read', read') = 0
    BY <1>8, DistFacts
  <2>5. \A j \in 1 .. Len(statusWire) :
          /\ Lag(statusWire[j]) <= Lag(visible)
          /\ Lag(statusWire[j]) \in Nat
          /\ Dist(statusWire'[j], read') = Lag(statusWire[j]) + step
    BY <2>2, <2>3 DEF OffsetInv, StatusLags
  <2>6. Lag(visible)' = Lag(visible) + step
    BY <1>1, <1>5, <2>1, <2>2 DEF Lag
  <2>7. Lag(visible)' + Used' <= RingSize
    BY <1>4, <1>5, <1>7, <1>9, <2>1, <2>6
  <2>8. ASSUME NEW j \in 1 .. Len(statusWire') PROVE Lag(statusWire[j])' <= Lag(visible)'
    <3>1. CASE j = Len(statusWire) + 1
      BY <1>7, <2>1, <2>3, <2>4, <2>6, <3>1 DEF Lag
    <3>2. CASE j \in 1 .. Len(statusWire)
      BY <1>7, <2>1, <2>5, <2>6, <3>2 DEF Lag
    <3> QED BY <2>1, <2>3, <3>1, <3>2
  <2>9. ASSUME NEW j \in 1 .. Len(statusWire'), NEW k \in 1 .. Len(statusWire'), j < k
        PROVE  Lag(statusWire[k])' <= Lag(statusWire[j])'
    <3>1. j \in 1 .. Len(statusWire)
      BY <2>1, <2>3, <2>9
    <3>2. CASE k = Len(statusWire) + 1
      BY <1>7, <2>3, <2>4, <2>5, <3>1, <3>2 DEF Lag
    <3>3. CASE k \in 1 .. Len(statusWire)
      <4>1. Lag(statusWire[k]) <= Lag(statusWire[j])
        BY <2>9, <3>1, <3>3 DEF OffsetInv, StatusLags
      <4> QED BY <1>7, <2>5, <3>1, <3>3, <4>1 DEF Lag
    <3> QED BY <2>1, <2>3, <3>2, <3>3
  <2> QED BY <2>7, <2>8, <2>9 DEF StatusLags
<1>14. LengthsAllowed'
  BY <1>1 DEF OffsetInv, LengthsAllowed
<1> QED
  BY <1>12, <1>13, <1>14 DEF OffsetInv

-----------------------------------------------------------------------------
(* The bytes.                                                              *)

\* A store tells which byte of which message it is.
LEMMA StoreFacts ==
  ASSUME NEW n, NEW i
  PROVE  Store(n, i).byte = Byte(n, i) /\ Byte(n, i).msg = n /\ Byte(n, i).idx = i
BY DEF Store, Byte

\* No byte of a message is a cleared byte.
LEMMA ByteIsNotCleared ==
  ASSUME NEW n \in Nat \ {0}, NEW i
  PROVE  Byte(n, i) # Cleared
BY DEF Byte, Cleared

\* The messages the receiver has not cleared are unread.
LEMMA FirstFacts ==
  ASSUME TypeOK
  PROVE  /\ First .. Len(sent) \subseteq Unread
         /\ recvPc # "publish" => First .. Len(sent) = Unread
         /\ recvPc = "publish" => \A n \in Unread : n # Len(got) + 1 => n \in First .. Len(sent)
         /\ Unread \subseteq Nat \ {0}
<1>1. Len(got) \in Nat /\ Len(sent) \in Nat
  BY DEF TypeOK
<1>2. CASE recvPc = "publish"
  BY <1>1, <1>2 DEF First, Unread
<1>3. CASE recvPc # "publish"
  BY <1>1, <1>3 DEF First, Unread
<1> QED
  BY <1>2, <1>3

\* Without cuts nothing is left behind, and nothing is on its way to a byte
\* that is not clear.
LEMMA PendingBytesAreClear ==
  ASSUME Uncut, TypeOK, OffsetInv, ByteInv,
         NEW n \in Unread, NEW i \in Indices(n), Pending(n, i), NEW p \in Store(n, i).at
  PROVE  p \in 0 .. (RingSize - 1) /\ mem[p] = Cleared
<1>1. p \in 0 .. (RingSize - 1)
  <2>1. PICK k \in Places(n, i) : p = Pos(read, k)
    BY StorePlaces
  <2>2. k \in Nat /\ read \in Nat
    BY StorePlaces DEF TypeOK, Offsets
  <2> QED BY <2>1, <2>2, PosInRing
<1>2. SUFFICES ASSUME mem[p] # Cleared PROVE FALSE
  BY <1>1
<1>3. PICK m, j : /\ m \in First .. Len(sent) /\ j \in Indices(m)
                  /\ p \in Store(m, j).at /\ Landed(m, j)
  BY <1>1, <1>2 DEF ByteInv, MemFromWire, Stale
<1>4. m \in Unread
  BY <1>3, FirstFacts
<1>5. n = m /\ i = j
  BY <1>3, <1>4, StoresApart DEF Apart
<1> QED
  BY <1>3, <1>5 DEF Landed

\* The bytes of a message, counted in the slots of a ring of even slots.
LEMMA SlotBytes ==
  ASSUME TypeOK, OffsetInv, OnSlots, EvenSlots, NEW n \in Unread, NEW s \in plan.send,
         NEW k \in 0 .. (Word + sent[n].len - 1)
  PROVE  Pos(sent[n].at, k) % Slot(s) = k
<1>1. /\ n \in 1 .. Len(sent) /\ sent[n].at \in Nat /\ sent[n].len \in Nat
      /\ sent[n].len \in plan.send
  BY UnreadFacts DEF Offsets, OffsetInv, LengthsAllowed
<1>2. PICK m : m = Slot(s)
  OBVIOUS
<1>3. m = Slot(sent[n].len) /\ RingSize % m = 0 /\ sent[n].at % m = 0
  BY <1>1, <1>2 DEF EvenSlots, OnSlots
<1>4. m \in Nat \ {0} /\ k \in 0 .. (m - 1)
  <2>1. PICK l : l = sent[n].len
    OBVIOUS
  <2>2. l \in Nat /\ m = Slot(l) /\ Word \in Nat \ {0}
    BY <1>1, <1>3, <2>1, WordAssumption
  <2>3. m \in Nat /\ m >= l + Word
    BY <2>2, SlotFacts DEF Aligned
  <2>4. k \in 0 .. (Word + l - 1)
    BY <2>1
  <2> QED BY <2>2, <2>3, <2>4
<1> QED
  BY <1>1, <1>2, <1>3, <1>4, PosInSlot

\* No byte left behind by a cut lies where try_recv reads a size word.
LEMMA SizeWordIsKept ==
  ASSUME SizesKept, TypeOK, OffsetInv, OnSlots, NEW k \in 0 .. (Word - 1)
  PROVE  ~Stale(Pos(read, k))
<1>1. CASE Uncut
  BY <1>1 DEF Stale
<1>2. CASE ~Uncut /\ EvenSlots
  <2>1. PICK s \in plan.send : TRUE
    BY <1>2 DEF Uncut
  <2>2. s \in Nat /\ Word \in Nat \ {0} /\ read \in Nat /\ Len(sent) \in Nat /\ Len(got) \in Nat
    BY LensAssumption, WordAssumption DEF TypeOK, Offsets
  <2>3. PICK m : m = Slot(s)
    OBVIOUS
  <2>4. m \in Nat \ {0} /\ k \in 0 .. (m - 1) /\ RingSize % m = 0
    <3>1. m \in Nat /\ m >= s + Word
      BY <2>2, <2>3, SlotFacts DEF Aligned
    <3>2. m \in Nat \ {0} /\ k \in 0 .. (m - 1)
      BY <2>2, <3>1
    <3>3. RingSize % m = 0
      BY <1>2, <2>3 DEF EvenSlots
    <3> QED BY <3>2, <3>3
  <2>5. read % m = 0
    <3>1. CASE Unread = {}
      BY <1>2, <2>3, <3>1 DEF OffsetInv, Layout, OnSlots
    <3>2. CASE Unread # {}
      <4>1. Len(got) + 1 \in 1 .. Len(sent)
        BY <2>2, <3>2 DEF Unread
      <4>2. sent[Len(got) + 1].at = read
        BY <3>2 DEF OffsetInv, Layout
      <4> QED BY <1>2, <2>3, <4>1, <4>2 DEF OnSlots
    <3> QED BY <3>1, <3>2
  <2>6. Pos(read, k) % m = k
    BY <2>2, <2>4, <2>5, PosInSlot
  <2>7. k < Word
    BY <2>2
  <2> QED BY <2>1, <2>2, <2>3, <2>6, <2>7 DEF Stale
<1> QED
  BY <1>1, <1>2 DEF SizesKept

\* The payload that a cut leaves behind counts as left behind.
LEMMA RestIsStale ==
  ASSUME SizesKept, ~Uncut, TypeOK, OffsetInv, OnSlots,
         NEW n \in Unread, NEW i \in Indices(n), i # 0, NEW p \in Store(n, i).at
  PROVE  Stale(p)
<1>1. sent[n].len \in Nat /\ Word \in Nat \ {0}
  BY UnreadFacts, WordAssumption
<1>2. p = Pos(sent[n].at, Word + i - 1)
  BY DEF Store
<1>3. Word + i - 1 \in 0 .. (Word + sent[n].len - 1) /\ Word + i - 1 >= Word
  BY <1>1 DEF Indices
<1>4. EvenSlots
  BY DEF SizesKept
<1>5. \A s \in plan.send : p % Slot(s) = Word + i - 1
  BY <1>2, <1>3, <1>4, SlotBytes
<1> QED
  BY <1>3, <1>5 DEF Stale

\* The application's lengths decide what a cut may leave behind, and they stay.
LEMMA PlanDecides ==
  ASSUME plan' = plan
  PROVE  /\ Uncut' = Uncut /\ EvenSlots' = EvenSlots /\ SizesKept' = SizesKept
         /\ \A p : Stale(p)' = Stale(p)
<1>1. Uncut' = Uncut /\ EvenSlots' = EvenSlots
  BY DEF Uncut, EvenSlots
<1> QED
  BY <1>1 DEF SizesKept, Stale

\* A size word that is not clear is that of the first unread message, and all
\* of that message has landed.
LEMMA WholeMessage ==
  ASSUME SizesKept, TypeOK, OffsetInv, OnSlots, ByteInv, recvPc = "idle", SizeWord(read) # {Cleared},
         NEW n, n = Len(got) + 1
  PROVE  /\ n \in Unread /\ Landed(n, 0) /\ sent[n].at = read
         /\ SizeWord(read) = {Byte(n, 0)}
<1>1. Word \in Nat \ {0} /\ read \in Nat /\ Len(got) \in Nat
  BY WordAssumption DEF TypeOK, Offsets
<1>2. ASSUME NEW k \in 0 .. (Word - 1) PROVE Pos(read, k) \in 0 .. (RingSize - 1)
  <2>1. k \in Nat
    BY <1>1
  <2> QED BY <1>1, <2>1, PosInRing
<1>3. PICK l \in 0 .. (Word - 1) : mem[Pos(read, l)] # Cleared
  <2>1. 0 \in 0 .. (Word - 1)
    BY <1>1
  <2> QED BY <2>1 DEF SizeWord
<1>4. PICK m, j : /\ m \in First .. Len(sent) /\ j \in Indices(m)
                  /\ Pos(read, l) \in Store(m, j).at /\ Landed(m, j)
  BY <1>2, <1>3, SizeWordIsKept DEF ByteInv, MemFromWire
<1>5. m \in Unread /\ n \in Unread
  <2>1. m \in Unread
    BY <1>4, FirstFacts
  <2> QED BY <1>1, <2>1 DEF Unread, TypeOK
<1>6. sent[n].at = read
  BY <1>5 DEF OffsetInv, Layout
<1>7. 0 \in Indices(n)
  BY <1>5, UnreadFacts DEF Indices
<1>8. Store(n, 0).at = {Pos(read, k) : k \in 0 .. (Word - 1)}
  BY <1>6 DEF Store
<1>9. m = n /\ j = 0
  BY <1>4, <1>5, <1>7, <1>8, StoresApart DEF Apart
<1>10. n \in First .. Len(sent)
  BY <1>4, <1>9
<1>11. \A k \in 0 .. (Word - 1) : mem[Pos(read, k)] = Byte(n, 0)
  BY <1>4, <1>7, <1>8, <1>9, <1>10 DEF ByteInv, LandedIsThere
<1>12. SizeWord(read) = {Byte(n, 0)}
  BY <1>3, <1>11 DEF SizeWord
<1> QED
  BY <1>4, <1>5, <1>6, <1>9, <1>12

\* So the size that try_recv reads is the size of that message.
LEMMA SizeIsRead ==
  ASSUME SizesKept, TypeOK, OffsetInv, OnSlots, ByteInv, recvPc = "idle",
         NEW s \in SizeLoads(read), s # 0, NEW n, n = Len(got) + 1
  PROVE  n \in Unread /\ Landed(n, 0) /\ s = sent[n].len
<1>1. SizeWord(read) # {Cleared}
  BY DEF SizeLoads
<1>2. n \in Unread /\ Landed(n, 0) /\ SizeWord(read) = {Byte(n, 0)}
  BY <1>1, WholeMessage
<1>3. n \in 1 .. Len(sent)
  BY <1>2, UnreadFacts
<1>4. s \in {sent[k].len : k \in {m \in 1 .. Len(sent) : Byte(m, 0) \in SizeWord(read)}}
  BY <1>1, <1>2, <1>3 DEF SizeLoads
<1>5. PICK k \in 1 .. Len(sent) : Byte(k, 0) = Byte(n, 0) /\ s = sent[k].len
  BY <1>2, <1>4
<1>6. k = n
  BY <1>5, StoreFacts
<1> QED
  BY <1>2, <1>5, <1>6

\* All bytes of a message whose size has landed have landed.
LEMMA AllLanded ==
  ASSUME TypeOK, OffsetInv, ByteInv, NEW n \in Unread, Landed(n, 0)
  PROVE  \A i \in Indices(n) : Landed(n, i) /\ ~Pending(n, i)
BY UnreadFacts DEF ByteInv, SizeLandsLast, Landed, Issued

\* With a sequence that exists, the barrier opens an epoch.
LEMMA BarrierOpensEpoch ==
  ASSUME HasSequence, wire \in Seq(SUBSET Stores), NEW S, S \subseteq Stores, S # {},
         wire' = PutAfterBarrier(S)
  PROVE  /\ Len(wire') = Len(wire) + 1
         /\ wire'[Len(wire) + 1] = S
         /\ \A e \in 1 .. Len(wire) : wire'[e] = wire[e]
BY DEF PutAfterBarrier

\* A message is written: its payload is on the wire, behind everything else.
LEMMA BytesWritePayload ==
  ASSUME HasSequence, TypeOK, OffsetInv, ByteInv, WritePayload
  PROVE  ByteInv'
<1>0. PICK N : N = Len(sent) + 1
  OBVIOUS
<1>1. PICK L : L = Len(wire)
  OBVIOUS
<1>2. PICK new : new = PayloadStores(N, write, want)
  OBVIOUS
<1>3. /\ sendPc = "try" /\ sendPc' = "size"
      /\ wire' = PutAfterBarrier(new)
      /\ UNCHANGED <<plan, mem, got, read, recvPc, room, size, data>>
      /\ Len(sent) \in Nat /\ Len(got) \in Nat /\ L \in Nat /\ want \in Nat /\ N \in Nat
  BY <1>0, <1>1, <1>2 DEF WritePayload, receiverVars, TypeOK
<1>4. /\ Len(sent') = N /\ \A n \in 1 .. Len(sent) : sent'[n] = sent[n]
      /\ sent'[N].at = write /\ sent'[N].len = want
  BY <1>0 DEF WritePayload, TypeOK
<1>5. ASSUME NEW n \in 1 .. Len(sent), NEW i
      PROVE  Store(n, i)' = Store(n, i) /\ Indices(n)' = Indices(n)
  BY <1>4 DEF Store, Indices
<1>6. Unread' = Unread \cup {N} /\ Unread \subseteq 1 .. Len(sent) /\ N \notin 1 .. Len(sent)
  BY <1>0, <1>3, <1>4 DEF Unread, OffsetInv, Layout
<1>7. First' = First /\ First .. Len(sent) \subseteq Unread /\ First .. N \subseteq Unread \cup {N}
  BY <1>0, <1>3, FirstFacts DEF First
<1>8. \A s \in new : \E i \in 1 .. want : s = Store(N, i)'
  BY <1>2, <1>3, <1>4 DEF PayloadStores, Store
<1>9. ASSUME NEW i \in 1 .. want PROVE Store(N, i)' \in new
  <2>1. i # 0
    BY <1>3
  <2>2. Store(N, i)' = [at |-> {Pos(write, Word + i - 1)}, byte |-> Byte(N, i)]
    BY <1>4, <2>1 DEF Store
  <2> QED BY <1>2, <2>2 DEF PayloadStores
<1>10. /\ Len(wire') \in {L, L + 1}
       /\ Len(wire') = L + 1 => wire'[L + 1] = new
       /\ \A e \in 1 .. L : wire'[e] = wire[e]
       /\ new # {} => Len(wire') = L + 1
  <2>1. CASE new = {}
    BY <1>1, <1>3, <2>1 DEF PutAfterBarrier
  <2>2. CASE new # {}
    <3>1. new \subseteq Stores
      BY <1>2, <1>3, PayloadStoresType DEF TypeOK, Offsets
    <3> QED BY <1>1, <1>3, <2>2, <3>1, BarrierOpensEpoch DEF TypeOK
  <2> QED BY <2>1, <2>2
<1>11. ASSUME NEW e \in 1 .. L, NEW s \in wire[e]
       PROVE  /\ s.byte.msg \in Unread /\ s.byte.idx \in Indices(s.byte.msg)
              /\ s = Store(s.byte.msg, s.byte.idx) /\ s.byte.msg # N
              /\ s.byte.msg < N
  <2>1. /\ s.byte.msg \in Unread /\ s.byte.idx \in Indices(s.byte.msg)
        /\ s = Store(s.byte.msg, s.byte.idx)
    <3>1. e \in 1 .. Len(wire)
      BY <1>1
    <3>2. WireStores
      BY DEF ByteInv
    <3> QED BY <3>1, <3>2 DEF WireStores
  <2>2. \A n \in Unread : n # N /\ n < N
    BY <1>0, <1>3, <1>6
  <2> QED BY <2>1, <2>2
<1>12. ASSUME NEW s \in new PROVE s.byte.msg = N /\ s.byte.idx \in 1 .. want /\ s = Store(N, s.byte.idx)'
  <2>1. PICK i \in 1 .. want : s = Store(N, i)'
    BY <1>8
  <2>2. Store(N, i)'.byte = Byte(N, i)
    BY DEF Store
  <2> QED BY <2>1, <2>2, StoreFacts
<1>13. \A n \in 1 .. Len(sent) : \A i : Issued(n, i) /\ Issued(n, i)'
  BY <1>0, <1>3, <1>4 DEF Issued
<1>14. ~Issued(N, 0)' /\ \A i \in 1 .. want : Issued(N, i)' /\ Pending(N, i)'
  <2>1. ~Issued(N, 0)'
    BY <1>3, <1>4 DEF Issued
  <2>2. ASSUME NEW i \in 1 .. want PROVE Issued(N, i)' /\ Pending(N, i)'
    <3>1. Store(N, i)' \in new
      BY <1>9
    <3>2. L + 1 \in 1 .. Len(wire') /\ wire'[L + 1] = new
      BY <1>3, <1>10, <3>1
    <3> QED BY <1>3, <3>1, <3>2 DEF Issued, Pending
  <2> QED BY <2>1, <2>2
<1>15. ASSUME NEW n \in Unread, NEW i PROVE Pending(n, i)' <=> Pending(n, i)
  <2>1. n \in 1 .. Len(sent) /\ n # N /\ Store(n, i)' = Store(n, i)
    BY <1>5, <1>6
  <2>2. Store(n, i) \notin new
    BY <1>12, <2>1, StoreFacts
  <2> QED BY <1>1, <1>3, <1>10, <2>1, <2>2, SMTT(30) DEF Pending
<1>16. ASSUME NEW n \in Unread, NEW i PROVE Landed(n, i)' <=> Landed(n, i)
  BY <1>6, <1>13, <1>15 DEF Landed
<1>17. \A i \in Indices(N)' : ~Landed(N, i)'
  BY <1>3, <1>4, <1>14 DEF Landed, Indices
<1>18. WireStores'
  <2> SUFFICES ASSUME NEW e \in 1 .. Len(wire'), NEW s \in wire'[e]
               PROVE  /\ s.byte.msg \in Unread' /\ s.byte.idx \in Indices(s.byte.msg)'
                      /\ Issued(s.byte.msg, s.byte.idx)'
                      /\ s = Store(s.byte.msg, s.byte.idx)'
    BY DEF WireStores
  <2>1. CASE e \in 1 .. L
    <3>1. s \in wire[e]
      BY <1>10, <2>1
    <3>2. /\ s.byte.msg \in Unread /\ s.byte.idx \in Indices(s.byte.msg)
          /\ s = Store(s.byte.msg, s.byte.idx)
      BY <1>11, <2>1, <3>1
    <3> QED BY <1>5, <1>6, <1>13, <3>2
  <2>2. CASE e = L + 1
    <3>1. s \in new
      BY <1>3, <1>10, <2>2
    <3>2. s.byte.msg = N /\ s.byte.idx \in 1 .. want /\ s = Store(N, s.byte.idx)'
      BY <1>12, <3>1
    <3> QED BY <1>3, <1>4, <1>6, <1>14, <3>2 DEF Indices
  <2> QED BY <1>3, <1>10, <2>1, <2>2
<1>19. WireOnce'
  <2> SUFFICES ASSUME NEW e \in 1 .. Len(wire'), NEW f \in 1 .. Len(wire'),
                      NEW s \in wire'[e], s \in wire'[f]
               PROVE  e = f
    BY DEF WireOnce
  <2>1. CASE e \in 1 .. L /\ f \in 1 .. L
    BY <1>1, <1>10, <2>1 DEF ByteInv, WireOnce
  <2>2. CASE e \in 1 .. L /\ f = L + 1
    BY <1>3, <1>10, <1>11, <1>12, <2>2
  <2>3. CASE f \in 1 .. L /\ e = L + 1
    BY <1>3, <1>10, <1>11, <1>12, <2>3
  <2> QED BY <1>3, <1>10, <2>1, <2>2, <2>3
<1>20. WireOrder'
  <2> SUFFICES ASSUME NEW e \in 1 .. Len(wire'), NEW f \in 1 .. Len(wire'), e <= f,
                      NEW s \in wire'[e], NEW t \in wire'[f]
               PROVE  \/ s.byte.msg < t.byte.msg
                      \/ s.byte.msg = t.byte.msg /\ (s.byte.idx = 0 => t.byte.idx = 0)
    BY DEF WireOrder
  <2>1. CASE e \in 1 .. L /\ f \in 1 .. L
    BY <1>1, <1>10, <2>1 DEF ByteInv, WireOrder
  <2>2. CASE e \in 1 .. L /\ f = L + 1
    <3>1. t \in new
      BY <1>3, <1>10, <2>2
    <3> QED BY <1>10, <1>11, <1>12, <2>2, <3>1
  <2>3. CASE e = L + 1 /\ f = L + 1
    <3>1. s \in new /\ t \in new
      BY <1>3, <1>10, <2>3
    <3>2. s.byte.msg = N /\ t.byte.msg = N /\ s.byte.idx \in 1 .. want
      BY <1>12, <3>1
    <3> QED BY <1>3, <3>2
  <2> QED BY <1>3, <1>10, <2>1, <2>2, <2>3
<1>21. SizeLandsLast'
  <2> SUFFICES ASSUME NEW n \in Unread', Landed(n, 0)', NEW i \in Indices(n)'
               PROVE  ~Pending(n, i)'
    BY DEF SizeLandsLast
  <2>1. n # N
    BY <1>14 DEF Landed
  <2>2. n \in Unread
    BY <1>6, <2>1
  <2> QED BY <1>5, <1>6, <1>15, <1>16, <2>2 DEF ByteInv, SizeLandsLast
<1>22. MemFromWire'
  <2> SUFFICES ASSUME NEW p \in 0 .. (RingSize - 1), mem[p] # Cleared, ~Stale(p),
                      NEW n, n = mem[p].msg, NEW i, i = mem[p].idx
               PROVE  /\ n \in First' .. Len(sent') /\ i \in Indices(n)'
                      /\ p \in Store(n, i)'.at /\ Landed(n, i)'
    BY <1>3, PlanDecides DEF MemFromWire
  <2>1. /\ n \in First .. Len(sent) /\ i \in Indices(n)
        /\ p \in Store(n, i).at /\ Landed(n, i)
    BY DEF ByteInv, MemFromWire
  <2>2. n \in Unread /\ n \in 1 .. Len(sent)
    BY <1>6, <1>7, <2>1
  <2> QED BY <1>0, <1>3, <1>4, <1>5, <1>7, <1>16, <2>1, <2>2
<1>23. LandedIsThere'
  <2> SUFFICES ASSUME NEW n \in First' .. Len(sent'), NEW i \in Indices(n)', Landed(n, i)',
                      NEW p \in Store(n, i)'.at
               PROVE  mem[p] = Byte(n, i)
    BY <1>3 DEF LandedIsThere
  <2>1. n # N
    BY <1>17
  <2>2. n \in First .. Len(sent) /\ n \in Unread
    BY <1>0, <1>3, <1>4, <1>7, <2>1 DEF First
  <2> QED BY <1>5, <1>6, <1>16, <2>2 DEF ByteInv, LandedIsThere
<1>24. ReceivesLanded'
  <2>1. recvPc # "idle" => Len(got) + 1 \in Unread
    BY <1>3 DEF ByteInv, ReceivesLanded, Unread
  <2>2. recvPc # "idle" => Landed(Len(got) + 1, 0)'
    <3>1. PICK n : n = Len(got) + 1
      OBVIOUS
    <3>2. recvPc # "idle" => Landed(n, 0)'
      BY <1>16, <2>1, <3>1 DEF ByteInv, ReceivesLanded
    <3>3. Len(got') + 1 = n
      BY <1>3, <3>1
    <3> QED BY <1>3, <3>1, <3>2 DEF Landed, Issued, Pending, Store
  <2> QED BY <1>3, <1>4, <1>6, <2>1, <2>2 DEF ByteInv, ReceivesLanded, Copied
<1> QED
  BY <1>18, <1>19, <1>20, <1>21, <1>22, <1>23, <1>24 DEF ByteInv

\* What is said of the bytes without the receiver's place in try_recv.
Bytes ==
  /\ WireStores /\ WireOnce /\ WireOrder /\ SizeLandsLast
  /\ MemFromWire /\ LandedIsThere

\* It stays when no byte and no message moves.
LEMMA BytesStay ==
  ASSUME Bytes, UNCHANGED <<plan, mem, wire, sent, got>>, First' = First,
         sendPc' = "size" <=> sendPc = "size"
  PROVE  Bytes' /\ \A n, i : Landed(n, i)' = Landed(n, i)
<1>1. \A n, i : /\ Store(n, i)' = Store(n, i) /\ Indices(n)' = Indices(n)
                /\ Issued(n, i)' = Issued(n, i)
  BY DEF Store, Indices, Issued
<1>2. \A n, i : Pending(n, i)' = Pending(n, i)
  BY <1>1 DEF Pending
<1>3. UNCHANGED Unread /\ \A n, i : Landed(n, i)' = Landed(n, i)
  BY <1>1, <1>2 DEF Unread, Landed
<1>4. WireStores'
  BY <1>1, <1>3 DEF Bytes, WireStores
<1>5. WireOnce' /\ WireOrder'
  BY DEF Bytes, WireOnce, WireOrder
<1>6. SizeLandsLast'
  BY <1>1, <1>2, <1>3 DEF Bytes, SizeLandsLast
<1>7. MemFromWire'
  BY <1>1, <1>3, PlanDecides DEF Bytes, MemFromWire
<1>8. LandedIsThere'
  BY <1>1, <1>3 DEF Bytes, LandedIsThere
<1> QED
  BY <1>3, <1>4, <1>5, <1>6, <1>7, <1>8 DEF Bytes

\* Posting a message moves no byte.
LEMMA BytesPost ==
  ASSUME TypeOK, OffsetInv, ByteInv, NEW len, Post(len)
  PROVE  ByteInv'
<1>1. /\ UNCHANGED <<plan, mem, wire, sent, got, recvPc, room, size, data>>
      /\ sendPc' = "size" <=> sendPc = "size"
  BY DEF Post, receiverVars
<1>2. Bytes' /\ \A n, i : Landed(n, i)' = Landed(n, i)
  BY <1>1, BytesStay DEF ByteInv, Bytes, First
<1>3. ReceivesLanded'
  BY <1>1, <1>2 DEF ByteInv, ReceivesLanded, Unread, Copied
<1> QED
  BY <1>2, <1>3 DEF Bytes, ByteInv

\* A status word moves no byte.
LEMMA BytesLandStatus ==
  ASSUME TypeOK, OffsetInv, ByteInv, LandStatus
  PROVE  ByteInv'
<1>1. UNCHANGED <<plan, mem, wire, sent, got, recvPc, room, size, data, sendPc>>
  BY DEF LandStatus, senderVars, receiverVars
<1>2. Bytes' /\ \A n, i : Landed(n, i)' = Landed(n, i)
  BY <1>1, BytesStay DEF ByteInv, Bytes, First
<1>3. ReceivesLanded'
  BY <1>1, <1>2 DEF ByteInv, ReceivesLanded, Unread, Copied
<1> QED
  BY <1>2, <1>3 DEF Bytes, ByteInv

\* try_recv finds the size of the first unread message, which is all there.
LEMMA BytesLoadSize ==
  ASSUME SizesKept, TypeOK, OffsetInv, OnSlots, ByteInv, NEW len, LoadSize(len)
  PROVE  ByteInv'
<1>0. PICK n : n = Len(got) + 1
  OBVIOUS
<1>1. /\ UNCHANGED <<plan, mem, wire, sent, got, sendPc>> /\ recvPc = "idle" /\ recvPc' = "copy"
      /\ size' \in SizeLoads(read) /\ size' # 0
  BY DEF LoadSize, senderVars
<1>2. Bytes' /\ \A m, i : Landed(m, i)' = Landed(m, i)
  BY <1>1, BytesStay DEF ByteInv, Bytes, First
<1>3. n \in Unread /\ Landed(n, 0) /\ size' = sent[n].len
  BY <1>0, <1>1, SizeIsRead
<1>4. Unread' # {} /\ size' = sent'[Len(got') + 1].len
  BY <1>0, <1>1, <1>3 DEF Unread
<1>5. Landed(Len(got) + 1, 0)'
  <2>1. Landed(n, 0)' /\ n = Len(got') + 1
    BY <1>0, <1>1, <1>2, <1>3
  <2> QED BY <2>1 DEF Landed, Issued, Pending, Store, Byte
<1>6. ReceivesLanded'
  BY <1>1, <1>4, <1>5 DEF ReceivesLanded
<1> QED
  BY <1>2, <1>6 DEF Bytes, ByteInv

\* A receive copies what was sent, as far as its buffer goes.
LEMMA BytesCopyOut ==
  ASSUME TypeOK, OffsetInv, ByteInv, CopyOut
  PROVE  ByteInv'
<1>0. PICK n : n = Len(got) + 1
  OBVIOUS
<1>1. /\ UNCHANGED <<plan, mem, wire, sent, got, sendPc, room, size>>
      /\ recvPc = "copy" /\ recvPc' = "clear"
      /\ data' = [i \in 1 .. Copied |-> PayloadByte(i)]
  BY DEF CopyOut, senderVars
<1>2. Bytes' /\ \A m, i : Landed(m, i)' = Landed(m, i)
  BY <1>1, BytesStay DEF ByteInv, Bytes, First
<1>3. n \in Unread /\ Landed(n, 0) /\ size = sent[n].len
  BY <1>0, <1>1 DEF ByteInv, ReceivesLanded, Unread, TypeOK
<1>4. n \in 1 .. Len(sent) /\ n \in First .. Len(sent) /\ size \in Nat
  BY <1>1, <1>3, UnreadFacts, FirstFacts
<1>5. Copied \in Nat /\ Copied <= size
  BY <1>4 DEF Copied, Smaller, TypeOK
<1>6. ASSUME NEW i \in 1 .. Copied PROVE PayloadByte(i) = Byte(n, i)
  <2>1. i \in Indices(n) /\ i # 0
    BY <1>3, <1>4, <1>5 DEF Indices
  <2>2. Landed(n, i)
    BY <1>3, <2>1, AllLanded
  <2>3. sent[n].at = read
    BY <1>0, <1>3 DEF OffsetInv, Layout
  <2>4. Pos(read, Word + i - 1) \in Store(n, i).at
    BY <2>1, <2>3 DEF Store
  <2> QED BY <1>4, <2>1, <2>2, <2>4 DEF PayloadByte, ByteInv, LandedIsThere
<1>7. data' = Payload(n, Copied) /\ Copied' = Copied
  BY <1>1, <1>6 DEF Payload, Copied
<1>8. Landed(Len(got) + 1, 0)'
  <2>1. Landed(n, 0)' /\ n = Len(got') + 1
    BY <1>0, <1>1, <1>2, <1>3
  <2> QED BY <2>1 DEF Landed, Issued, Pending, Store, Byte
<1>9. ReceivesLanded'
  BY <1>0, <1>1, <1>3, <1>7, <1>8 DEF ReceivesLanded, Unread, Payload
<1> QED
  BY <1>2, <1>9 DEF Bytes, ByteInv

\* The two memsets clear the message that was read: its size word, the payload
\* that was copied and no byte of another message.
LEMMA ClearedAreFirst ==
  ASSUME TypeOK, OffsetInv, ByteInv, recvPc = "clear",
         NEW n, n = Len(got) + 1
  PROVE  /\ n \in Unread /\ Landed(n, 0)
         /\ Copied \in Nat /\ (Uncut => Copied = sent[n].len)
         /\ \A i \in Indices(n) : i <= Copied => Store(n, i).at \subseteq ClearedBytes
         /\ \A p \in ClearedBytes : \E i \in Indices(n) : p \in Store(n, i).at
<1>1. n \in Unread /\ Landed(n, 0) /\ size = sent[n].len
  BY DEF ByteInv, ReceivesLanded, Unread, TypeOK
<1>2. n \in 1 .. Len(sent) /\ size \in Nat /\ Word \in Nat \ {0} /\ room \in Nat
  BY <1>1, UnreadFacts, WordAssumption DEF TypeOK
<1>3. Copied \in Nat /\ Copied <= size /\ (Uncut => Copied = size)
  BY <1>1, <1>2 DEF Uncut, OffsetInv, LengthsAllowed, Copied, Smaller
<1>4. sent[n].at = read
  BY <1>1 DEF OffsetInv, Layout
<1>5. ClearedBytes = {Pos(read, k) : k \in 0 .. (Word + Copied - 1)}
  BY DEF ClearedBytes
<1>6. Indices(n) = 0 .. size
  BY <1>1 DEF Indices
<1>7. ASSUME NEW i \in Indices(n), i <= Copied PROVE Store(n, i).at \subseteq ClearedBytes
  <2>1. CASE i = 0
    <3>1. Store(n, i).at = {Pos(read, k) : k \in 0 .. (Word - 1)}
      BY <1>4, <2>1 DEF Store
    <3>2. 0 .. (Word - 1) \subseteq 0 .. (Word + Copied - 1)
      BY <1>2, <1>3
    <3> QED BY <1>5, <3>1, <3>2
  <2>2. CASE i # 0
    <3>1. Store(n, i).at = {Pos(read, Word + i - 1)}
      BY <1>4, <2>2 DEF Store
    <3>2. Word + i - 1 \in 0 .. (Word + Copied - 1)
      BY <1>2, <1>3, <1>6, <1>7, <2>2
    <3> QED BY <1>5, <3>1, <3>2
  <2> QED BY <2>1, <2>2
<1>8. ASSUME NEW p \in ClearedBytes PROVE \E i \in Indices(n) : p \in Store(n, i).at
  <2>1. PICK k \in 0 .. (Word + Copied - 1) : p = Pos(read, k)
    BY <1>5
  <2>2. CASE k < Word
    <3>1. Store(n, 0).at = {Pos(read, j) : j \in 0 .. (Word - 1)} /\ 0 \in Indices(n)
      BY <1>2, <1>4, <1>6 DEF Store
    <3>2. k \in 0 .. (Word - 1)
      BY <1>2, <2>2
    <3> QED BY <2>1, <3>1, <3>2
  <2>3. CASE k >= Word
    <3>1. PICK i : i = k - Word + 1
      OBVIOUS
    <3>2. i \in Indices(n) /\ i # 0 /\ k = Word + i - 1
      BY <1>2, <1>3, <1>6, <2>3, <3>1
    <3>3. Store(n, i).at = {Pos(read, Word + i - 1)}
      BY <1>4, <3>2 DEF Store
    <3> QED BY <2>1, <3>2, <3>3
  <2> QED BY <1>2, <1>3, <2>2, <2>3
<1> QED
  BY <1>1, <1>3, <1>7, <1>8

\* Clearing leaves the bytes of the messages behind it.
LEMMA BytesClearRead ==
  ASSUME SizesKept, TypeOK, OffsetInv, OnSlots, ByteInv, ClearRead
  PROVE  ByteInv'
<1>0. PICK n : n = Len(got) + 1
  OBVIOUS
<1>1. /\ UNCHANGED <<plan, wire, sent, got, sendPc, room, size, data>>
      /\ recvPc = "clear" /\ recvPc' = "publish"
      /\ mem' = [p \in DOMAIN mem |-> IF p \in ClearedBytes THEN Cleared ELSE mem[p]]
      /\ DOMAIN mem = 0 .. (RingSize - 1) /\ Len(got) \in Nat /\ Len(sent) \in Nat
  BY DEF ClearRead, senderVars, TypeOK
<1>2. /\ n \in Unread /\ Landed(n, 0)
      /\ Copied \in Nat /\ (Uncut => Copied = sent[n].len)
      /\ \A i \in Indices(n) : i <= Copied => Store(n, i).at \subseteq ClearedBytes
      /\ \A p \in ClearedBytes : \E i \in Indices(n) : p \in Store(n, i).at
  BY <1>0, <1>1, ClearedAreFirst
<1>3. \A m, i : /\ Store(m, i)' = Store(m, i) /\ Indices(m)' = Indices(m)
                /\ Issued(m, i)' = Issued(m, i)
  BY <1>1 DEF Store, Indices, Issued
<1>4. \A m, i : Pending(m, i)' = Pending(m, i)
  BY <1>1, <1>3 DEF Pending
<1>5. UNCHANGED Unread /\ \A m, i : Landed(m, i)' = Landed(m, i)
  BY <1>1, <1>3, <1>4 DEF Unread, Landed
<1>6. First = n /\ First' = n + 1
  BY <1>0, <1>1 DEF First
<1>7. WireStores'
  BY <1>1, <1>3, <1>5 DEF ByteInv, WireStores
<1>8. WireOnce' /\ WireOrder'
  BY <1>1 DEF ByteInv, WireOnce, WireOrder
<1>9. SizeLandsLast'
  BY <1>3, <1>4, <1>5 DEF ByteInv, SizeLandsLast
<1>10. MemFromWire'
  <2> SUFFICES ASSUME NEW p \in 0 .. (RingSize - 1), mem'[p] # Cleared, ~Stale(p),
                      NEW m, m = mem'[p].msg, NEW i, i = mem'[p].idx
               PROVE  /\ m \in First' .. Len(sent') /\ i \in Indices(m)'
                      /\ p \in Store(m, i)'.at /\ Landed(m, i)'
    BY <1>1, PlanDecides DEF MemFromWire
  <2>1. p \notin ClearedBytes /\ mem'[p] = mem[p]
    BY <1>1
  <2>2. /\ m \in First .. Len(sent) /\ i \in Indices(m)
        /\ p \in Store(m, i).at /\ Landed(m, i)
    BY <2>1 DEF ByteInv, MemFromWire
  <2>3. m # n
    <3> SUFFICES ASSUME m = n PROVE FALSE
      OBVIOUS
    <3>1. sent[n].len \in Nat /\ i \in Nat /\ i <= sent[n].len
      BY <1>2, <2>2, UnreadFacts DEF Indices
    <3>2. ~(i <= Copied)
      BY <1>2, <2>1, <2>2
    <3>3. ~Uncut /\ i # 0
      BY <1>2, <3>1, <3>2
    <3> QED BY <1>2, <2>2, <3>3, RestIsStale
  <2>4. m \in First' .. Len(sent')
    BY <1>0, <1>1, <1>6, <2>2, <2>3
  <2> QED BY <1>3, <1>5, <2>2, <2>4
<1>11. LandedIsThere'
  <2> SUFFICES ASSUME NEW m \in First' .. Len(sent'), NEW i \in Indices(m)', Landed(m, i)',
                      NEW p \in Store(m, i)'.at
               PROVE  mem'[p] = Byte(m, i)
    BY DEF LandedIsThere
  <2>1. m \in First .. Len(sent) /\ m # n /\ i \in Indices(m) /\ Landed(m, i) /\ p \in Store(m, i).at
    BY <1>0, <1>1, <1>3, <1>5, <1>6
  <2>2. m \in Unread
    BY <2>1, FirstFacts
  <2>3. mem[p] = Byte(m, i)
    BY <2>1 DEF ByteInv, LandedIsThere
  <2>4. p \notin ClearedBytes
    <3> SUFFICES ASSUME p \in ClearedBytes PROVE FALSE
      OBVIOUS
    <3>1. PICK j \in Indices(n) : p \in Store(n, j).at
      BY <1>2
    <3> QED BY <1>2, <2>1, <2>2, <3>1, StoresApart DEF Apart
  <2>5. p \in DOMAIN mem
    <3>1. PICK k \in Places(m, i) : p = Pos(read, k)
      BY <2>1, <2>2, StorePlaces
    <3>2. k \in Nat /\ read \in Nat
      BY <2>1, <2>2, StorePlaces DEF TypeOK, Offsets
    <3> QED BY <1>1, <3>1, <3>2, PosInRing
  <2> QED BY <1>1, <2>3, <2>4, <2>5
<1>12. Landed(Len(got) + 1, 0)'
  <2>1. Landed(n, 0)' /\ n = Len(got') + 1
    BY <1>0, <1>1, <1>2, <1>5
  <2> QED BY <2>1 DEF Landed, Issued, Pending, Store, Byte
<1>13. ReceivesLanded'
  BY <1>0, <1>1, <1>2, <1>5, <1>12 DEF ByteInv, ReceivesLanded, Payload, Copied
<1> QED
  BY <1>7, <1>8, <1>9, <1>10, <1>11, <1>13 DEF ByteInv

\* The message that was read is out of the ring.
LEMMA BytesPublishRead ==
  ASSUME TypeOK, OffsetInv, ByteInv, PublishRead
  PROVE  ByteInv'
<1>0. PICK n : n = Len(got) + 1
  OBVIOUS
<1>1. /\ UNCHANGED <<plan, mem, wire, sent, sendPc>> /\ recvPc = "publish" /\ recvPc' = "idle"
      /\ Len(got') = n /\ Len(got) \in Nat /\ Len(sent) \in Nat
  BY <1>0 DEF PublishRead, senderVars, TypeOK
<1>2. n \in Unread /\ Landed(n, 0)
  BY <1>0, <1>1 DEF ByteInv, ReceivesLanded, Unread
<1>3. First' = First
  BY <1>0, <1>1 DEF First
<1>4. Unread' = {m \in Unread : m # n}
  BY <1>0, <1>1 DEF Unread
<1>5. \A m, i : /\ Store(m, i)' = Store(m, i) /\ Indices(m)' = Indices(m)
                /\ Issued(m, i)' = Issued(m, i)
  BY <1>1 DEF Store, Indices, Issued
<1>6. \A m, i : Pending(m, i)' = Pending(m, i)
  BY <1>1, <1>5 DEF Pending
<1>7. \A m, i : Landed(m, i)' = Landed(m, i)
  BY <1>5, <1>6 DEF Landed
<1>8. WireStores'
  <2> SUFFICES ASSUME NEW e \in 1 .. Len(wire), NEW s \in wire[e]
               PROVE  /\ s.byte.msg \in Unread' /\ s.byte.idx \in Indices(s.byte.msg)'
                      /\ Issued(s.byte.msg, s.byte.idx)'
                      /\ s = Store(s.byte.msg, s.byte.idx)'
    BY <1>1 DEF WireStores
  <2>1. /\ s.byte.msg \in Unread /\ s.byte.idx \in Indices(s.byte.msg)
        /\ Issued(s.byte.msg, s.byte.idx)
        /\ s = Store(s.byte.msg, s.byte.idx)
    BY DEF ByteInv, WireStores
  <2>2. Pending(s.byte.msg, s.byte.idx)
    BY <2>1 DEF Pending
  <2>3. s.byte.msg # n
    BY <1>2, <2>1, <2>2, AllLanded
  <2> QED BY <1>4, <1>5, <2>1, <2>3
<1>9. WireOnce' /\ WireOrder'
  BY <1>1 DEF ByteInv, WireOnce, WireOrder
<1>10. SizeLandsLast'
  BY <1>4, <1>5, <1>6, <1>7 DEF ByteInv, SizeLandsLast
<1>11. MemFromWire'
  BY <1>1, <1>3, <1>5, <1>7, PlanDecides DEF ByteInv, MemFromWire
<1>12. LandedIsThere'
  BY <1>1, <1>3, <1>5, <1>7 DEF ByteInv, LandedIsThere
<1>13. ReceivesLanded'
  BY <1>1 DEF ReceivesLanded
<1> QED
  BY <1>8, <1>9, <1>10, <1>11, <1>12, <1>13 DEF ByteInv

\* The size word goes out behind the payload of its message.
LEMMA BytesWriteSize ==
  ASSUME HasSequence, TypeOK, OffsetInv, ByteInv, WriteSize
  PROVE  ByteInv'
<1>0. PICK N, L : N = Len(sent) /\ L = Len(wire)
  OBVIOUS
<1>1. /\ sendPc = "size" /\ sendPc' = "idle"
      /\ wire' = PutAfterBarrier({SizeStore(N, sent[N].at)})
      /\ UNCHANGED <<plan, mem, sent, got, read, recvPc, room, size, data>>
      /\ L \in Nat /\ Len(got) \in Nat
  BY <1>0 DEF WriteSize, receiverVars, TypeOK
<1>2. N \in Unread /\ N \in Nat
  BY <1>0, <1>1 DEF OffsetInv, Layout, Unread, TypeOK
<1>3. \A n, i : Store(n, i)' = Store(n, i) /\ Indices(n)' = Indices(n)
  BY <1>1 DEF Store, Indices
<1>4. SizeStore(N, sent[N].at) = Store(N, 0) /\ Store(N, 0) \in Stores
  <2>1. SizeStore(N, sent[N].at) = Store(N, 0)
    BY DEF SizeStore, Store
  <2> QED BY <1>2, <2>1, UnreadFacts, SizeStoreType DEF Offsets
<1>5. /\ Len(wire') = L + 1 /\ wire'[L + 1] = {Store(N, 0)}
      /\ \A e \in 1 .. L : wire'[e] = wire[e]
  <2>1. wire' = PutAfterBarrier({Store(N, 0)}) /\ {Store(N, 0)} \subseteq Stores
    BY <1>1, <1>4
  <2> QED BY <1>0, <2>1, BarrierOpensEpoch DEF TypeOK
<1>6. UNCHANGED <<Unread, First>>
  BY <1>1 DEF Unread, First
<1>7. ~Issued(N, 0) /\ \A n, i : Issued(n, i)' /\ ((n \in Unread /\ ~(n = N /\ i = 0)) => Issued(n, i))
  <2>1. \A n \in Unread : n < N \/ n = N
    BY <1>0, <1>2 DEF Unread
  <2>2. ~Issued(N, 0)
    BY <1>0, <1>1, <1>2 DEF Issued
  <2>3. \A n, i : Issued(n, i)'
    BY <1>1 DEF Issued
  <2>4. \A n \in Unread : \A i : ~(n = N /\ i = 0) => Issued(n, i)
    BY <1>0, <2>1 DEF Issued
  <2> QED BY <2>2, <2>3, <2>4
<1>8. Pending(N, 0)'
  <2>1. L + 1 \in 1 .. Len(wire')
    BY <1>1, <1>5
  <2>2. Store(N, 0)' = Store(N, 0)
    BY <1>3
  <2>3. Store(N, 0)' \in wire'[L + 1]
    BY <1>5, <2>2
  <2> QED BY <2>1, <2>3 DEF Pending
<1>9. ASSUME NEW n, NEW i, ~(n = N /\ i = 0) PROVE Pending(n, i)' <=> Pending(n, i)
  <2>1. Store(n, i) # Store(N, 0) /\ Store(n, i)' = Store(n, i)
    BY <1>3, <1>9, StoreFacts
  <2>2. ASSUME NEW e \in 1 .. Len(wire'), Store(n, i) \in wire'[e] PROVE Pending(n, i)
    <3>1. e # L + 1
      BY <1>5, <2>1, <2>2
    <3>2. e \in 1 .. L /\ L \in Nat
      BY <1>1, <1>5, <3>1
    <3>3. e \in 1 .. Len(wire) /\ wire'[e] = wire[e]
      BY <1>0, <1>5, <3>2
    <3> QED BY <2>2, <3>3 DEF Pending
  <2>3. ASSUME NEW e \in 1 .. Len(wire), Store(n, i) \in wire[e] PROVE Pending(n, i)'
    <3>1. e \in 1 .. L /\ L \in Nat
      BY <1>0, <1>1
    <3>2. e \in 1 .. Len(wire') /\ wire'[e] = wire[e]
      BY <1>5, <3>1
    <3> QED BY <2>1, <2>3, <3>2 DEF Pending
  <2> QED BY <2>1, <2>2, <2>3 DEF Pending
<1>10. ~Landed(N, 0) /\ ~Landed(N, 0)'
  BY <1>7, <1>8 DEF Landed
<1>11. ASSUME NEW n \in Unread, NEW i PROVE Landed(n, i)' <=> Landed(n, i)
  BY <1>7, <1>9, <1>10 DEF Landed
<1>12. \A e \in 1 .. L : \A s \in wire[e] :
         /\ s.byte.msg \in Unread /\ s.byte.idx \in Indices(s.byte.msg)
         /\ s = Store(s.byte.msg, s.byte.idx)
         /\ s # Store(N, 0)
  <2> SUFFICES ASSUME NEW e \in 1 .. L, NEW s \in wire[e]
               PROVE  /\ s.byte.msg \in Unread /\ s.byte.idx \in Indices(s.byte.msg)
                      /\ s = Store(s.byte.msg, s.byte.idx)
                      /\ s # Store(N, 0)
    OBVIOUS
  <2>1. /\ s.byte.msg \in Unread /\ s.byte.idx \in Indices(s.byte.msg)
        /\ Issued(s.byte.msg, s.byte.idx)
        /\ s = Store(s.byte.msg, s.byte.idx)
    BY <1>0 DEF ByteInv, WireStores
  <2>2. ~(s.byte.msg = N /\ s.byte.idx = 0)
    BY <1>7, <2>1
  <2> QED BY <2>1, <2>2, StoreFacts
<1>13. /\ Store(N, 0).byte.msg = N /\ Store(N, 0).byte.idx = 0 /\ 0 \in Indices(N)
  BY <1>2, StoreFacts, UnreadFacts DEF Indices
<1>14. WireStores'
  <2> SUFFICES ASSUME NEW e \in 1 .. Len(wire'), NEW s \in wire'[e]
               PROVE  /\ s.byte.msg \in Unread /\ s.byte.idx \in Indices(s.byte.msg)
                      /\ s = Store(s.byte.msg, s.byte.idx)
    BY <1>3, <1>6, <1>7 DEF WireStores
  <2>1. CASE e \in 1 .. L
    BY <1>5, <1>12, <2>1
  <2>2. CASE e = L + 1
    BY <1>2, <1>5, <1>13, <2>2
  <2> QED BY <1>1, <1>5, <2>1, <2>2
<1>15. WireOnce'
  <2> SUFFICES ASSUME NEW e \in 1 .. Len(wire'), NEW f \in 1 .. Len(wire'),
                      NEW s \in wire'[e], s \in wire'[f]
               PROVE  e = f
    BY DEF WireOnce
  <2>1. CASE e \in 1 .. L /\ f \in 1 .. L
    BY <1>0, <1>5, <2>1 DEF ByteInv, WireOnce
  <2>2. CASE e \in 1 .. L /\ f = L + 1
    BY <1>5, <1>12, <2>2
  <2>3. CASE f \in 1 .. L /\ e = L + 1
    BY <1>5, <1>12, <2>3
  <2> QED BY <1>1, <1>5, <2>1, <2>2, <2>3
<1>16. WireOrder'
  <2> SUFFICES ASSUME NEW e \in 1 .. Len(wire'), NEW f \in 1 .. Len(wire'), e <= f,
                      NEW s \in wire'[e], NEW t \in wire'[f]
               PROVE  \/ s.byte.msg < t.byte.msg
                      \/ s.byte.msg = t.byte.msg /\ (s.byte.idx = 0 => t.byte.idx = 0)
    BY DEF WireOrder
  <2>1. CASE e \in 1 .. L /\ f \in 1 .. L
    BY <1>0, <1>5, <2>1 DEF ByteInv, WireOrder
  <2>2. CASE e \in 1 .. L /\ f = L + 1
    <3>1. t = Store(N, 0) /\ s \in wire[e]
      BY <1>5, <2>2
    <3>2. \A n \in Unread : n < N \/ n = N
      BY <1>0, <1>2 DEF Unread
    <3> QED BY <1>12, <1>13, <2>2, <3>1, <3>2
  <2>3. CASE e = L + 1 /\ f = L + 1
    BY <1>5, <2>3
  <2> QED BY <1>1, <1>5, <2>1, <2>2, <2>3
<1>17. SizeLandsLast'
  <2> SUFFICES ASSUME NEW n \in Unread, Landed(n, 0)', NEW i \in Indices(n)
               PROVE  ~Pending(n, i)'
    BY <1>3, <1>6 DEF SizeLandsLast
  <2>1. Landed(n, 0) /\ n # N
    BY <1>10, <1>11
  <2> QED BY <1>9, <2>1 DEF ByteInv, SizeLandsLast
<1>18. MemFromWire'
  BY <1>1, <1>3, <1>6, <1>11, FirstFacts, PlanDecides DEF ByteInv, MemFromWire
<1>19. LandedIsThere'
  BY <1>1, <1>3, <1>6, <1>11, FirstFacts DEF ByteInv, LandedIsThere
<1>20. ReceivesLanded'
  <2>1. PICK n : n = Len(got) + 1
    OBVIOUS
  <2>2. recvPc # "idle" => n \in Unread /\ Landed(n, 0)
    BY <1>1, <2>1 DEF ByteInv, ReceivesLanded, Unread
  <2>3. recvPc # "idle" => Landed(n, 0)' /\ n = Len(got') + 1
    BY <1>1, <1>11, <2>1, <2>2
  <2>4. recvPc # "idle" => Landed(Len(got) + 1, 0)'
    BY <1>1, <2>3 DEF Landed, Issued, Pending, Store, Byte
  <2> QED BY <1>1, <1>6, <2>4 DEF ByteInv, ReceivesLanded, Payload, Copied
<1> QED
  BY <1>14, <1>15, <1>16, <1>17, <1>18, <1>19, <1>20 DEF ByteInv

\* A store lands: the wire is what it was without it.
LEMMA WireWithout ==
  ASSUME wire \in Seq(SUBSET Stores), WireOnce, wire # <<>>, NEW s \in wire[1],
         wire' = IF wire[1] = {s} THEN Tail(wire) ELSE [wire EXCEPT ![1] = wire[1] \ {s}]
  PROVE  \E d \in {0, 1} :
           /\ Len(wire') = Len(wire) - d
           /\ \A e \in 1 .. Len(wire') : e + d \in 1 .. Len(wire) /\ wire'[e] = wire[e + d] \ {s}
           /\ d = 1 => wire[1] = {s}
<1>1. Len(wire) \in Nat \ {0}
  OBVIOUS
<1>2. \A e \in 2 .. Len(wire) : s \notin wire[e]
  BY <1>1 DEF WireOnce
<1>3. CASE wire[1] = {s}
  <2>1. /\ Len(wire') = Len(wire) - 1
        /\ \A e \in 1 .. Len(wire') : wire'[e] = wire[e + 1] /\ e + 1 \in 2 .. Len(wire)
    BY <1>1, <1>3
  <2>2. \A e \in 1 .. Len(wire') : /\ e + 1 \in 1 .. Len(wire)
                                    /\ wire'[e] = wire[e + 1] \ {s}
    BY <1>1, <1>2, <2>1
  <2> WITNESS 1 \in {0, 1}
  <2> QED BY <1>3, <2>1, <2>2
<1>4. CASE wire[1] # {s}
  <2>1. wire' = [wire EXCEPT ![1] = wire[1] \ {s}]
    BY <1>4
  <2>2. Len(wire') = Len(wire)
    BY <1>1, <2>1
  <2>3. ASSUME NEW e \in 1 .. Len(wire) PROVE wire'[e] = wire[e] \ {s}
    <3>1. CASE e = 1
      BY <1>1, <2>1, <3>1
    <3>2. CASE e # 1
      BY <1>1, <1>2, <2>1, <3>2
    <3> QED BY <3>1, <3>2
  <2>4. \A e \in 1 .. Len(wire') : /\ e + 0 \in 1 .. Len(wire)
                                    /\ wire'[e] = wire[e + 0] \ {s}
    <3>1. \A e \in 1 .. Len(wire') : e + 0 = e
      BY <1>1, <2>2
    <3> QED BY <2>2, <2>3, <3>1
  <2>5. Len(wire') = Len(wire) - 0
    BY <1>1, <2>2
  <2> WITNESS 0 \in {0, 1}
  <2> QED BY <2>4, <2>5
<1> QED
  BY <1>3, <1>4

\* A store that lands leaves the bytes of its message and disturbs no other.
LEMMA BytesLand ==
  ASSUME TypeOK, OffsetInv, ByteInv, Land
  PROVE  ByteInv'
<1>1. /\ UNCHANGED <<plan, sent, got, sendPc, recvPc, room, size, data, read>> /\ wire # <<>>
      /\ mem \in [0 .. (RingSize - 1) -> Cells]
      /\ Len(wire) \in Nat \ {0} /\ wire \in Seq(SUBSET Stores)
  BY DEF Land, senderVars, receiverVars, TypeOK
<1>2. PICK s \in wire[1] :
        /\ mem' = Overwrite(s)
        /\ wire' = IF wire[1] = {s} THEN Tail(wire) ELSE [wire EXCEPT ![1] = wire[1] \ {s}]
  <2>1. PICK s \in Head(wire) :
          /\ mem' = Overwrite(s)
          /\ wire' = IF Head(wire) = {s} THEN Tail(wire)
                     ELSE [wire EXCEPT ![1] = wire[1] \ {s}]
    BY DEF Land
  <2>2. Head(wire) = wire[1]
    BY <1>1
  <2> QED BY <2>1, <2>2
<1>3. PICK d \in {0, 1} :
        /\ Len(wire') = Len(wire) - d
        /\ \A e \in 1 .. Len(wire') : e + d \in 1 .. Len(wire) /\ wire'[e] = wire[e + d] \ {s}
        /\ d = 1 => wire[1] = {s}
  BY <1>1, <1>2, WireWithout DEF ByteInv
<1>4. PICK N, I : N = s.byte.msg /\ I = s.byte.idx
  OBVIOUS
<1>5. /\ N \in Unread /\ I \in Indices(N) /\ Issued(N, I) /\ s = Store(N, I)
      /\ Pending(N, I) /\ s.byte = Byte(N, I) /\ N \in Nat \ {0}
  <2>1. 1 \in 1 .. Len(wire)
    BY <1>1
  <2>2. N \in Unread /\ I \in Indices(N) /\ Issued(N, I) /\ s = Store(N, I)
    BY <1>4, <2>1 DEF ByteInv, WireStores
  <2> QED BY <2>1, <2>2, StoreFacts, FirstFacts DEF Pending
<1>6. \A n, i : /\ Store(n, i)' = Store(n, i) /\ Indices(n)' = Indices(n)
                /\ Issued(n, i)' = Issued(n, i)
  BY <1>1 DEF Store, Indices, Issued
<1>7. UNCHANGED <<Unread, First>>
  BY <1>1 DEF Unread, First
<1>8. ASSUME NEW n, NEW i
      PROVE  Pending(n, i)' <=> Pending(n, i) /\ ~(n = N /\ i = I)
  <2>1. Store(n, i) = s <=> n = N /\ i = I
    BY <1>5, StoreFacts
  <2>2. ASSUME NEW e \in 1 .. Len(wire'), Store(n, i) \in wire'[e]
        PROVE  Pending(n, i) /\ Store(n, i) # s
    BY <1>3, <2>2 DEF Pending
  <2>3. ASSUME NEW e \in 1 .. Len(wire), Store(n, i) \in wire[e], Store(n, i) # s
        PROVE  Pending(n, i)'
    <3>1. ~(d = 1 /\ e = 1)
      BY <1>3, <2>3
    <3>2. PICK f : f = e - d
      OBVIOUS
    <3>3. f \in 1 .. Len(wire') /\ f + d = e
      BY <1>1, <1>3, <3>1, <3>2
    <3>4. Store(n, i) \in wire'[f]
      BY <1>3, <2>3, <3>3
    <3> QED BY <1>6, <3>3, <3>4 DEF Pending
  <2> QED BY <1>6, <2>1, <2>2, <2>3 DEF Pending
<1>9. \A n, i : Landed(n, i)' <=> Landed(n, i) \/ (n = N /\ i = I)
  BY <1>5, <1>6, <1>8 DEF Landed
<1>10. \A p \in 0 .. (RingSize - 1) : mem'[p] = IF p \in s.at THEN Byte(N, I) ELSE mem[p]
  BY <1>1, <1>2, <1>5 DEF Overwrite
<1>11. N \in First .. Len(sent)
  <2>1. CASE recvPc = "publish"
    <3>1. PICK n : n = Len(got) + 1
      OBVIOUS
    <3>2. n \in Unread /\ Landed(n, 0)
      BY <2>1, <3>1 DEF ByteInv, ReceivesLanded, Unread, TypeOK
    <3>3. N # n
      BY <1>5, <3>2, AllLanded
    <3> QED BY <1>5, <2>1, <3>1, <3>3, FirstFacts
  <2>2. CASE recvPc # "publish"
    BY <1>5, <2>2, FirstFacts
  <2> QED BY <2>1, <2>2
<1>12. WireStores'
  <2> SUFFICES ASSUME NEW e \in 1 .. Len(wire'), NEW t \in wire'[e]
               PROVE  /\ t.byte.msg \in Unread /\ t.byte.idx \in Indices(t.byte.msg)
                      /\ Issued(t.byte.msg, t.byte.idx)
                      /\ t = Store(t.byte.msg, t.byte.idx)
    BY <1>6, <1>7 DEF WireStores
  <2>1. e + d \in 1 .. Len(wire) /\ t \in wire[e + d]
    BY <1>3
  <2> QED BY <2>1 DEF ByteInv, WireStores
<1>13. WireOnce'
  <2> SUFFICES ASSUME NEW e \in 1 .. Len(wire'), NEW f \in 1 .. Len(wire'),
                      NEW t \in wire'[e], t \in wire'[f]
               PROVE  e = f
    BY DEF WireOnce
  <2>1. /\ e + d \in 1 .. Len(wire) /\ t \in wire[e + d]
        /\ f + d \in 1 .. Len(wire) /\ t \in wire[f + d]
    BY <1>3
  <2>2. e + d = f + d
    BY <2>1 DEF ByteInv, WireOnce
  <2> QED BY <1>1, <1>3, <2>2
<1>14. WireOrder'
  <2> SUFFICES ASSUME NEW e \in 1 .. Len(wire'), NEW f \in 1 .. Len(wire'), e <= f,
                      NEW t \in wire'[e], NEW u \in wire'[f]
               PROVE  \/ t.byte.msg < u.byte.msg
                      \/ t.byte.msg = u.byte.msg /\ (t.byte.idx = 0 => u.byte.idx = 0)
    BY DEF WireOrder
  <2>1. /\ e + d \in 1 .. Len(wire) /\ t \in wire[e + d]
        /\ f + d \in 1 .. Len(wire) /\ u \in wire[f + d]
    BY <1>3
  <2>2. e + d <= f + d
    BY <1>1, <1>3
  <2> QED BY <2>1, <2>2 DEF ByteInv, WireOrder
<1>15. SizeLandsLast'
  <2> SUFFICES ASSUME NEW n \in Unread, Landed(n, 0)', NEW i \in Indices(n), Pending(n, i)'
               PROVE  FALSE
    BY <1>6, <1>7 DEF SizeLandsLast
  <2>1. Pending(n, i) /\ ~(n = N /\ i = I)
    BY <1>8
  <2>2. ~Landed(n, 0)
    BY <2>1 DEF ByteInv, SizeLandsLast
  <2>3. n = N /\ I = 0
    BY <1>9, <2>2
  <2>4. PICK e \in 1 .. Len(wire) : Store(n, i) \in wire[e]
    BY <2>1 DEF Pending
  <2>5. 1 \in 1 .. Len(wire) /\ 1 <= e
    BY <1>1
  <2>6. \/ s.byte.msg < Store(n, i).byte.msg
        \/ s.byte.msg = Store(n, i).byte.msg /\ (s.byte.idx = 0 => Store(n, i).byte.idx = 0)
    BY <2>4, <2>5 DEF ByteInv, WireOrder
  <2>7. Store(n, i).byte.msg = n /\ Store(n, i).byte.idx = i
    BY StoreFacts
  <2>8. s.byte.msg = n /\ s.byte.idx = 0 /\ n \in Nat
    BY <1>4, <1>5, <2>3
  <2>9. i = 0
    BY <2>6, <2>7, <2>8
  <2> QED BY <2>1, <2>3, <2>9
<1>16. MemFromWire'
  <2> SUFFICES ASSUME NEW p \in 0 .. (RingSize - 1), mem'[p] # Cleared, ~Stale(p),
                      NEW n, n = mem'[p].msg, NEW i, i = mem'[p].idx
               PROVE  /\ n \in First .. Len(sent) /\ i \in Indices(n)
                      /\ p \in Store(n, i).at /\ Landed(n, i)'
    BY <1>1, <1>6, <1>7, PlanDecides DEF MemFromWire
  <2>1. CASE p \in s.at
    <3>1. n = N /\ i = I
      BY <1>10, <2>1, StoreFacts
    <3> QED BY <1>5, <1>9, <1>11, <2>1, <3>1
  <2>2. CASE p \notin s.at
    <3>1. mem'[p] = mem[p]
      BY <1>10, <2>2
    <3> QED BY <1>9, <3>1 DEF ByteInv, MemFromWire
  <2> QED BY <2>1, <2>2
<1>17. LandedIsThere'
  <2> SUFFICES ASSUME NEW n \in First .. Len(sent), NEW i \in Indices(n), Landed(n, i)',
                      NEW p \in Store(n, i).at
               PROVE  mem'[p] = Byte(n, i)
    BY <1>1, <1>6, <1>7 DEF LandedIsThere
  <2>1. n \in Unread
    BY FirstFacts
  <2>2. p \in 0 .. (RingSize - 1)
    <3>1. PICK k \in Places(n, i) : p = Pos(read, k)
      BY <2>1, StorePlaces
    <3>2. k \in Nat /\ read \in Nat
      BY <2>1, StorePlaces DEF TypeOK, Offsets
    <3> QED BY <3>1, <3>2, PosInRing
  <2>3. CASE n = N /\ i = I
    BY <1>5, <1>10, <2>2, <2>3
  <2>4. CASE ~(n = N /\ i = I)
    <3>1. p \notin s.at
      BY <1>5, <2>1, <2>4, StoresApart DEF Apart
    <3>2. Landed(n, i)
      BY <1>9, <2>4
    <3> QED BY <1>10, <2>2, <3>1, <3>2 DEF ByteInv, LandedIsThere
  <2> QED BY <2>3, <2>4
<1>18. ReceivesLanded'
  <2>1. PICK n : n = Len(got) + 1
    OBVIOUS
  <2>2. recvPc # "idle" => Landed(n, 0)' /\ n = Len(got') + 1
    BY <1>1, <1>9, <2>1 DEF ByteInv, ReceivesLanded
  <2>3. recvPc # "idle" => Landed(Len(got) + 1, 0)'
    BY <1>1, <2>2 DEF Landed, Issued, Pending, Store, Byte
  <2> QED BY <1>1, <1>7, <2>3 DEF ByteInv, ReceivesLanded, Payload, Copied
<1> QED
  BY <1>12, <1>13, <1>14, <1>15, <1>16, <1>17, <1>18 DEF ByteInv

-----------------------------------------------------------------------------
(* The invariant, and what follows from it.                                *)

\* The lengths of an application are numbers, and its messages take some bytes.
LEMMA PlanLengths ==
  ASSUME plan \in Plans, NEW s \in plan.send
  PROVE  s \in Nat /\ Slot(s) \in Nat \ {0}
<1>1. s \in Nat
  BY LensAssumption
<1> QED
  BY <1>1, SlotFacts, WordAssumption DEF Aligned

\* The ring starts empty.
LEMMA InitInv == Init => OffsetInv /\ OnSlots /\ ByteInv
<1> SUFFICES ASSUME Init PROVE OffsetInv /\ OnSlots /\ ByteInv
  OBVIOUS
<1>1. /\ mem = [p \in 0 .. (RingSize - 1) |-> Cleared] /\ Len(wire) = 0 /\ Len(statusWire) = 0
      /\ sendPc = "idle" /\ Len(sent) = 0 /\ Len(got) = 0 /\ write = 0 /\ visible = 0 /\ read = 0
      /\ recvPc = "idle"
  BY DEF Init
<1>2. Unread = {} /\ First .. Len(sent) = {}
  BY <1>1 DEF Unread, First
<1>3. Used = 0 /\ Lag(visible) = 0
  BY <1>1 DEF Used, Lag, Dist
<1>4. OffsetInv
  BY <1>1, <1>2, <1>3, RingAssumption
     DEF OffsetInv, Layout, StatusLags, LengthsAllowed
<1>5. WireStores /\ WireOnce /\ WireOrder
  BY <1>1 DEF WireStores, WireOnce, WireOrder
<1>6. SizeLandsLast /\ LandedIsThere /\ ReceivesLanded
  BY <1>1, <1>2 DEF SizeLandsLast, LandedIsThere, ReceivesLanded
<1>7. MemFromWire
  BY <1>1 DEF MemFromWire
<1>8. OnSlots
  <2> SUFFICES ASSUME NEW s \in plan.send PROVE write % Slot(s) = 0
    BY <1>1 DEF OnSlots
  <2>1. PICK m : m = Slot(s)
    OBVIOUS
  <2>2. m \in Nat \ {0}
    BY <2>1, PlanLengths DEF Init
  <2>3. (m * 0) % m = 0 /\ m * 0 = 0
    BY <2>2, MultipleMod
  <2> QED BY <1>1, <2>1, <2>3
<1> QED
  BY <1>4, <1>5, <1>6, <1>7, <1>8 DEF ByteInv

\* Every step keeps the offsets.
LEMMA NextOffsets ==
  ASSUME TypeOK, OffsetInv, ByteInv, [Next]_vars
  PROVE  OffsetInv'
<1>1. ASSUME NEW len \in plan.send, Post(len) PROVE OffsetInv'
  <2>1. /\ UNCHANGED <<plan, sent, got, read, write, visible, statusWire, recvPc, room>>
        /\ sendPc = "idle" /\ sendPc' = "try" /\ want' = len
    BY <1>1 DEF Post, receiverVars
  <2>2. LengthsAllowed'
    BY <2>1 DEF OffsetInv, LengthsAllowed
  <2> QED BY <2>1, <2>2, OffsetsStay
<1>2. CASE WritePayload
  BY <1>2, OffsetsWritePayload
<1>3. CASE WriteSize
  <2>1. /\ UNCHANGED <<plan, sent, got, read, write, visible, statusWire, recvPc, room>>
        /\ sendPc' = "idle"
    BY <1>3 DEF WriteSize, receiverVars
  <2>2. LengthsAllowed'
    BY <2>1 DEF OffsetInv, LengthsAllowed
  <2> QED BY <2>1, <2>2, OffsetsStay
<1>4. CASE Land
  <2>1. UNCHANGED <<plan, sent, got, read, write, visible, statusWire, recvPc, room, sendPc, want>>
    BY <1>4 DEF Land, senderVars, receiverVars
  <2>2. LengthsAllowed'
    BY <2>1 DEF OffsetInv, LengthsAllowed
  <2> QED BY <2>1, <2>2, OffsetsStay
<1>5. CASE LandStatus
  BY <1>5, OffsetsLandStatus
<1>6. ASSUME NEW len \in plan.recv, LoadSize(len) PROVE OffsetInv'
  <2>1. /\ UNCHANGED <<plan, sent, got, read, write, visible, statusWire, sendPc, want>>
        /\ room' = len
    BY <1>6 DEF LoadSize, senderVars
  <2>2. LengthsAllowed'
    BY <2>1 DEF OffsetInv, LengthsAllowed
  <2> QED BY <2>1, <2>2, OffsetsStay
<1>7. CASE CopyOut
  <2>1. /\ UNCHANGED <<plan, sent, got, read, write, visible, statusWire, sendPc, want, room>>
        /\ recvPc = "copy"
    BY <1>7 DEF CopyOut, senderVars
  <2>2. LengthsAllowed'
    BY <2>1 DEF OffsetInv, LengthsAllowed
  <2> QED BY <2>1, <2>2, OffsetsStay
<1>8. CASE ClearRead
  <2>1. /\ UNCHANGED <<plan, sent, got, read, write, visible, statusWire, sendPc, want, room>>
        /\ recvPc = "clear"
    BY <1>8 DEF ClearRead, senderVars
  <2>2. LengthsAllowed'
    BY <2>1 DEF OffsetInv, LengthsAllowed
  <2> QED BY <2>1, <2>2, OffsetsStay
<1>9. CASE PublishRead
  BY <1>9, OffsetsPublishRead DEF ByteInv
<1>10. CASE UNCHANGED vars
  <2>1. UNCHANGED <<plan, sent, got, read, write, visible, statusWire, sendPc, want, room, recvPc>>
    BY <1>10 DEF vars, senderVars, receiverVars
  <2>2. LengthsAllowed'
    BY <2>1 DEF OffsetInv, LengthsAllowed
  <2> QED BY <2>1, <2>2, OffsetsStay
<1> QED
  BY <1>1, <1>2, <1>3, <1>4, <1>5, <1>6, <1>7, <1>8, <1>9, <1>10 DEF Next

\* The application never changes its lengths.
LEMMA PlanStays == [Next]_vars => plan' = plan
BY DEF Next, vars, Post, WritePayload, WriteSize, Land, LandStatus, LoadSize, CopyOut,
       ClearRead, PublishRead

\* With even slots, new_offset goes from slot to slot.
LEMMA NextOnSlots ==
  ASSUME TypeOK, OffsetInv, OnSlots, [Next]_vars
  PROVE  OnSlots'
<1> SUFFICES ASSUME EvenSlots, NEW s \in plan.send
             PROVE  /\ write' % Slot(s) = 0
                    /\ \A n \in 1 .. Len(sent') : sent'[n].at % Slot(s) = 0
  BY PlanStays, PlanDecides DEF OnSlots
<1>1. write % Slot(s) = 0 /\ \A n \in 1 .. Len(sent) : sent[n].at % Slot(s) = 0
  BY DEF OnSlots
<1>2. CASE WritePayload
  <2>1. /\ sendPc = "try" /\ want + Word <= RemoteSpace(visible, write)
        /\ sent' = Append(sent, [len |-> want, at |-> write])
        /\ write' = NewOffset(write, want)
        /\ sent \in Seq(Messages) /\ write \in Offsets /\ write \in Nat /\ want \in Nat
    BY <1>2 DEF WritePayload, TypeOK, Offsets
  <2>2. PICK m : m = Slot(s)
    OBVIOUS
  <2>3. m = Slot(want) /\ RingSize % m = 0 /\ m \in Nat \ {0} /\ m <= RingSize
    <3>1. want \in plan.send
      BY <2>1 DEF OffsetInv, LengthsAllowed
    <3>2. Slot(want) <= RingSize
      BY <2>1, SpaceIsThere
    <3> QED BY <2>2, <3>1, <3>2, PlanLengths DEF EvenSlots, TypeOK
  <2>4. (write + m) % m = 0
    <3>1. (m * 1) % m = 0 /\ m * 1 = m
      BY <2>3, MultipleMod
    <3> QED BY <1>1, <2>1, <2>2, <2>3, <3>1, MultiplesSum
  <2>5. RingSize \in Nat /\ (2 * RingSize) % m = 0
    <3>1. RingSize \in Nat /\ 2 * RingSize = RingSize + RingSize
      BY RingAssumption
    <3> QED BY <2>3, <3>1, MultiplesSum
  <2>6. write' % m = 0
    <3>1. CASE write + m < 2 * RingSize
      BY <2>1, <2>3, <2>4, <3>1, NewOffsetIs
    <3>2. CASE write + m >= 2 * RingSize
      <4>1. write' = (write + m) - 2 * RingSize
        <5>1. ~(write + m < 2 * RingSize)
          BY <2>1, <2>3, <2>5, <3>2
        <5>2. write' = IF write + m < 2 * RingSize THEN write + m
                       ELSE write + m - 2 * RingSize
          BY <2>1, <2>3, NewOffsetIs
        <5> QED BY <2>1, <2>3, <2>5, <5>1, <5>2
      <4>2. write + m \in Nat /\ 2 * RingSize \in Nat
        BY <2>1, <2>3, <2>5
      <4>3. ((write + m) - 2 * RingSize) % m = 0
        BY <2>3, <2>4, <2>5, <3>2, <4>2, MultiplesSum
      <4> QED BY <4>1, <4>3
    <3> QED BY <2>1, <2>3, <2>5, <3>1, <3>2
  <2>7. ASSUME NEW n \in 1 .. Len(sent') PROVE sent'[n].at % m = 0
    <3>1. CASE n \in 1 .. Len(sent)
      BY <1>1, <2>1, <2>2, <3>1
    <3>2. CASE n = Len(sent) + 1
      BY <1>1, <2>1, <2>2, <3>2
    <3> QED BY <2>1, <3>1, <3>2
  <2> QED BY <2>2, <2>6, <2>7
<1>3. CASE UNCHANGED <<write, sent>>
  BY <1>1, <1>3
<1>4. WritePayload \/ UNCHANGED <<write, sent>>
  BY DEF Next, vars, senderVars, Post, WriteSize, Land, LandStatus, LoadSize, CopyOut,
         ClearRead, PublishRead
<1> QED
  BY <1>2, <1>3, <1>4

\* Every step keeps the bytes, where the barriers work and size words are kept.
LEMMA NextBytes ==
  ASSUME HasSequence, SizesKept, TypeOK, OffsetInv, OnSlots, ByteInv, [Next]_vars
  PROVE  ByteInv'
<1>1. ASSUME NEW len \in plan.send, Post(len) PROVE ByteInv'
  BY <1>1, BytesPost
<1>2. ASSUME NEW len \in plan.recv, LoadSize(len) PROVE ByteInv'
  BY <1>2, BytesLoadSize
<1>3. CASE UNCHANGED vars
  <2>1. UNCHANGED <<plan, mem, wire, sent, got, recvPc, room, size, data, sendPc>>
    BY <1>3 DEF vars, senderVars, receiverVars
  <2>2. Bytes' /\ \A n, i : Landed(n, i)' = Landed(n, i)
    BY <2>1, BytesStay DEF ByteInv, Bytes, First
  <2>3. ReceivesLanded'
    BY <2>1, <2>2 DEF ByteInv, ReceivesLanded, Unread, Copied
  <2> QED BY <2>2, <2>3 DEF Bytes, ByteInv
<1> QED
  BY <1>1, <1>2, <1>3, BytesWritePayload, BytesWriteSize, BytesLand, BytesLandStatus,
     BytesCopyOut, BytesClearRead, BytesPublishRead DEF Next

\* The invariant holds at every step, with a sequence and size words that are
\* kept from what cuts leave behind.
THEOREM RingInvariant == HasSequence /\ Spec => []IInv
<1> SUFFICES ASSUME HasSequence PROVE Spec => []IInv
  OBVIOUS
<1>1. Init /\ TypeOK => IInv
  BY InitInv DEF IInv
<1>2. IInv /\ TypeOK' /\ [Next]_vars => IInv'
  <2> SUFFICES ASSUME IInv, TypeOK', [Next]_vars, SizesKept'
               PROVE  OffsetInv' /\ OnSlots' /\ ByteInv'
    BY DEF IInv
  <2>1. SizesKept
    BY PlanStays, PlanDecides
  <2> QED BY <2>1, NextOffsets, NextOnSlots, NextBytes DEF IInv
<1> QED
  BY <1>1, <1>2, TypeCorrect, PTL DEF Spec

\* A remote store only goes to bytes that the receiver has cleared, and no two
\* stores on their way to the same: write_msg overwrites nothing.
THEOREM StoresSafe == HasSequence /\ Spec => []StoresHitClearedBytes
<1> SUFFICES ASSUME HasSequence PROVE Spec => []StoresHitClearedBytes
  OBVIOUS
<1>1. IInv => StoresHitClearedBytes
  <2> SUFFICES ASSUME IInv, Uncut, NEW e \in 1 .. Len(wire), NEW s \in wire[e]
               PROVE  /\ \A p \in s.at : mem[p] = Cleared
                      /\ \A f \in 1 .. Len(wire) : \A t \in wire[f] :
                           <<e, s>> # <<f, t>> => s.at \cap t.at = {}
    BY DEF StoresHitClearedBytes, Uncut
  <2>1. TypeOK /\ OffsetInv /\ ByteInv
    BY DEF IInv, SizesKept
  <2>2. ASSUME NEW f \in 1 .. Len(wire), NEW t \in wire[f]
        PROVE  /\ t.byte.msg \in Unread /\ t.byte.idx \in Indices(t.byte.msg)
               /\ t = Store(t.byte.msg, t.byte.idx)
               /\ Pending(t.byte.msg, t.byte.idx)
    BY <2>1 DEF ByteInv, WireStores, Pending
  <2>3. ASSUME NEW p \in s.at PROVE mem[p] = Cleared
    <3>1. PICK n, i : n = s.byte.msg /\ i = s.byte.idx
      OBVIOUS
    <3>2. n \in Unread /\ i \in Indices(n) /\ s = Store(n, i) /\ Pending(n, i)
      BY <2>2, <3>1
    <3> QED BY <2>1, <3>2, PendingBytesAreClear
  <2>4. ASSUME NEW f \in 1 .. Len(wire), NEW t \in wire[f], NEW p \in s.at, p \in t.at
        PROVE  e = f /\ s = t
    <3>1. PICK n, i, m, j : /\ n = s.byte.msg /\ i = s.byte.idx
                            /\ m = t.byte.msg /\ j = t.byte.idx
      OBVIOUS
    <3>2. /\ n \in Unread /\ i \in Indices(n) /\ s = Store(n, i)
          /\ m \in Unread /\ j \in Indices(m) /\ t = Store(m, j)
      BY <2>2, <3>1
    <3>3. n = m /\ i = j
      BY <2>1, <2>4, <3>2, StoresApart DEF Apart
    <3>4. s = t
      BY <3>2, <3>3
    <3> QED BY <2>1, <3>4 DEF ByteInv, WireOnce
  <2> QED BY <2>3, <2>4
<1> QED
  BY <1>1, RingInvariant, PTL

\* An application whose messages keep the size words does so for ever.
LEMMA StaysKept == Spec /\ SizesKept => []SizesKept
<1>1. SizesKept /\ [Next]_vars => SizesKept'
  BY PlanStays, PlanDecides
<1> QED
  BY <1>1, PTL DEF Spec

\* The two sides agree on where every message starts; the sender never runs
\* more than a ring ahead of the receiver, however late it learns where it is,
\* as long as no size word is read from what a cut left behind.
THEOREM OffsetsSafe == HasSequence /\ Spec /\ SizesKept => []OffsetsAgree
<1> SUFFICES ASSUME HasSequence PROVE Spec /\ SizesKept => []OffsetsAgree
  OBVIOUS
<1>1. IInv /\ SizesKept => OffsetsAgree
  <2> SUFFICES ASSUME TypeOK, OffsetInv PROVE OffsetsAgree
    BY DEF IInv
  <2>1. /\ visible \in Offsets /\ read \in Offsets /\ write \in Offsets
        /\ Len(sent) \in Nat /\ Len(got) \in Nat /\ RingSize \in Nat \ {0}
    BY RingAssumption DEF TypeOK
  <2>2. Lag(visible) + Used <= RingSize /\ Lag(visible) \in Nat /\ Used \in Nat
    BY <2>1, DistFacts DEF OffsetInv, StatusLags, Lag, Used
  <2>3. Dist(visible, write) = Lag(visible) + Used
    BY <2>1, <2>2, DistSum DEF Lag, Used
  <2>4. read = IF Len(got) < Len(sent) THEN sent[Len(got) + 1].at ELSE write
    <3>1. CASE Len(got) < Len(sent)
      BY <2>1, <3>1 DEF OffsetInv, Layout, Unread
    <3>2. CASE ~(Len(got) < Len(sent))
      BY <2>1, <3>2 DEF OffsetInv, Layout, Unread
    <3> QED BY <3>1, <3>2
  <2> QED BY <2>2, <2>3, <2>4 DEF OffsetsAgree, Lag, Used
<1> QED
  BY <1>1, RingInvariant, StaysKept, PTL

\* try_recv takes no message that was not sent, and none that is half there:
\* a size word that is not zero is the size of the first unread message, and
\* its payload is behind it, unless a cut may have left bytes where it goes.
THEOREM ReaderSafe == HasSequence /\ Spec /\ SizesKept => []ReaderSeesWholeMessages
<1> SUFFICES ASSUME HasSequence PROVE Spec /\ SizesKept => []ReaderSeesWholeMessages
  OBVIOUS
<1>1. IInv /\ SizesKept => ReaderSeesWholeMessages
  <2> SUFFICES ASSUME SizesKept, TypeOK, OffsetInv, OnSlots, ByteInv, recvPc = "idle", SizeWord(read) # {Cleared},
                      NEW n, n = Len(got) + 1
               PROVE  /\ n <= Len(sent)
                      /\ SizeWord(read) = {Byte(n, 0)}
                      /\ \A i \in 1 .. sent[n].len : mem[Pos(read, Word + i - 1)] = Byte(n, i)
    BY DEF IInv, ReaderSeesWholeMessages
  <2>1. n \in Unread /\ Landed(n, 0) /\ sent[n].at = read /\ SizeWord(read) = {Byte(n, 0)}
    BY WholeMessage
  <2>2. n \in 1 .. Len(sent) /\ n \in First .. Len(sent) /\ sent[n].len \in Nat
    BY <2>1, UnreadFacts, FirstFacts
  <2>3. ASSUME NEW i \in 1 .. sent[n].len PROVE mem[Pos(read, Word + i - 1)] = Byte(n, i)
    <3>1. i \in Indices(n) /\ i # 0
      BY <2>2 DEF Indices
    <3>2. Landed(n, i)
      BY <2>1, <3>1, AllLanded
    <3>3. Pos(read, Word + i - 1) \in Store(n, i).at
      BY <2>1, <3>1 DEF Store
    <3> QED BY <2>2, <3>1, <3>2, <3>3 DEF ByteInv, LandedIsThere
  <2> QED BY <2>1, <2>2, <2>3
<1> QED
  BY <1>1, RingInvariant, StaysKept, PTL

-----------------------------------------------------------------------------
(* The ring implements the channel: writing a payload accepts a message,   *)
(* publishing the read offset delivers one, all other steps are invisible. *)

\* The lengths of the messages written so far, which the channel has accepted.
AcceptedLens == [i \in 1 .. Len(sent) |-> sent[i].len]

\* Writing a message accepts it.
LEMMA WriteAccepts ==
  ASSUME TypeOK, OffsetInv, WritePayload
  PROVE  \E len \in UNION {p.send : p \in Plans} : Channel!Accept(len)
<1>1. want \in plan.send /\ plan \in Plans
  BY DEF WritePayload, OffsetInv, LengthsAllowed, TypeOK
<1>2. want \in UNION {p.send : p \in Plans}
  BY <1>1
<1>3. got' = got /\ sent' = Append(sent, [len |-> want, at |-> write]) /\ sent \in Seq(Messages)
  BY DEF WritePayload, receiverVars, TypeOK
<1>4. AcceptedLens' = Append(AcceptedLens, want)
  <2>1. Len(sent) \in Nat /\ Len(sent') = Len(sent) + 1
    BY <1>3
  <2>2. /\ \A i \in 1 .. Len(sent) : sent'[i] = sent[i]
        /\ sent'[Len(sent) + 1] = [len |-> want, at |-> write]
    BY <1>3
  <2>3. /\ AcceptedLens \in Seq(Nat) /\ Len(AcceptedLens) = Len(sent)
        /\ AcceptedLens' = [i \in 1 .. (Len(sent) + 1) |-> sent'[i].len]
    BY <1>3, <2>1, MessageFacts DEF AcceptedLens
  <2>4. Append(AcceptedLens, want)
          = [i \in 1 .. (Len(sent) + 1) |-> IF i = Len(sent) + 1 THEN want ELSE sent[i].len]
    BY <2>1, <2>3 DEF AcceptedLens
  <2> QED BY <2>1, <2>2, <2>3, <2>4
<1> QED
  BY <1>2, <1>3, <1>4 DEF Channel!Accept, AcceptedLens

\* Publishing the read offset delivers the message that was read.
LEMMA PublishDelivers ==
  ASSUME TypeOK, OffsetInv, ByteInv, PublishRead
  PROVE  \E buffer \in UNION {p.recv : p \in Plans} : Channel!Deliver(buffer)
<1>0. PICK n : n = Len(got) + 1
  OBVIOUS
<1>1. /\ sent' = sent /\ recvPc = "publish"
      /\ got' = Append(got, [data |-> data, toosmall |-> Copied < size])
  BY DEF PublishRead, senderVars
<1>2. /\ n \in Unread /\ size = sent[n].len /\ data = Payload(n, Copied)
      /\ room \in plan.recv /\ plan \in Plans
  BY <1>0, <1>1 DEF ByteInv, ReceivesLanded, Unread, OffsetInv, LengthsAllowed, TypeOK
<1>3. n \in 1 .. Len(sent) /\ size \in Nat /\ room \in Nat /\ n <= Len(sent)
  BY <1>2, UnreadFacts DEF TypeOK
<1>5. AcceptedLens[n] = size /\ Len(AcceptedLens) = Len(sent) /\ AcceptedLens' = AcceptedLens
  BY <1>1, <1>2, <1>3 DEF AcceptedLens, TypeOK
<1>6. Channel!Bytes(n, Copied) = data
  BY <1>2 DEF Channel!Bytes, Payload, Byte
<1>7. PICK k : k = IF size < room THEN size ELSE room
  OBVIOUS
<1>8. k = Copied
  BY <1>3, <1>7 DEF Copied, Smaller
<1>9. room \in UNION {p.recv : p \in Plans}
  BY <1>2
<1>10. Channel!Deliver(room)
  BY <1>0, <1>1, <1>3, <1>5, <1>6, <1>7, <1>8 DEF Channel!Deliver, AcceptedLens
<1> QED
  BY <1>9, <1>10

\* One direction of a connected MSG endpoint is a reliable, ordered channel of
\* messages, each delivered whole or cut to the buffer, as long as the barriers
\* work and no size word is read from what a cut left: no message is lost,
\* duplicated, reordered or torn, however the stores of the sender and the
\* status words of the receiver are delayed.
THEOREM RingIsChannel == HasSequence /\ Spec /\ SizesKept => ImplementsChannel
<1> SUFFICES ASSUME HasSequence PROVE Spec /\ SizesKept => ImplementsChannel
  OBVIOUS
<1>1. Init => Channel!ChanInit
  <2> SUFFICES ASSUME Init PROVE Channel!ChanInit
    OBVIOUS
  <2>1. sent = <<>> /\ got = <<>> /\ Len(sent) = 0
    BY DEF Init
  <2>2. [i \in 1 .. Len(sent) |-> sent[i].len] = <<>>
    BY <2>1
  <2> QED BY <2>1, <2>2 DEF Channel!ChanInit
<1>2. IInv /\ SizesKept /\ [Next]_vars => [Channel!ChanNext]_(Channel!chanVars)
  <2> SUFFICES ASSUME TypeOK, OffsetInv, ByteInv, [Next]_vars
               PROVE  Channel!ChanNext \/ UNCHANGED Channel!chanVars
    BY DEF IInv
  <2>1. CASE WritePayload
    BY <2>1, WriteAccepts DEF Channel!ChanNext
  <2>2. CASE PublishRead
    BY <2>2, PublishDelivers DEF Channel!ChanNext
  <2>3. CASE UNCHANGED <<sent, got>>
    BY <2>3 DEF Channel!chanVars
  <2>4. UNCHANGED <<sent, got>> \/ WritePayload \/ PublishRead
    BY DEF Next, vars, senderVars, receiverVars, Post, WriteSize, Land, LandStatus, LoadSize,
           CopyOut, ClearRead
  <2> QED BY <2>1, <2>2, <2>3, <2>4
<1> QED
  BY <1>1, <1>2, RingInvariant, StaysKept, PTL DEF Spec, ImplementsChannel, Channel!ChanSpec

=============================================================================
