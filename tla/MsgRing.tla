------------------------------- MODULE MsgRing -------------------------------
(***************************************************************************)
(* One direction of the data path of a connected MSG endpoint (dpa_msg.c,  *)
(* dpa_msg.h): a ring of RingSize bytes that lives in the receiver's       *)
(* segment.  The sender stores payload and then the size of each message   *)
(* into it with remote stores, the receiver polls the size word at its     *)
(* read offset, copies the message out, clears what it read and publishes  *)
(* its new read offset in a status word the sender polls.                  *)
(*                                                                         *)
(* Offsets run modulo 2 * RingSize ("pages"), so that an empty ring and a  *)
(* full ring differ.  Remote stores are in flight on the wire until they   *)
(* land; dpa_barrier splits them into epochs that land one after another,  *)
(* stores of one epoch land in any order.                                  *)
(***************************************************************************)
EXTENDS Integers, Sequences

CONSTANTS
  Word,          \* BUFFER_WORD: bytes of the size word, alignment of messages
  RingSize,      \* bytes of the ring: segment size minus the status word
  Plans,         \* the lengths an application passes to fi_send and fi_recv
  MaxSends,      \* bound: messages posted in a behaviour
  HasSequence,   \* FALSE when create_start_sequence returned NULL
  GarbageSizes   \* what a size word that is not one message's size may read as

ASSUME WordAssumption == Word \in Nat \ {0}
ASSUME RingAssumption ==
  /\ RingSize \in Nat \ {0}
  /\ RingSize % Word = 0
ASSUME LensAssumption ==
  /\ Plans \subseteq [send : SUBSET Nat, recv : SUBSET Nat]
  /\ GarbageSizes \subseteq 0 .. RingSize
ASSUME BoundAssumption == MaxSends \in Nat
ASSUME SequenceAssumption == HasSequence \in BOOLEAN

VARIABLES
  plan,       \* the lengths of this application, fixed
  mem,        \* the ring: the receiver's local segment, byte by byte
  wire,       \* remote stores on their way to mem, a sequence of epochs
  statusWire, \* read offsets on their way to the sender's status word
  sendPc,     \* where the sender is in try_send
  want,       \* length of the entry the sender is trying to send
  write,      \* ep_send_info.write
  visible,    \* remote_status->read as the sender sees it
  recvPc,     \* where the receiver is in try_recv
  room,       \* length of the entry the receiver is filling
  size,       \* read_ptr->size as the receiver loaded it
  data,       \* what it copied out of the ring
  read,       \* ep_recv_info.read
  sent,       \* history: messages written, with their offsets
  got         \* history: receive completions

senderVars   == <<sendPc, want, write, sent>>
receiverVars == <<recvPc, room, size, data, read, got>>
vars == <<plan, mem, wire, statusWire, senderVars, visible, receiverVars>>

-----------------------------------------------------------------------------
(* Offsets.                                                                *)

Smaller(a, b) == IF a < b THEN a ELSE b

\* Where messages start: on a word, on one of the two pages
Offsets == {o \in 0 .. (2 * RingSize - 1) : o % Word = 0}

\* BUFFER_WORD_ALIGN: integer division and multiplication
AlignDown(n) == Word * (n \div Word)

\* Bytes of the ring that a message of n bytes takes: its size word, its
\* payload, and the padding up to the next word.
Slot(n) == AlignDown(n + Word + (Word - 1))

\* Slip: new_offset without the rounding to the next word
UnalignedOffset(prev, n) == (prev + n + Word) % (2 * RingSize)

\* new_offset
NewOffset(prev, n) == AlignDown(prev + n + Word + (Word - 1)) % (2 * RingSize)

\* The byte of the ring k bytes after an offset: data_ptr, and the second
\* memcpy or memset that starts again at the base of the buffer.
Pos(off, k) == (off + k) % RingSize

\* Slips: remote_space that treats a reader on the previous page as one on
\* the same page, or that counts a page and the ring for the same bytes
SamePageSpace(r, w) == r + RingSize - w
TwoPageSpace(r, w) == IF r > w THEN r - w ELSE r + RingSize - w

\* remote_space: bytes the sender believes free, given the read offset r in
\* the status word and its own write offset w.
RemoteSpace(r, w) == IF r > w THEN r - RingSize - w ELSE r + RingSize - w

\* Bytes from offset a forward to offset b.
Dist(a, b) == IF a <= b THEN b - a ELSE b - a + 2 * RingSize

-----------------------------------------------------------------------------
(* Bytes.  A byte is known by the message it belongs to and its index in   *)
(* it: 0 for the size word, 1 .. len for the payload.                      *)

Cleared == [msg |-> 0, idx |-> 0]
Byte(n, i) == [msg |-> n, idx |-> i]
Cells == [msg : Nat, idx : Nat]

\* A message as the sender wrote it, and the completion of a receive.
Messages == [len : Nat, at : Offsets]
Completions == [data : Seq(Cells), toosmall : BOOLEAN]

\* The payload bytes a receive of k bytes of message n should return.
Payload(n, k) == [i \in 1 .. k |-> Byte(n, i)]

\* A remote store: the bytes it goes to and what it leaves in each of them.
Stores == [at : SUBSET (0 .. (RingSize - 1)), byte : Cells]

\* The size word of message n, one 8-byte store; its payload, byte by byte.
SizeStore(n, off) == [at |-> {Pos(off, k) : k \in 0 .. (Word - 1)}, byte |-> Byte(n, 0)]
PayloadStores(n, off, len) ==
  {[at |-> {Pos(off, Word + i - 1)}, byte |-> Byte(n, i)] : i \in 1 .. len}

\* The bytes of the size word at an offset, and the values it may read as.
SizeWord(off) == {mem[Pos(off, k)] : k \in 0 .. (Word - 1)}
SizeLoads(off) ==
  IF SizeWord(off) = {Cleared} THEN {0}
  ELSE IF \E n \in 1 .. Len(sent) : SizeWord(off) = {Byte(n, 0)}
       THEN {sent[n].len : n \in {m \in 1 .. Len(sent) : Byte(m, 0) \in SizeWord(off)}}
       ELSE GarbageSizes

-----------------------------------------------------------------------------
Init ==
  /\ plan \in Plans
  /\ mem = [p \in 0 .. (RingSize - 1) |-> Cleared]
  /\ wire = <<>>
  /\ statusWire = <<>>
  /\ sendPc = "idle" /\ want = 0 /\ write = 0 /\ sent = <<>>
  /\ visible = 0
  /\ recvPc = "idle" /\ room = 0 /\ size = 0 /\ data = <<>> /\ read = 0 /\ got = <<>>

\* Stores issued in the epoch of the stores before them: no barrier between
PutInSameEpoch(stores) ==
  IF wire = <<>> THEN <<stores>>
  ELSE [wire EXCEPT ![Len(wire)] = @ \cup stores]

\* Stores issued after a dpa_barrier, which does nothing without a sequence.
PutAfterBarrier(stores) ==
  IF stores = {} THEN wire
  ELSE IF HasSequence THEN Append(wire, stores)
  ELSE PutInSameEpoch(stores)

(* The sender: try_send and write_msg.  A try that finds no space returns  *)
(* -FI_EAGAIN and changes nothing; the entry is tried again later.         *)
Post(len) ==
  /\ sendPc = "idle"
  /\ Len(sent) < MaxSends
  /\ sendPc' = "try"
  /\ want' = len
  /\ UNCHANGED <<plan, mem, wire, statusWire, write, sent, visible, receiverVars>>

WritePayload ==
  LET n == Len(sent) + 1 IN
  /\ sendPc = "try"
  /\ want + Word <= RemoteSpace(visible, write)
  /\ wire' = PutAfterBarrier(PayloadStores(n, write, want))
  /\ write' = NewOffset(write, want)
  /\ sent' = Append(sent, [len |-> want, at |-> write])
  /\ want' = 0
  /\ sendPc' = "size"
  /\ UNCHANGED <<plan, mem, statusWire, visible, receiverVars>>

WriteSize ==
  LET n == Len(sent) IN
  /\ sendPc = "size"
  /\ wire' = PutAfterBarrier({SizeStore(n, sent[n].at)})
  /\ sendPc' = "idle"
  /\ UNCHANGED <<plan, mem, statusWire, want, write, sent, visible, receiverVars>>

(* The network: a remote store reaches the ring, a status word the sender. *)
Overwrite(s) == [p \in DOMAIN mem |-> IF p \in s.at THEN s.byte ELSE mem[p]]

Land ==
  /\ wire # <<>>
  /\ \E s \in Head(wire) :
       /\ mem' = Overwrite(s)
       /\ wire' = IF Head(wire) = {s} THEN Tail(wire)
                  ELSE [wire EXCEPT ![1] = @ \ {s}]
  /\ UNCHANGED <<plan, statusWire, senderVars, visible, receiverVars>>

LandStatus ==
  /\ statusWire # <<>>
  /\ visible' = Head(statusWire)
  /\ statusWire' = Tail(statusWire)
  /\ UNCHANGED <<plan, mem, wire, senderVars, receiverVars>>

(* The receiver: try_recv and read_msg.  A size word that reads as zero is *)
(* -FI_EAGAIN and changes nothing.                                         *)
LoadSize(len) ==
  /\ recvPc = "idle"
  /\ \E s \in SizeLoads(read) \ {0} : size' = s
  /\ room' = len
  /\ recvPc' = "copy"
  /\ UNCHANGED <<plan, mem, wire, statusWire, senderVars, visible, data, read, got>>

Copied == Smaller(room, size)

\* Slip: the payload taken from the start of the size word on
ByteFromSizeWord(i) == mem[Pos(read, i - 1)]
PayloadByte(i) == mem[Pos(read, Word + i - 1)]

CopyOut ==
  /\ recvPc = "copy"
  /\ data' = [i \in 1 .. Copied |-> PayloadByte(i)]
  /\ recvPc' = "clear"
  /\ UNCHANGED <<plan, mem, wire, statusWire, senderVars, visible, room, size, read, got>>

\* The two memsets cover the size word and the bytes copied, no more.
ClearedBytes == {Pos(read, k) : k \in 0 .. (Word + Copied - 1)}

ClearRead ==
  /\ recvPc = "clear"
  /\ mem' = [p \in DOMAIN mem |-> IF p \in ClearedBytes THEN Cleared ELSE mem[p]]
  /\ recvPc' = "publish"
  /\ UNCHANGED <<plan, wire, statusWire, senderVars, visible, room, size, data, read, got>>

\* Slip: advance by the buffer of the caller
RoomOffset == NewOffset(read, room)
\* The offset advances by the size of the message, whatever was copied.
NextRead == NewOffset(read, size)

PublishedStatus == Append(statusWire, NextRead)

\* The completion carries FI_ETOOSMALL when the message was cut.
PublishRead ==
  /\ recvPc = "publish"
  /\ read' = NextRead
  /\ statusWire' = PublishedStatus
  /\ got' = Append(got, [data |-> data, toosmall |-> Copied < size])
  /\ room' = 0 /\ size' = 0 /\ data' = <<>>
  /\ recvPc' = "idle"
  /\ UNCHANGED <<plan, mem, wire, senderVars, visible>>

Next ==
  \/ \E len \in plan.send : Post(len)
  \/ WritePayload
  \/ WriteSize
  \/ Land
  \/ LandStatus
  \/ \E len \in plan.recv : LoadSize(len)
  \/ CopyOut
  \/ ClearRead
  \/ PublishRead

Spec == Init /\ [][Next]_vars

\* Stores land, an application that has an operation outstanding keeps
\* driving progress (FI_PROGRESS_MANUAL) or the interrupt callback does.
Fairness ==
  /\ WF_vars(WritePayload)
  /\ WF_vars(WriteSize)
  /\ WF_vars(Land)
  /\ WF_vars(LandStatus)
  /\ WF_vars(\E len \in plan.recv : LoadSize(len))
  /\ WF_vars(CopyOut)
  /\ WF_vars(ClearRead)
  /\ WF_vars(PublishRead)

FairSpec == Spec /\ Fairness

-----------------------------------------------------------------------------
(* Properties.                                                             *)

\* Type invariant: the offsets new_offset computes stay below twice the ring
\* size and on a word boundary, so that a size word never wraps.
TypeOK ==
  /\ plan \in Plans
  /\ mem \in [0 .. (RingSize - 1) -> Cells]
  /\ wire \in Seq(SUBSET Stores)
  /\ statusWire \in Seq(Offsets)
  /\ sendPc \in {"idle", "try", "size"}
  /\ want \in Nat
  /\ write \in Offsets /\ visible \in Offsets /\ read \in Offsets
  /\ sent \in Seq(Messages)
  /\ sendPc = "size" => sent # <<>>
  /\ recvPc \in {"idle", "copy", "clear", "publish"}
  /\ room \in Nat /\ size \in Nat
  /\ data \in Seq(Cells)
  /\ got \in Seq(Completions)

\* The offsets of the two sides, each of which advances its own, agree on where
\* every message starts.  The read offset the sender sees is never ahead of the
\* receiver's, and the sender never runs more than one ring ahead of it: the
\* space remote_space computes from a stale status word is never more than the
\* space there is.
OffsetsAgree ==
  /\ read = IF Len(got) < Len(sent) THEN sent[Len(got) + 1].at ELSE write
  /\ Dist(visible, read) + Dist(read, write) = Dist(visible, write)
  /\ Dist(visible, write) <= RingSize

\* A remote store only ever goes to a byte that the receiver has cleared and
\* that no other store on its way goes to: write_msg overwrites nothing the
\* receiver still needs, and finds nothing the receiver left behind.  (A
\* receive that cuts its message does leave the rest of it behind.)
StoresHitClearedBytes ==
  (\A s \in plan.send, r \in plan.recv : s <= r) =>
  \A e \in 1 .. Len(wire) : \A s \in wire[e] :
    /\ \A p \in s.at : mem[p] = Cleared
    /\ \A f \in 1 .. Len(wire) : \A t \in wire[f] :
         <<e, s>> # <<f, t>> => s.at \cap t.at = {}

\* When the size word at the read offset is not zero, it is the size of the
\* first message not yet received, and all payload of that message is there:
\* try_recv takes no message that was not sent, and none that is half there.
ReaderSeesWholeMessages ==
  LET n == Len(got) + 1 IN
  recvPc = "idle" /\ SizeWord(read) # {Cleared} =>
    /\ n <= Len(sent)
    /\ SizeWord(read) = {Byte(n, 0)}
    /\ \A i \in 1 .. sent[n].len : mem[Pos(read, Word + i - 1)] = Byte(n, i)

Channel == INSTANCE MsgChannel WITH
  Lens <- UNION {p.send : p \in Plans}, Buffers <- UNION {p.recv : p \in Plans},
  accepted <- [i \in 1 .. Len(sent) |-> sent[i].len],
  delivered <- got

\* The ring implements a reliable, ordered channel of whole messages.
ImplementsChannel == Channel!ChanSpec

\* Messages posted: those in the ring or received, and the one try_send still
\* refuses for lack of space.
Posted == Len(sent) + (IF sendPc = "try" THEN 1 ELSE 0)

\* Every message posted is sent, and received, while receives are posted.
EveryMessageReceived ==
  \A n \in 1 .. MaxSends : (Posted >= n) ~> (Len(got) >= n)

=============================================================================
