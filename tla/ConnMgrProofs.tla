---------------------------- MODULE ConnMgrProofs ----------------------------
(***************************************************************************)
(* Theorems about ConnMgr for every set of nodes and endpoints.            *)
(*                                                                         *)
(* The buffer pool of a node takes no lock, yet no two endpoints get the   *)
(* same buffer: an endpoint is between get_empty_buffer and the            *)
(* reservation only while it holds interrupt 0 of its node, which one      *)
(* endpoint at a time can create.                                          *)
(*                                                                         *)
(* Nor do handshakes cross, though the answers to every endpoint of a node *)
(* go to that one interrupt and name nobody.  The request of a node is in  *)
(* one place at a time, and while it is there the endpoint that sent it    *)
(* waits and holds the interrupt (RequestersWait, RequestsOnce); so an     *)
(* answer finds no other before it, and the two endpoints it concerns wait *)
(* for each other until it is taken (AnswersMeant, Talks).  The second     *)
(* half of the module is this argument; it holds whatever calls fail.      *)
(***************************************************************************)
EXTENDS ConnMgr, TLAPS

\* An endpoint in its handshake holds the interrupt of its node.
HoldsInterrupt ==
  \A e \in Endpoints : pc[e] \in Handshaking => holder[Home[e]] = e

\* What get_empty_buffer returned is still free when it is reserved.
ChosenIsFree ==
  \A e \in Endpoints : pc[e] = "reserve" => chosen[e] \in Buffers \ reserved[Home[e]]

\* An answer names a buffer.
AnswerNamesBuffer ==
  \A e \in Endpoints : pc[e] = "answer" => data[e] \in Buffers

\* The buffer of an endpoint is out of the pool.
OwnBufferReserved ==
  \A e \in Endpoints : buffer[e] # 0 => buffer[e] \in reserved[Home[e]]

IInv ==
  /\ TypeOK
  /\ HoldsInterrupt
  /\ ChosenIsFree
  /\ AnswerNamesBuffer
  /\ OwnBufferReserved
  /\ BuffersExclusive
  /\ InterruptInUse

-----------------------------------------------------------------------------
\* What the assumptions say of the constants, in the form the proofs use.
LEMMA Parameters ==
  /\ \A e \in Endpoints : Home[e] \in Nodes
  /\ \A a \in Actives : a \in Endpoints /\ Target[a] \in Nodes
  /\ \A p \in Passives : p \in Endpoints
  /\ None \notin Endpoints
  /\ 0 \notin Buffers
BY HomeAssumption, NoneAssumption, BuffersAssumption DEF Endpoints, Buffers

\* Initially nobody holds an interrupt or has a buffer.
LEMMA InitInv == Init => IInv
<1> SUFFICES ASSUME Init PROVE IInv
  OBVIOUS
<1>1. TypeOK
  BY Parameters DEF Init, TypeOK, Stages, NoMap
<1>2. HoldsInterrupt /\ ChosenIsFree /\ AnswerNamesBuffer
  BY DEF Init, HoldsInterrupt, ChosenIsFree, AnswerNamesBuffer, Handshaking
<1>3. OwnBufferReserved /\ BuffersExclusive /\ InterruptInUse
  BY DEF Init, OwnBufferReserved, BuffersExclusive, InterruptInUse
<1>. QED
  BY <1>1, <1>2, <1>3 DEF IInv

-----------------------------------------------------------------------------
\* Every step keeps the invariant of the interrupts and of the pools.
LEMMA StepInv == IInv /\ [Next]_vars => IInv'
<1> SUFFICES ASSUME IInv, [Next]_vars PROVE IInv'
  OBVIOUS
<1>. USE DEF IInv
<1>1. ASSUME NEW n \in Nodes, Listen(n) PROVE IInv'
  <2>1. TypeOK'
    <3>1. listening' \subseteq Nodes
      BY <1>1, Parameters DEF Listen, TypeOK
    <3>. QED
      BY <1>1, <3>1 DEF Listen, mailVars, poolVars, linkVars, TypeOK
  <2>2. HoldsInterrupt'
    BY <1>1, Parameters DEF Listen, Goto, mailVars, poolVars, linkVars, TypeOK, Stages,
       HoldsInterrupt, Handshaking
  <2>3. ChosenIsFree' /\ AnswerNamesBuffer'
    BY <1>1, Parameters DEF Listen, Goto, mailVars, poolVars, linkVars, TypeOK, ChosenIsFree,
       AnswerNamesBuffer, HoldsInterrupt, Handshaking
  <2>4. OwnBufferReserved' /\ BuffersExclusive'
    BY <1>1, Parameters DEF Listen, Goto, mailVars, poolVars, linkVars, TypeOK,
       OwnBufferReserved, BuffersExclusive, ChosenIsFree
  <2>5. InterruptInUse'
    BY <1>1, Parameters
    DEF Listen, Goto, mailVars, poolVars, linkVars, TypeOK, Stages, HoldsInterrupt,
       InterruptInUse, Handshaking
  <2>. QED
    BY <2>1, <2>2, <2>3, <2>4, <2>5
<1>2. ASSUME NEW n \in Nodes, ProgressPep(n) PROVE IInv'
  <2>1. TypeOK'
    <3>1. requests' \in [Nodes -> Seq(Nodes)]
      BY <1>2, Parameters DEF ProgressPep, TypeOK
    <3>2. connreq' \in [Nodes -> Seq(Nodes)]
      BY <1>2, Parameters DEF ProgressPep, TypeOK
    <3>. QED
      BY <1>2, <3>1, <3>2 DEF ProgressPep, mailVars, poolVars, linkVars, TypeOK
  <2>2. HoldsInterrupt'
    BY <1>2, Parameters DEF ProgressPep, Goto, mailVars, poolVars, linkVars, TypeOK, Stages,
       HoldsInterrupt, Handshaking
  <2>3. ChosenIsFree' /\ AnswerNamesBuffer'
    BY <1>2, Parameters DEF ProgressPep, Goto, mailVars, poolVars, linkVars, TypeOK,
       ChosenIsFree, AnswerNamesBuffer, HoldsInterrupt, Handshaking
  <2>4. OwnBufferReserved' /\ BuffersExclusive'
    BY <1>2, Parameters DEF ProgressPep, Goto, mailVars, poolVars, linkVars, TypeOK,
       OwnBufferReserved, BuffersExclusive, ChosenIsFree
  <2>5. InterruptInUse'
    BY <1>2, Parameters
    DEF ProgressPep, Goto, mailVars, poolVars, linkVars, TypeOK, Stages, HoldsInterrupt,
       InterruptInUse, Handshaking
  <2>. QED
    BY <2>1, <2>2, <2>3, <2>4, <2>5
<1>3. ASSUME NEW a \in Actives, Connect(a) PROVE IInv'
  <2>1. TypeOK'
    <3>1. holder' \in [Nodes -> Endpoints \cup {None}]
      BY <1>3, Parameters DEF Connect, CreateInterrupt, InterruptFree, TypeOK
    <3>2. answers' \in [Nodes -> Seq(Answers)]
      BY <1>3, Parameters DEF Connect, CreateInterrupt, InterruptFree, TypeOK
    <3>3. pc' \in [Endpoints -> Stages]
      BY <1>3, Parameters DEF Connect, Goto, CreateInterrupt, InterruptFree, TypeOK, Stages
    <3>. QED
      BY <1>3, <3>1, <3>2, <3>3 DEF Connect, mailVars, poolVars, linkVars, TypeOK
  <2>2. HoldsInterrupt'
    BY <1>3, Parameters DEF Connect, Goto, CreateInterrupt, InterruptFree, mailVars, poolVars,
       linkVars, TypeOK, Stages, HoldsInterrupt, Handshaking
  <2>3. ChosenIsFree' /\ AnswerNamesBuffer'
    BY <1>3, Parameters DEF Connect, Goto, CreateInterrupt, InterruptFree, mailVars, poolVars,
       linkVars, TypeOK, ChosenIsFree, AnswerNamesBuffer, HoldsInterrupt, Handshaking
  <2>4. OwnBufferReserved' /\ BuffersExclusive'
    BY <1>3, Parameters DEF Connect, Goto, CreateInterrupt, InterruptFree, mailVars, poolVars,
       linkVars, TypeOK, OwnBufferReserved, BuffersExclusive, ChosenIsFree
  <2>5. InterruptInUse'
    BY <1>3, Parameters
    DEF Connect, Goto, CreateInterrupt, InterruptFree, mailVars, poolVars, linkVars, TypeOK,
       Stages, HoldsInterrupt, InterruptInUse, Handshaking
  <2>. QED
    BY <2>1, <2>2, <2>3, <2>4, <2>5
<1>4. ASSUME NEW a \in Actives, SendRequest(a) PROVE IInv'
  <2>1. TypeOK'
    <3>1. requests' \in [Nodes -> Seq(Nodes)]
      BY <1>4, Parameters DEF SendRequest, TypeOK
    <3>2. pc' \in [Endpoints -> Stages]
      BY <1>4, Parameters DEF SendRequest, Goto, TypeOK, Stages
    <3>. QED
      BY <1>4, <3>1, <3>2 DEF SendRequest, mailVars, poolVars, linkVars, TypeOK
  <2>2. HoldsInterrupt'
    BY <1>4, Parameters DEF SendRequest, Goto, mailVars, poolVars, linkVars, TypeOK, Stages,
       HoldsInterrupt, Handshaking
  <2>3. ChosenIsFree' /\ AnswerNamesBuffer'
    BY <1>4, Parameters DEF SendRequest, Goto, mailVars, poolVars, linkVars, TypeOK,
       ChosenIsFree, AnswerNamesBuffer, HoldsInterrupt, Handshaking
  <2>4. OwnBufferReserved' /\ BuffersExclusive'
    BY <1>4, Parameters DEF SendRequest, Goto, mailVars, poolVars, linkVars, TypeOK,
       OwnBufferReserved, BuffersExclusive, ChosenIsFree
  <2>5. InterruptInUse'
    BY <1>4, Parameters
    DEF SendRequest, Goto, mailVars, poolVars, linkVars, TypeOK, Stages, HoldsInterrupt,
       InterruptInUse, Handshaking
  <2>. QED
    BY <2>1, <2>2, <2>3, <2>4, <2>5
<1>5. ASSUME NEW p \in Passives, OpenPassive(p) PROVE IInv'
  <2>1. TypeOK'
    <3>1. peer' \in [Endpoints -> Nodes \cup {None}]
      BY <1>5, Parameters DEF OpenPassive, TypeOK
    <3>2. connreq' \in [Nodes -> Seq(Nodes)]
      BY <1>5, Parameters DEF OpenPassive, TypeOK
    <3>3. pc' \in [Endpoints -> Stages]
      BY <1>5, Parameters DEF OpenPassive, Goto, TypeOK, Stages
    <3>. QED
      BY <1>5, <3>1, <3>2, <3>3 DEF OpenPassive, mailVars, poolVars, linkVars, TypeOK
  <2>2. HoldsInterrupt'
    BY <1>5, Parameters DEF OpenPassive, Goto, mailVars, poolVars, linkVars, TypeOK, Stages,
       HoldsInterrupt, Handshaking
  <2>3. ChosenIsFree' /\ AnswerNamesBuffer'
    BY <1>5, Parameters DEF OpenPassive, Goto, mailVars, poolVars, linkVars, TypeOK,
       ChosenIsFree, AnswerNamesBuffer, HoldsInterrupt, Handshaking
  <2>4. OwnBufferReserved' /\ BuffersExclusive'
    BY <1>5, Parameters DEF OpenPassive, Goto, mailVars, poolVars, linkVars, TypeOK,
       OwnBufferReserved, BuffersExclusive, ChosenIsFree
  <2>5. InterruptInUse'
    BY <1>5, Parameters
    DEF OpenPassive, Goto, mailVars, poolVars, linkVars, TypeOK, Stages, HoldsInterrupt,
       InterruptInUse, Handshaking
  <2>. QED
    BY <2>1, <2>2, <2>3, <2>4, <2>5
<1>6. ASSUME NEW p \in Passives, Accept(p) PROVE IInv'
  <2>1. TypeOK'
    <3>1. holder' \in [Nodes -> Endpoints \cup {None}]
      BY <1>6, Parameters DEF Accept, CreateInterrupt, InterruptFree, TypeOK
    <3>2. answers' \in [Nodes -> Seq(Answers)]
      BY <1>6, Parameters DEF Accept, CreateInterrupt, InterruptFree, TypeOK
    <3>3. pc' \in [Endpoints -> Stages]
      BY <1>6, Parameters DEF Accept, Goto, CreateInterrupt, InterruptFree, TypeOK, Stages
    <3>. QED
      BY <1>6, <3>1, <3>2, <3>3 DEF Accept, mailVars, poolVars, linkVars, TypeOK
  <2>2. HoldsInterrupt'
    BY <1>6, Parameters DEF Accept, Goto, CreateInterrupt, InterruptFree, mailVars, poolVars,
       linkVars, TypeOK, Stages, HoldsInterrupt, Handshaking
  <2>3. ChosenIsFree' /\ AnswerNamesBuffer'
    BY <1>6, Parameters DEF Accept, Goto, CreateInterrupt, InterruptFree, mailVars, poolVars,
       linkVars, TypeOK, ChosenIsFree, AnswerNamesBuffer, HoldsInterrupt, Handshaking
  <2>4. OwnBufferReserved' /\ BuffersExclusive'
    BY <1>6, Parameters DEF Accept, Goto, CreateInterrupt, InterruptFree, mailVars, poolVars,
       linkVars, TypeOK, OwnBufferReserved, BuffersExclusive, ChosenIsFree
  <2>5. InterruptInUse'
    BY <1>6, Parameters
    DEF Accept, Goto, CreateInterrupt, InterruptFree, mailVars, poolVars, linkVars, TypeOK,
       Stages, HoldsInterrupt, InterruptInUse, Handshaking
  <2>. QED
    BY <2>1, <2>2, <2>3, <2>4, <2>5
<1>7. ASSUME NEW e \in Endpoints, ChooseBuffer(e) PROVE IInv'
  <2>1. TypeOK'
    <3>1. chosen' \in [Endpoints -> Buffers \cup {0}]
      BY <1>7, Parameters DEF ChooseBuffer, FirstFree, TypeOK
    <3>2. pc' \in [Endpoints -> Stages]
      BY <1>7, Parameters DEF ChooseBuffer, Goto, FirstFree, TypeOK, Stages
    <3>. QED
      BY <1>7, <3>1, <3>2 DEF ChooseBuffer, mailVars, poolVars, linkVars, TypeOK
  <2>2. HoldsInterrupt'
    BY <1>7, Parameters DEF ChooseBuffer, Goto, FirstFree, mailVars, poolVars, linkVars, TypeOK,
       Stages, HoldsInterrupt, Handshaking
  <2>3. ChosenIsFree' /\ AnswerNamesBuffer'
    BY <1>7, Parameters DEF ChooseBuffer, Goto, FirstFree, mailVars, poolVars, linkVars, TypeOK,
       ChosenIsFree, AnswerNamesBuffer, HoldsInterrupt, Handshaking
  <2>4. OwnBufferReserved' /\ BuffersExclusive'
    BY <1>7, Parameters DEF ChooseBuffer, Goto, FirstFree, mailVars, poolVars, linkVars, TypeOK,
       OwnBufferReserved, BuffersExclusive, ChosenIsFree
  <2>5. InterruptInUse'
    BY <1>7, Parameters
    DEF ChooseBuffer, Goto, FirstFree, mailVars, poolVars, linkVars, TypeOK, Stages,
       HoldsInterrupt, InterruptInUse, Handshaking
  <2>. QED
    BY <2>1, <2>2, <2>3, <2>4, <2>5
<1>8. ASSUME NEW e \in Endpoints, ReserveBuffer(e) PROVE IInv'
  <2>1. TypeOK'
    <3>1. reserved' \in [Nodes -> SUBSET Buffers]
      BY <1>8, Parameters DEF ReserveBuffer, ChosenIsFree, TypeOK
    <3>2. buffer' \in [Endpoints -> Buffers \cup {0}]
      BY <1>8, Parameters DEF ReserveBuffer, ChosenIsFree, TypeOK
    <3>3. data' \in [Endpoints -> Buffers \cup {0}]
      BY <1>8, Parameters DEF ReserveBuffer, ChosenIsFree, TypeOK
    <3>4. pc' \in [Endpoints -> Stages]
      BY <1>8, Parameters DEF ReserveBuffer, Goto, TypeOK, Stages
    <3>. QED
      BY <1>8, <3>1, <3>2, <3>3, <3>4 DEF ReserveBuffer, mailVars, poolVars, linkVars, TypeOK
  <2>2. HoldsInterrupt'
    BY <1>8, Parameters DEF ReserveBuffer, Goto, mailVars, poolVars, linkVars, TypeOK, Stages,
       HoldsInterrupt, Handshaking
  <2>3. ChosenIsFree' /\ AnswerNamesBuffer'
    BY <1>8, Parameters DEF ReserveBuffer, Goto, mailVars, poolVars, linkVars, TypeOK,
       ChosenIsFree, AnswerNamesBuffer, HoldsInterrupt, Handshaking
  <2>4. OwnBufferReserved' /\ BuffersExclusive'
    BY <1>8, Parameters DEF ReserveBuffer, Goto, mailVars, poolVars, linkVars, TypeOK,
       OwnBufferReserved, BuffersExclusive, ChosenIsFree
  <2>5. InterruptInUse'
    BY <1>8, Parameters
    DEF ReserveBuffer, Goto, mailVars, poolVars, linkVars, TypeOK, Stages, HoldsInterrupt,
       InterruptInUse, Handshaking
  <2>. QED
    BY <2>1, <2>2, <2>3, <2>4, <2>5
<1>9. ASSUME NEW e \in Endpoints, SendAnswer(e) PROVE IInv'
  <2>1. TypeOK'
    <3>. DEFINE sent == [buffer |-> data[e], from |-> e]
    <3>0. sent \in Answers
      BY <1>9 DEF SendAnswer, AnswerNamesBuffer, Answers
    <3>. HIDE DEF sent
    <3>1. answers' \in [Nodes -> Seq(Answers)]
      <4>1. answers' = [answers EXCEPT ![peer[e]] = Append(@, sent)]
        BY <1>9 DEF SendAnswer, sent
      <4>2. answers \in [Nodes -> Seq(Answers)]
        BY DEF TypeOK
      <4>3. \A n \in Nodes : Append(answers[n], sent) \in Seq(Answers)
        BY <3>0, <4>2
      <4>. QED
        BY <4>1, <4>2, <4>3
    <3>2. pc' \in [Endpoints -> Stages]
      BY <1>9, Parameters DEF SendAnswer, Goto, Answered, TypeOK, Stages
    <3>. QED
      BY <1>9, <3>1, <3>2 DEF SendAnswer, mailVars, poolVars, linkVars, TypeOK
  <2>2. HoldsInterrupt'
    BY <1>9, Parameters DEF SendAnswer, Goto, Answered, mailVars, poolVars, linkVars, TypeOK,
       Stages, HoldsInterrupt, Handshaking
  <2>3. ChosenIsFree' /\ AnswerNamesBuffer'
    BY <1>9, Parameters DEF SendAnswer, Goto, Answered, mailVars, poolVars, linkVars, TypeOK,
       ChosenIsFree, AnswerNamesBuffer, HoldsInterrupt, Handshaking
  <2>4. OwnBufferReserved' /\ BuffersExclusive'
    BY <1>9, Parameters DEF SendAnswer, Goto, Answered, mailVars, poolVars, linkVars, TypeOK,
       OwnBufferReserved, BuffersExclusive, ChosenIsFree
  <2>5. InterruptInUse'
    BY <1>9, Parameters
    DEF SendAnswer, Goto, Answered, mailVars, poolVars, linkVars, TypeOK, Stages, HoldsInterrupt,
       InterruptInUse, Handshaking
  <2>. QED
    BY <2>1, <2>2, <2>3, <2>4, <2>5
<1>10. ASSUME NEW e \in Endpoints, TakeAnswer(e) PROVE IInv'
  <2>1. TypeOK'
    <3>. DEFINE taken == Head(answers[Home[e]])
    <3>0. taken \in Answers
      BY <1>10, Parameters DEF TakeAnswer, TypeOK
    <3>a. taken.buffer \in Buffers /\ taken.from \in Endpoints
      BY <3>0 DEF Answers
    <3>1. data' \in [Endpoints -> Buffers \cup {0}]
      BY <1>10, <3>a DEF TakeAnswer, TypeOK
    <3>2. partner' \in [Endpoints -> Endpoints \cup {None}]
      BY <1>10, <3>a DEF TakeAnswer, TypeOK
    <3>3. answers' \in [Nodes -> Seq(Answers)]
      BY <1>10, Parameters DEF TakeAnswer, TypeOK
    <3>4. pc' \in [Endpoints -> Stages]
      BY <1>10, Parameters DEF TakeAnswer, Goto, TypeOK, Stages
    <3>. QED
      BY <1>10, <3>1, <3>2, <3>3, <3>4 DEF TakeAnswer, mailVars, poolVars, linkVars, TypeOK
  <2>2. HoldsInterrupt'
    BY <1>10, Parameters DEF TakeAnswer, Goto, mailVars, poolVars, linkVars, TypeOK, Stages,
       HoldsInterrupt, Handshaking
  <2>3. ChosenIsFree' /\ AnswerNamesBuffer'
    BY <1>10, Parameters DEF TakeAnswer, Goto, mailVars, poolVars, linkVars, TypeOK,
       ChosenIsFree, AnswerNamesBuffer, HoldsInterrupt, Handshaking
  <2>4. OwnBufferReserved' /\ BuffersExclusive'
    BY <1>10, Parameters DEF TakeAnswer, Goto, mailVars, poolVars, linkVars, TypeOK,
       OwnBufferReserved, BuffersExclusive, ChosenIsFree
  <2>5. InterruptInUse'
    BY <1>10, Parameters
    DEF TakeAnswer, Goto, mailVars, poolVars, linkVars, TypeOK, Stages, HoldsInterrupt,
       InterruptInUse, Handshaking
  <2>. QED
    BY <2>1, <2>2, <2>3, <2>4, <2>5
<1>11. ASSUME NEW e \in Endpoints, RemoveInterrupt(e) PROVE IInv'
  <2>1. TypeOK'
    <3>1. holder' \in [Nodes -> Endpoints \cup {None}]
      BY <1>11, Parameters DEF RemoveInterrupt, FreedByRemove, TypeOK
    <3>2. answers' \in [Nodes -> Seq(Answers)]
      BY <1>11, Parameters DEF RemoveInterrupt, FreedByRemove, TypeOK
    <3>3. pc' \in [Endpoints -> Stages]
      BY <1>11, Parameters DEF RemoveInterrupt, Goto, FreedByRemove, TypeOK, Stages
    <3>. QED
      BY <1>11, <3>1, <3>2, <3>3 DEF RemoveInterrupt, mailVars, poolVars, linkVars, TypeOK
  <2>2. HoldsInterrupt'
    BY <1>11, Parameters DEF RemoveInterrupt, Goto, FreedByRemove, mailVars, poolVars, linkVars,
       TypeOK, Stages, HoldsInterrupt, Handshaking
  <2>3. ChosenIsFree' /\ AnswerNamesBuffer'
    BY <1>11, Parameters DEF RemoveInterrupt, Goto, FreedByRemove, mailVars, poolVars, linkVars,
       TypeOK, ChosenIsFree, AnswerNamesBuffer, HoldsInterrupt, Handshaking
  <2>4. OwnBufferReserved' /\ BuffersExclusive'
    BY <1>11, Parameters DEF RemoveInterrupt, Goto, FreedByRemove, mailVars, poolVars, linkVars,
       TypeOK, OwnBufferReserved, BuffersExclusive, ChosenIsFree
  <2>5. InterruptInUse'
    BY <1>11, Parameters
    DEF RemoveInterrupt, Goto, FreedByRemove, mailVars, poolVars, linkVars, TypeOK, Stages,
       HoldsInterrupt, InterruptInUse, Handshaking
  <2>. QED
    BY <2>1, <2>2, <2>3, <2>4, <2>5
<1>12. ASSUME NEW e \in Endpoints, ConnectMsg(e) PROVE IInv'
  <2>1. TypeOK'
    <3>1. maps' \in [Endpoints -> [node : Nodes \cup {None}, buffer : Buffers \cup {0}]]
      BY <1>12, Parameters DEF ConnectMsg, TypeOK
    <3>2. connected' \in [Endpoints -> BOOLEAN]
      BY <1>12, Parameters DEF ConnectMsg, TypeOK
    <3>3. pc' \in [Endpoints -> Stages]
      BY <1>12, Parameters DEF ConnectMsg, Goto, TypeOK, Stages
    <3>. QED
      BY <1>12, <3>1, <3>2, <3>3 DEF ConnectMsg, mailVars, poolVars, linkVars, TypeOK
  <2>2. HoldsInterrupt'
    BY <1>12, Parameters DEF ConnectMsg, Goto, mailVars, poolVars, linkVars, TypeOK, Stages,
       HoldsInterrupt, Handshaking
  <2>3. ChosenIsFree' /\ AnswerNamesBuffer'
    BY <1>12, Parameters DEF ConnectMsg, Goto, mailVars, poolVars, linkVars, TypeOK,
       ChosenIsFree, AnswerNamesBuffer, HoldsInterrupt, Handshaking
  <2>4. OwnBufferReserved' /\ BuffersExclusive'
    BY <1>12, Parameters DEF ConnectMsg, Goto, mailVars, poolVars, linkVars, TypeOK,
       OwnBufferReserved, BuffersExclusive, ChosenIsFree
  <2>5. InterruptInUse'
    BY <1>12, Parameters
    DEF ConnectMsg, Goto, mailVars, poolVars, linkVars, TypeOK, Stages, HoldsInterrupt,
       InterruptInUse, Handshaking
  <2>. QED
    BY <2>1, <2>2, <2>3, <2>4, <2>5
<1>13. ASSUME NEW e \in Endpoints, Disconnect(e) PROVE IInv'
  <2>1. TypeOK'
    <3>1. maps' \in [Endpoints -> [node : Nodes \cup {None}, buffer : Buffers \cup {0}]]
      BY <1>13, Parameters DEF Disconnect, NoMap, TypeOK
    <3>2. connected' \in [Endpoints -> BOOLEAN]
      BY <1>13, Parameters DEF Disconnect, NoMap, TypeOK
    <3>. QED
      BY <1>13, <3>1, <3>2 DEF Disconnect, mailVars, poolVars, linkVars, TypeOK
  <2>2. HoldsInterrupt'
    BY <1>13, Parameters DEF Disconnect, NoMap, mailVars, poolVars, linkVars, TypeOK,
       Stages, HoldsInterrupt, Handshaking
  <2>3. ChosenIsFree' /\ AnswerNamesBuffer'
    BY <1>13, Parameters DEF Disconnect, NoMap, mailVars, poolVars, linkVars, TypeOK,
       ChosenIsFree, AnswerNamesBuffer, HoldsInterrupt, Handshaking
  <2>4. OwnBufferReserved' /\ BuffersExclusive'
    BY <1>13, Parameters DEF Disconnect, NoMap, mailVars, poolVars, linkVars, TypeOK,
       OwnBufferReserved, BuffersExclusive, ChosenIsFree
  <2>5. InterruptInUse'
    BY <1>13, Parameters
    DEF Disconnect, NoMap, mailVars, poolVars, linkVars, TypeOK, Stages, HoldsInterrupt,
       InterruptInUse, Handshaking
  <2>. QED
    BY <2>1, <2>2, <2>3, <2>4, <2>5
<1>14. ASSUME NEW e \in Endpoints, Close(e) PROVE IInv'
  <2>1. TypeOK'
    <3>1. buffer' \in [Endpoints -> Buffers \cup {0}]
      BY <1>14, Parameters DEF Close, PoolAfterClose, TypeOK
    <3>2. reserved' \in [Nodes -> SUBSET Buffers]
      BY <1>14, Parameters DEF Close, PoolAfterClose, TypeOK
    <3>3. pc' \in [Endpoints -> Stages]
      BY <1>14, Parameters DEF Close, Goto, PoolAfterClose, TypeOK, Stages
    <3>4. connected' \in [Endpoints -> BOOLEAN]
      BY <1>14 DEF Close, TypeOK
    <3>. QED
      BY <1>14, <3>1, <3>2, <3>3, <3>4 DEF Close, mailVars, poolVars, linkVars, TypeOK
  <2>2. HoldsInterrupt'
    BY <1>14, Parameters DEF Close, Goto, PoolAfterClose, mailVars, poolVars, linkVars, TypeOK,
       Stages, HoldsInterrupt, Handshaking
  <2>3. ChosenIsFree' /\ AnswerNamesBuffer'
    BY <1>14, Parameters DEF Close, Goto, PoolAfterClose, mailVars, poolVars, linkVars, TypeOK,
       ChosenIsFree, AnswerNamesBuffer, HoldsInterrupt, Handshaking
  <2>4. OwnBufferReserved' /\ BuffersExclusive'
    BY <1>14, Parameters DEF Close, Goto, PoolAfterClose, mailVars, poolVars, linkVars, TypeOK,
       OwnBufferReserved, BuffersExclusive, ChosenIsFree
  <2>5. InterruptInUse'
    BY <1>14, Parameters
    DEF Close, Goto, PoolAfterClose, mailVars, poolVars, linkVars, TypeOK, Stages,
       HoldsInterrupt, InterruptInUse, Handshaking
  <2>. QED
    BY <2>1, <2>2, <2>3, <2>4, <2>5
<1>15. ASSUME NEW e \in Actives, RequestFails(e) PROVE IInv'
  <2>. USE DEF RequestFails, Fails, Goto, mailVars, poolVars, linkVars
  <2>1. TypeOK'
    <3>1. pc' \in [Endpoints -> Stages]
      BY <1>15, Parameters DEF TypeOK, Stages
    <3>2. failed' \subseteq Failing
      BY <1>15 DEF TypeOK
    <3>. QED
      BY <1>15, <3>1, <3>2 DEF TypeOK
  <2>2. HoldsInterrupt' /\ ChosenIsFree' /\ AnswerNamesBuffer'
    BY <1>15, Parameters DEF TypeOK, Stages, HoldsInterrupt, ChosenIsFree, AnswerNamesBuffer,
       Handshaking
  <2>3. OwnBufferReserved' /\ BuffersExclusive'
    BY <1>15, Parameters DEF OwnBufferReserved, BuffersExclusive
  <2>4. InterruptInUse'
    BY <1>15, Parameters DEF TypeOK, Stages, InterruptInUse, Handshaking
  <2>. QED
    BY <2>1, <2>2, <2>3, <2>4
<1>16. ASSUME NEW e \in Endpoints, AllocFails(e) PROVE IInv'
  <2>. USE DEF AllocFails, Fails, Resumed, Goto, mailVars, poolVars, linkVars
  <2>1. TypeOK'
    <3>1. pc' \in [Endpoints -> Stages]
      BY <1>16, Parameters DEF TypeOK, Stages
    <3>2. failed' \subseteq Failing
      BY <1>16 DEF TypeOK
    <3>. QED
      BY <1>16, <3>1, <3>2 DEF TypeOK
  <2>2. HoldsInterrupt' /\ ChosenIsFree' /\ AnswerNamesBuffer'
    BY <1>16, Parameters DEF TypeOK, Stages, HoldsInterrupt, ChosenIsFree, AnswerNamesBuffer,
       Handshaking
  <2>3. OwnBufferReserved' /\ BuffersExclusive'
    BY <1>16, Parameters DEF OwnBufferReserved, BuffersExclusive
  <2>4. InterruptInUse'
    BY <1>16, Parameters DEF TypeOK, Stages, InterruptInUse, Handshaking
  <2>. QED
    BY <2>1, <2>2, <2>3, <2>4
<1>17. ASSUME NEW e \in Endpoints, AnswerFails(e) PROVE IInv'
  <2>. USE DEF AnswerFails, Fails, Resumed, Answered, Goto, mailVars, poolVars, linkVars
  <2>1. TypeOK'
    <3>1. pc' \in [Endpoints -> Stages]
      BY <1>17, Parameters DEF TypeOK, Stages
    <3>2. failed' \subseteq Failing
      BY <1>17 DEF TypeOK
    <3>. QED
      BY <1>17, <3>1, <3>2 DEF TypeOK
  <2>2. HoldsInterrupt' /\ ChosenIsFree' /\ AnswerNamesBuffer'
    BY <1>17, Parameters DEF TypeOK, Stages, HoldsInterrupt, ChosenIsFree, AnswerNamesBuffer,
       Handshaking
  <2>3. OwnBufferReserved' /\ BuffersExclusive'
    BY <1>17, Parameters DEF OwnBufferReserved, BuffersExclusive
  <2>4. InterruptInUse'
    BY <1>17, Parameters DEF TypeOK, Stages, InterruptInUse, Handshaking
  <2>. QED
    BY <2>1, <2>2, <2>3, <2>4
<1>18. ASSUME NEW e \in Endpoints, ConnectMsgFails(e) PROVE IInv'
  <2>. USE DEF ConnectMsgFails, Fails, Goto, mailVars, poolVars, linkVars
  <2>1. TypeOK'
    <3>1. pc' \in [Endpoints -> Stages]
      BY <1>18, Parameters DEF TypeOK, Stages
    <3>2. failed' \subseteq Failing
      BY <1>18 DEF TypeOK
    <3>. QED
      BY <1>18, <3>1, <3>2 DEF TypeOK
  <2>2. HoldsInterrupt' /\ ChosenIsFree' /\ AnswerNamesBuffer'
    BY <1>18, Parameters DEF TypeOK, Stages, HoldsInterrupt, ChosenIsFree, AnswerNamesBuffer,
       Handshaking
  <2>3. OwnBufferReserved' /\ BuffersExclusive'
    BY <1>18, Parameters DEF OwnBufferReserved, BuffersExclusive
  <2>4. InterruptInUse'
    BY <1>18, Parameters DEF TypeOK, Stages, InterruptInUse, Handshaking
  <2>. QED
    BY <2>1, <2>2, <2>3, <2>4
<1>19. CASE UNCHANGED vars
  BY <1>19 DEF vars, mailVars, poolVars, linkVars, TypeOK, HoldsInterrupt, ChosenIsFree,
     AnswerNamesBuffer, OwnBufferReserved, BuffersExclusive, InterruptInUse, Handshaking
<1>. QED
  BY <1>1, <1>2, <1>3, <1>4, <1>5, <1>6, <1>7, <1>8, <1>9, <1>10, <1>11, <1>12, <1>13, <1>14,
     <1>15, <1>16, <1>17, <1>18, <1>19,
     Parameters DEF Next, HandshakeNext, FailureNext

-----------------------------------------------------------------------------
\* At every step of every behaviour the state of the handshakes is well typed.
THEOREM TypeCorrect == Spec => []TypeOK
<1>1. IInv => TypeOK
  BY DEF IInv
<1>. QED
  BY <1>1, InitInv, StepInv, PTL DEF Spec

\* No two endpoints of a node ever receive into the same buffer.
THEOREM ExclusiveBuffers == Spec => []BuffersExclusive
<1>1. IInv => BuffersExclusive
  BY DEF IInv
<1>. QED
  BY <1>1, InitInv, StepInv, PTL DEF Spec

\* Interrupt 0 of a node, without which every later handshake of the node is
\* refused, is left behind by nothing but a library call that failed and an
\* endpoint closed before its handshake ended, whatever else is disconnected,
\* and in whatever stage.
THEOREM InterruptReleased == Spec => []InterruptInUse
<1>1. IInv => InterruptInUse
  BY DEF IInv
<1>. QED
  BY <1>1, InitInv, StepInv, PTL DEF Spec

-----------------------------------------------------------------------------
(* Who talks to whom.  A request of a node is in one place at a time: in   *)
(* the mail of the node it went to, with the endpoint that serves it, or   *)
(* in the answer of that endpoint.  While it is there, the endpoint that   *)
(* sent it waits and holds interrupt 0 of its node.                        *)

\* The mail of a node: FI_CONNREQ events, then the requests behind them.
MailLen(m) == Len(connreq[m]) + Len(requests[m])
MailAt(m, i) ==
  IF i <= Len(connreq[m]) THEN connreq[m][i] ELSE requests[m][i - Len(connreq[m])]

\* An accepting endpoint that has not yet answered.
Serving(p) == p \in Passives /\ pc[p] \in {"accept", "alloc", "reserve", "answer"}

\* The endpoint that holds interrupt 0 of node n waits for an answer from m, or
\* was closed while it did.
Waiting(n, m) ==
  /\ n \in Nodes /\ holder[n] \in Actives
  /\ pc[holder[n]] \in {"await", "gone"} /\ Target[holder[n]] = m

\* An answer has come to node m, and from where.
HasAnswer(m) == Len(answers[m]) = 1
Answerer(m) == answers[m][1].from
\* The request of node n is answered, and the answer not yet taken.
IsAnswered(n) == HasAnswer(n) /\ Answerer(n) \in Passives

\* While the request of a node is somewhere, who sent it waits.
RequestersWait ==
  /\ \A m \in Nodes : \A i \in 1 .. MailLen(m) : Waiting(MailAt(m, i), m)
  /\ \A p \in Endpoints : Serving(p) => Waiting(peer[p], Home[p])
  /\ \A n \in Nodes : IsAnswered(n) => Waiting(n, Home[Answerer(n)])

\* The request of a node is in one place: in one mail, once, or with one
\* accepting endpoint, or answered.
RequestsOnce ==
  /\ \A m, k \in Nodes : \A i \in 1 .. MailLen(m), j \in 1 .. MailLen(k) :
       MailAt(m, i) = MailAt(k, j) => m = k /\ i = j
  /\ \A p \in Endpoints : Serving(p) =>
       \A m \in Nodes : \A i \in 1 .. MailLen(m) : MailAt(m, i) # peer[p]
  /\ \A p, q \in Endpoints : Serving(p) /\ Serving(q) /\ peer[p] = peer[q] => p = q
  /\ \A n \in Nodes : IsAnswered(n) =>
       /\ \A m \in Nodes : \A i \in 1 .. MailLen(m) : MailAt(m, i) # n
       /\ \A p \in Endpoints : Serving(p) => peer[p] # n

\* The stages of an endpoint whose answer is sent, or will never be.
Done == {"remove", "map", "ready", "freed"}
\* The stages of an active endpoint between the answer it takes and its own.
Talking == {"alloc", "reserve", "answer"}

\* Buffer b is the one endpoint f gave away: nobody else has it, now or later.
Gave(f, b) ==
  /\ pc[f] \in Done
  /\ b \in reserved[Home[f]] /\ buffer[f] \in {0, b}
  /\ \A g \in Endpoints : g # f /\ Home[g] = Home[f] => buffer[g] # b

\* Accepting endpoint p has sent its answer, and the other is still to come to
\* the interrupt it holds, though p may be closed.
Open(p) ==
  /\ p \in Passives /\ pc[p] \in {"await", "gone"} /\ partner[p] = None
  /\ holder[Home[p]] = p

\* Nobody has taken the answer of endpoint f.
Untaken(f) == \A g \in Endpoints : partner[g] # f

\* The answer of accepting endpoint f that has come to node m.
FromPassive(m, f) == f \in Passives /\ Open(f) /\ peer[f] = m /\ Untaken(f)
\* That of active endpoint f, which has taken the answer of the endpoint that
\* holds the interrupt of m.
FromActive(m, f, b) ==
  /\ f \in Actives /\ Target[f] = m /\ partner[f] = holder[m] /\ Untaken(f)
  /\ Gave(f, b)
  /\ Open(holder[m]) /\ peer[holder[m]] = Home[f]

\* At most one answer is at an interrupt, and it is meant for who holds it.
AnswersMeant ==
  \A m \in Nodes :
    /\ Len(answers[m]) \in {0, 1}
    /\ HasAnswer(m) =>
         \/ FromPassive(m, Answerer(m))
         \/ FromActive(m, Answerer(m), answers[m][1].buffer)

\* An active endpoint between the two answers: its partner waits for it.
Talks ==
  \A a \in Actives : pc[a] \in Talking =>
    Open(partner[a]) /\ Home[partner[a]] = Target[a] /\ peer[partner[a]] = Home[a]

\* Nobody has taken the answer of an endpoint that has not sent it.
Silent(f) ==
  IF f \in Actives THEN pc[f] \in {"idle", "request", "await", "alloc", "reserve", "answer"}
  ELSE pc[f] \in {"closed", "accept", "alloc", "reserve", "answer"}
NotYetPartner == \A f \in Endpoints : Silent(f) => Untaken(f)

\* An answer is taken by one endpoint.
PartnerOnce ==
  \A e, f \in Endpoints : partner[e] = partner[f] /\ partner[e] # None => e = f

\* What each side knows of the other: an active endpoint its target, an answer
\* the buffer of its sender, an accepting endpoint the buffer of its partner.
TargetKnown == \A a \in Actives : peer[a] = Target[a]
AnswerIsOwn == \A e \in Endpoints : pc[e] = "answer" => data[e] = buffer[e] /\ buffer[e] # 0
Knows(p) ==
  /\ pc[p] = "await" => buffer[p] # 0
  /\ pc[p] \in {"remove", "map", "ready"} => partner[p] # None
  /\ partner[p] # None =>
       /\ pc[p] \in Done /\ peer[p] = Home[partner[p]]
       /\ Gave(partner[p], data[p])
  /\ connected[p] => pc[p] = "ready" /\ maps[p] = [node |-> peer[p], buffer |-> data[p]]
PartnerKnown == \A p \in Passives : Knows(p)

PInv ==
  /\ IInv
  /\ RequestersWait /\ RequestsOnce /\ AnswersMeant /\ Talks
  /\ NotYetPartner /\ PartnerOnce /\ PartnersAgree
  /\ TargetKnown /\ AnswerIsOwn /\ PartnerKnown

-----------------------------------------------------------------------------
\* Nothing waits at the interrupt of an endpoint that does not wait for it.
LEMMA NoAnswerUnawaited ==
  ASSUME PInv, NEW n \in Nodes, holder[n] = None \/ pc[holder[n]] \notin {"await", "gone"}
  PROVE  answers[n] = <<>>
<1>1. answers[n] \in Seq(Answers) /\ Len(answers[n]) \in {0, 1}
  BY DEF PInv, IInv, TypeOK, AnswersMeant
<1>2. SUFFICES ASSUME HasAnswer(n) PROVE FALSE
  <2>1. Len(answers[n]) = 0 => answers[n] = <<>>
    BY <1>1
  <2> QED BY <1>1, <2>1 DEF HasAnswer
<1>3. CASE FromPassive(n, Answerer(n))
  <2>1. Waiting(n, Home[Answerer(n)])
    BY <1>2, <1>3 DEF PInv, RequestersWait, IsAnswered, FromPassive
  <2> QED BY <2>1, Parameters DEF Waiting
<1>4. CASE FromActive(n, Answerer(n), answers[n][1].buffer)
  BY <1>4, Parameters DEF FromActive, Open
<1> QED
  BY <1>2, <1>3, <1>4 DEF PInv, AnswersMeant

\* A step that changes the stage of one endpoint, which does not wait or is closed
\* while it does, and at most lets it take an interrupt nobody holds or free its
\* own when it does not wait, keeps the talks.
Moves(e) ==
  /\ UNCHANGED <<requests, connreq, answers, peer, partner>>
  /\ pc[e] \in {"await", "gone"} => pc'[e] \in {pc[e], "gone"}
  /\ \A f \in Endpoints : f # e => pc'[f] = pc[f]
  /\ \A n \in Nodes :
       \/ holder'[n] = holder[n] \/ holder[n] = None
       \/ holder[n] = e /\ pc[e] \notin {"await", "gone"}
  /\ Serving(e)' => Serving(e)
  /\ Silent(e)' => Silent(e)
  /\ e \in Actives /\ pc'[e] \in Talking => pc[e] \in Talking
  /\ \A f \in Endpoints : \A b : Gave(f, b) => Gave(f, b)'

\* Such a step keeps what is known of the requests, the answers and the partners.
LEMMA MovesKeep ==
  ASSUME PInv, NEW e \in Endpoints, Moves(e)
  PROVE  /\ RequestersWait' /\ RequestsOnce' /\ AnswersMeant' /\ Talks'
         /\ NotYetPartner' /\ PartnerOnce' /\ PartnersAgree' /\ TargetKnown'
<1>1. /\ UNCHANGED <<requests, connreq, answers, peer, partner>>
      /\ pc[e] \in {"await", "gone"} => pc'[e] \in {pc[e], "gone"}
      /\ \A f \in Endpoints : f # e => pc'[f] = pc[f]
      /\ \A n \in Nodes :
           \/ holder'[n] = holder[n] \/ holder[n] = None
           \/ holder[n] = e /\ pc[e] \notin {"await", "gone"}
      /\ \A f \in Endpoints : \A b : Gave(f, b) => Gave(f, b)'
  BY DEF Moves
<1>2. \A n, m : Waiting(n, m) => Waiting(n, m)'
  BY <1>1, Parameters DEF Waiting
<1>3. \A p \in Endpoints : Serving(p)' => Serving(p)
  BY <1>1 DEF Moves, Serving
<1>4. \A p \in Endpoints : Open(p) => Open(p)'
  BY <1>1, Parameters DEF Open
<1>5. \A m : /\ MailLen(m)' = MailLen(m) /\ HasAnswer(m)' = HasAnswer(m)
             /\ Answerer(m)' = Answerer(m) /\ IsAnswered(m)' = IsAnswered(m)
  BY <1>1 DEF MailLen, HasAnswer, Answerer, IsAnswered
<1>6. \A m, i : MailAt(m, i)' = MailAt(m, i)
  BY <1>1 DEF MailAt
<1>7. \A f : Untaken(f)' = Untaken(f)
  BY <1>1 DEF Untaken
<1>8. RequestersWait'
  BY <1>1, <1>2, <1>3, <1>5, <1>6 DEF PInv, RequestersWait
<1>9. RequestsOnce'
  BY <1>1, <1>3, <1>5, <1>6 DEF PInv, RequestsOnce
<1>10. AnswersMeant'
  <2> SUFFICES ASSUME NEW m \in Nodes, HasAnswer(m)
               PROVE  \/ FromPassive(m, Answerer(m))'
                      \/ FromActive(m, Answerer(m), answers[m][1].buffer)'
    BY <1>1, <1>5 DEF PInv, AnswersMeant
  <2>1. CASE FromPassive(m, Answerer(m))
    BY <1>1, <1>4, <1>5, <1>7, <2>1, Parameters DEF FromPassive
  <2>2. CASE FromActive(m, Answerer(m), answers[m][1].buffer)
    <3>1. holder'[m] = holder[m]
      BY <1>1, <2>2, Parameters DEF FromActive, Open
    <3>2. Open(holder[m])'
      BY <1>1, <1>4, <2>2, <3>1, Parameters DEF FromActive, Open
    <3> QED BY <1>1, <1>5, <1>7, <2>2, <3>1, <3>2, Parameters DEF FromActive
  <2> QED BY <2>1, <2>2 DEF PInv, AnswersMeant
<1>11. Talks'
  <2> SUFFICES ASSUME NEW a \in Actives, pc'[a] \in Talking
               PROVE  /\ Open(partner[a])' /\ Home[partner[a]] = Target[a]
                      /\ peer[partner[a]] = Home[a]
    BY <1>1 DEF Talks
  <2>1. pc[a] \in Talking
    BY <1>1, Parameters DEF Moves
  <2>2. Open(partner[a]) /\ Home[partner[a]] = Target[a] /\ peer[partner[a]] = Home[a]
    BY <2>1 DEF PInv, Talks
  <2>3. Open(partner[a])'
    BY <1>1, <1>4, <2>2, Parameters DEF Open
  <2> QED BY <2>2, <2>3
<1>12. NotYetPartner'
  BY <1>1, <1>7 DEF PInv, NotYetPartner, Moves, Silent
<1> QED
  BY <1>1, <1>8, <1>9, <1>10, <1>11, <1>12 DEF PInv, PartnerOnce, PartnersAgree, TargetKnown

\* What an accepting endpoint knows of its partner stays when another moves.
LEMMA OthersKnow ==
  ASSUME PInv, NEW e \in Endpoints, Moves(e),
         \A f \in Endpoints : f # e =>
           /\ data'[f] = data[f] /\ maps'[f] = maps[f]
           /\ connected'[f] = connected[f] /\ buffer'[f] = buffer[f],
         e \in Passives => Knows(e)'
  PROVE  PartnerKnown'
<1> SUFFICES ASSUME NEW p \in Passives, p # e PROVE Knows(p)'
  BY DEF PartnerKnown
<1>1. /\ p \in Endpoints /\ pc'[p] = pc[p] /\ data'[p] = data[p] /\ maps'[p] = maps[p]
      /\ connected'[p] = connected[p] /\ buffer'[p] = buffer[p]
      /\ partner' = partner /\ peer' = peer
  BY Parameters DEF Moves
<1>2. Knows(p) /\ partner[p] \in Endpoints \cup {None}
  BY <1>1 DEF PInv, PartnerKnown, IInv, TypeOK
<1>3. partner[p] # None => Gave(partner[p], data[p])'
  BY <1>1, <1>2 DEF Moves, Knows
<1> QED
  BY <1>1, <1>2, <1>3 DEF Knows

\* What is given away stays when no buffer moves.
LEMMA GaveStays ==
  ASSUME UNCHANGED <<reserved, buffer>>,
         \A f \in Endpoints : pc[f] \in Done => pc'[f] \in Done
  PROVE  \A f \in Endpoints : \A b : Gave(f, b) => Gave(f, b)'
BY DEF Gave

\* dpa_connect takes an interrupt nobody holds, at which nothing waits.
LEMMA ConnectKeeps ==
  ASSUME PInv, NEW a \in Actives, Connect(a)
  PROVE  Moves(a) /\ AnswerIsOwn' /\ PartnerKnown'
<1>1. /\ pc[a] = "idle" /\ holder[Home[a]] = None /\ a \in Endpoints /\ Home[a] \in Nodes
      /\ pc' = [pc EXCEPT ![a] = "request"] /\ holder' = [holder EXCEPT ![Home[a]] = a]
      /\ answers' = [answers EXCEPT ![Home[a]] = <<>>]
      /\ UNCHANGED <<requests, connreq, poolVars, linkVars, peer, data, partner>>
      /\ pc \in [Endpoints -> Stages] /\ holder \in [Nodes -> Endpoints \cup {None}]
      /\ answers \in [Nodes -> Seq(Answers)] /\ a \notin Passives
  BY Parameters, SidesAssumption
     DEF Connect, CreateInterrupt, InterruptFree, Goto, PInv, IInv, TypeOK
<1>2. answers' = answers
  BY <1>1, NoAnswerUnawaited
<1>3. \A f \in Endpoints : \A b : Gave(f, b) => Gave(f, b)'
  BY <1>1, GaveStays DEF Done, poolVars
<1>4. Moves(a)
  BY <1>1, <1>2, <1>3 DEF Moves, Serving, Silent, Talking
<1>5. PartnerKnown'
  BY <1>1, <1>4, OthersKnow DEF poolVars, linkVars
<1> QED
  BY <1>1, <1>4, <1>5 DEF PInv, AnswerIsOwn, poolVars

\* So does dpa_accept.
LEMMA AcceptKeeps ==
  ASSUME PInv, NEW p \in Passives, Accept(p)
  PROVE  Moves(p) /\ AnswerIsOwn' /\ PartnerKnown'
<1>1. /\ pc[p] = "accept" /\ holder[Home[p]] = None /\ p \in Endpoints /\ Home[p] \in Nodes
      /\ pc' = [pc EXCEPT ![p] = "alloc"] /\ holder' = [holder EXCEPT ![Home[p]] = p]
      /\ answers' = [answers EXCEPT ![Home[p]] = <<>>]
      /\ UNCHANGED <<requests, connreq, poolVars, linkVars, peer, data, partner>>
      /\ pc \in [Endpoints -> Stages] /\ holder \in [Nodes -> Endpoints \cup {None}]
      /\ answers \in [Nodes -> Seq(Answers)] /\ p \notin Actives
  BY Parameters, SidesAssumption
     DEF Accept, CreateInterrupt, InterruptFree, Goto, PInv, IInv, TypeOK
<1>2. answers' = answers
  BY <1>1, NoAnswerUnawaited
<1>3. \A f \in Endpoints : \A b : Gave(f, b) => Gave(f, b)'
  BY <1>1, GaveStays DEF Done, poolVars
<1>4. Moves(p)
  BY <1>1, <1>2, <1>3 DEF Moves, Serving, Silent, Talking
<1>5. Knows(p)'
  <2>1. Knows(p)
    BY DEF PInv, PartnerKnown
  <2> QED BY <1>1, <2>1 DEF Knows, Done, linkVars
<1>6. PartnerKnown'
  BY <1>1, <1>4, <1>5, OthersKnow DEF poolVars, linkVars
<1> QED
  BY <1>1, <1>4, <1>6 DEF PInv, AnswerIsOwn, poolVars

\* Looking for an empty buffer changes no talk.
LEMMA ChooseKeeps ==
  ASSUME PInv, NEW e \in Endpoints, ChooseBuffer(e)
  PROVE  Moves(e) /\ AnswerIsOwn' /\ PartnerKnown'
<1>1. /\ pc[e] = "alloc" /\ pc' = [pc EXCEPT ![e] = "reserve"]
      /\ UNCHANGED <<mailVars, reserved, buffer, linkVars, peer, data, partner>>
      /\ pc \in [Endpoints -> Stages]
  BY DEF ChooseBuffer, Goto, PInv, IInv, TypeOK
<1>2. \A f \in Endpoints : \A b : Gave(f, b) => Gave(f, b)'
  BY <1>1, GaveStays DEF Done
<1>3. Moves(e)
  BY <1>1, <1>2 DEF Moves, Serving, Silent, Talking, mailVars
<1>4. e \in Passives => Knows(e)'
  <2>1. e \in Passives => Knows(e)
    BY DEF PInv, PartnerKnown
  <2> QED BY <1>1, <2>1 DEF Knows, Done, linkVars
<1>5. PartnerKnown'
  BY <1>1, <1>3, <1>4, OthersKnow DEF linkVars
<1> QED
  BY <1>1, <1>3, <1>5 DEF PInv, AnswerIsOwn

\* Reserving a free buffer takes none that another endpoint gave away.
LEMMA ReserveKeeps ==
  ASSUME PInv, NEW e \in Endpoints, ReserveBuffer(e)
  PROVE  Moves(e) /\ AnswerIsOwn' /\ PartnerKnown'
<1>1. /\ pc[e] = "reserve" /\ pc' = [pc EXCEPT ![e] = "answer"]
      /\ reserved' = [reserved EXCEPT ![Home[e]] = reserved[Home[e]] \cup {chosen[e]}]
      /\ buffer' = [buffer EXCEPT ![e] = chosen[e]] /\ data' = [data EXCEPT ![e] = chosen[e]]
      /\ UNCHANGED <<mailVars, linkVars, peer, partner>>
      /\ pc \in [Endpoints -> Stages]
      /\ buffer \in [Endpoints -> Buffers \cup {0}] /\ data \in [Endpoints -> Buffers \cup {0}]
      /\ reserved \in [Nodes -> SUBSET Buffers] /\ Home[e] \in Nodes
      /\ chosen[e] \in Buffers /\ chosen[e] \notin reserved[Home[e]] /\ chosen[e] # 0
  BY Parameters DEF ReserveBuffer, Goto, PInv, IInv, TypeOK, ChosenIsFree
<1>2. ASSUME NEW f \in Endpoints, NEW b, Gave(f, b) PROVE Gave(f, b)'
  <2>1. f # e
    BY <1>1, <1>2 DEF Gave, Done
  <2>2. Home[f] \in Nodes /\ b \in reserved[Home[f]] /\ b \in reserved'[Home[f]]
    BY <1>1, <1>2, Parameters DEF Gave
  <2>3. \A g \in Endpoints : g # f /\ Home[g] = Home[f] => buffer'[g] # b
    BY <1>1, <1>2, <2>2 DEF Gave
  <2> QED BY <1>1, <1>2, <2>1, <2>2, <2>3 DEF Gave
<1>3. Moves(e)
  BY <1>1, <1>2 DEF Moves, Serving, Silent, Talking, mailVars
<1>4. e \in Passives => Knows(e)'
  <2>1. e \in Passives => Knows(e)
    BY DEF PInv, PartnerKnown
  <2> QED BY <1>1, <2>1 DEF Knows, Done, linkVars
<1>5. PartnerKnown'
  BY <1>1, <1>3, <1>4, OthersKnow DEF linkVars
<1> QED
  BY <1>1, <1>3, <1>5 DEF PInv, AnswerIsOwn

\* Removing the interrupt loses no answer: none is there that was not taken.
LEMMA RemoveKeeps ==
  ASSUME PInv, NEW e \in Endpoints, RemoveInterrupt(e)
  PROVE  Moves(e) /\ AnswerIsOwn' /\ PartnerKnown'
<1>1. /\ pc[e] = "remove" /\ pc' = [pc EXCEPT ![e] = "map"] /\ Home[e] \in Nodes
      /\ holder' = [holder EXCEPT ![Home[e]] = None] /\ holder[Home[e]] = e
      /\ answers' = [answers EXCEPT ![Home[e]] = <<>>]
      /\ UNCHANGED <<requests, connreq, poolVars, linkVars, peer, data, partner>>
      /\ pc \in [Endpoints -> Stages] /\ holder \in [Nodes -> Endpoints \cup {None}]
      /\ answers \in [Nodes -> Seq(Answers)]
  BY Parameters
     DEF RemoveInterrupt, FreedByRemove, Goto, PInv, IInv, TypeOK, HoldsInterrupt, Handshaking
<1>2. answers' = answers
  BY <1>1, NoAnswerUnawaited
<1>3. \A f \in Endpoints : \A b : Gave(f, b) => Gave(f, b)'
  BY <1>1, GaveStays DEF Done, poolVars
<1>4. Moves(e)
  BY <1>1, <1>2, <1>3 DEF Moves, Serving, Silent, Talking
<1>5. e \in Passives => Knows(e)'
  <2>1. e \in Passives => Knows(e)
    BY DEF PInv, PartnerKnown
  <2>2. partner[e] \in Endpoints \cup {None}
    BY DEF PInv, IInv, TypeOK
  <2> QED BY <1>1, <1>3, <2>1, <2>2 DEF Knows, Done, linkVars
<1>6. PartnerKnown'
  BY <1>1, <1>4, <1>5, OthersKnow DEF poolVars, linkVars
<1> QED
  BY <1>1, <1>4, <1>6 DEF PInv, AnswerIsOwn, poolVars

\* connect_msg maps the buffer the partner gave.
LEMMA ConnectMsgKeeps ==
  ASSUME PInv, NEW e \in Endpoints, ConnectMsg(e)
  PROVE  Moves(e) /\ AnswerIsOwn' /\ PartnerKnown'
<1>1. /\ pc[e] = "map" /\ pc' = [pc EXCEPT ![e] = "ready"]
      /\ maps' = [maps EXCEPT ![e] = [node |-> peer[e], buffer |-> data[e]]]
      /\ connected' = [connected EXCEPT ![e] = TRUE]
      /\ UNCHANGED <<mailVars, poolVars, peer, data, partner>>
      /\ pc \in [Endpoints -> Stages]
      /\ DOMAIN maps = Endpoints /\ DOMAIN connected = Endpoints
  BY DEF ConnectMsg, Goto, PInv, IInv, TypeOK
<1>2. \A f \in Endpoints : \A b : Gave(f, b) => Gave(f, b)'
  BY <1>1, GaveStays DEF Done, poolVars
<1>3. Moves(e)
  BY <1>1, <1>2 DEF Moves, Serving, Silent, Talking, mailVars
<1>4. e \in Passives => Knows(e)'
  <2>1. e \in Passives => Knows(e)
    BY DEF PInv, PartnerKnown
  <2>2. partner[e] \in Endpoints \cup {None}
    BY DEF PInv, IInv, TypeOK
  <2>3. maps'[e] = [node |-> peer[e], buffer |-> data[e]]
    BY <1>1
  <2> QED BY <1>1, <1>2, <2>1, <2>2, <2>3 DEF Knows, Done
<1>5. \A f \in Endpoints : f # e => maps'[f] = maps[f] /\ connected'[f] = connected[f]
  BY <1>1
<1>6. PartnerKnown'
  BY <1>1, <1>3, <1>4, <1>5, OthersKnow DEF poolVars
<1> QED
  BY <1>1, <1>3, <1>6 DEF PInv, AnswerIsOwn, poolVars

\* A disconnection takes nothing from the partner.
LEMMA DisconnectKeeps ==
  ASSUME PInv, NEW e \in Endpoints, Disconnect(e)
  PROVE  Moves(e) /\ AnswerIsOwn' /\ PartnerKnown'
<1>1. /\ pc' = pc
      /\ maps' = [maps EXCEPT ![e] = NoMap]
      /\ connected' = [connected EXCEPT ![e] = FALSE]
      /\ UNCHANGED <<mailVars, poolVars, peer, data, partner>>
      /\ pc \in [Endpoints -> Stages]
      /\ DOMAIN maps = Endpoints /\ DOMAIN connected = Endpoints
  BY DEF Disconnect, PInv, IInv, TypeOK
<1>2. \A f \in Endpoints : \A b : Gave(f, b) => Gave(f, b)'
  BY <1>1, GaveStays DEF Done, poolVars
<1>3. Moves(e)
  BY <1>1, <1>2 DEF Moves, Serving, Silent, Talking, mailVars
<1>4. e \in Passives => Knows(e)'
  <2>1. e \in Passives => Knows(e)
    BY DEF PInv, PartnerKnown
  <2>2. partner[e] \in Endpoints \cup {None}
    BY DEF PInv, IInv, TypeOK
  <2> QED BY <1>1, <1>2, <2>1, <2>2 DEF Knows, Done, poolVars
<1>5. \A f \in Endpoints : f # e => maps'[f] = maps[f] /\ connected'[f] = connected[f]
  BY <1>1
<1>6. PartnerKnown'
  BY <1>1, <1>3, <1>4, <1>5, OthersKnow DEF poolVars
<1> QED
  BY <1>1, <1>3, <1>6 DEF PInv, AnswerIsOwn, poolVars

\* Nor does a close: the buffer stays out of the pool.
LEMMA CloseKeeps ==
  ASSUME PInv, NEW e \in Endpoints, Close(e)
  PROVE  Moves(e) /\ AnswerIsOwn' /\ PartnerKnown'
<1>1. /\ pc[e] \in {"idle", "accept", "await", "ready"}
      /\ pc' = [pc EXCEPT ![e] = IF pc[e] \in {"accept", "await"} THEN "gone" ELSE "freed"]
      /\ buffer' = [buffer EXCEPT ![e] = 0] /\ reserved' = reserved
      /\ connected' = [connected EXCEPT ![e] = FALSE] /\ DOMAIN connected = Endpoints
      /\ UNCHANGED <<mailVars, maps, peer, data, partner>>
      /\ pc \in [Endpoints -> Stages] /\ buffer \in [Endpoints -> Buffers \cup {0}]
      /\ reserved \in [Nodes -> SUBSET Buffers]
  BY DEF Close, PoolAfterClose, Goto, PInv, IInv, TypeOK
<1>2. ASSUME NEW f \in Endpoints, NEW b, Gave(f, b) PROVE Gave(f, b)'
  <2>1. b # 0
    BY <1>1, <1>2, Parameters DEF Gave
  <2>2. \A g \in Endpoints : buffer'[g] \in {0, buffer[g]}
    BY <1>1
  <2>3. pc'[f] \in Done
    BY <1>1, <1>2 DEF Gave, Done
  <2> QED BY <1>1, <1>2, <2>1, <2>2, <2>3 DEF Gave
<1>3. Moves(e)
  BY <1>1, <1>2 DEF Moves, Serving, Silent, Talking, mailVars
<1>4. e \in Passives => Knows(e)'
  <2>1. e \in Passives => Knows(e)
    BY DEF PInv, PartnerKnown
  <2>2. partner[e] \in Endpoints \cup {None}
    BY DEF PInv, IInv, TypeOK
  <2> QED BY <1>1, <1>2, <2>1, <2>2 DEF Knows, Done, linkVars
<1>5. PartnerKnown'
  BY <1>1, <1>3, <1>4, OthersKnow DEF linkVars
<1> QED
  BY <1>1, <1>3, <1>5 DEF PInv, AnswerIsOwn

\* A library call that fails changes where the endpoint goes on, and no more.
LEMMA FailureKeeps ==
  ASSUME PInv, NEW e \in Endpoints, FailureNext(e)
  PROVE  Moves(e) /\ AnswerIsOwn' /\ PartnerKnown'
<1> DEFINE Step(from, to) ==
      /\ pc[e] \in from /\ pc' = [pc EXCEPT ![e] = pc'[e]] /\ pc'[e] \in to
      /\ UNCHANGED <<mailVars, poolVars, linkVars, peer, data, partner>>
<1>1. /\ pc \in [Endpoints -> Stages] /\ (e \in Actives \/ e \in Passives)
      /\ ~(e \in Actives /\ e \in Passives)
  BY SidesAssumption DEF PInv, IInv, TypeOK, Endpoints
<1>2. \/ e \in Actives /\ Step({"request"}, {"idle", "await"})
      \/ e \in Actives /\ Step({"alloc", "reserve"}, {"remove"})
      \/ e \in Passives /\ Step({"alloc", "reserve"}, {"accept"})
      \/ e \in Actives /\ Step({"answer"}, {"remove"})
      \/ e \in Passives /\ Step({"answer"}, {"accept", "await"})
      \/ Step({"map"}, {"ready"})
  <2>1. CASE e \in Actives /\ RequestFails(e)
    BY <1>1, <2>1 DEF RequestFails, Fails, Goto, FailureNext
  <2>2. CASE AllocFails(e)
    BY <1>1, <2>2 DEF AllocFails, Fails, Goto, Resumed
  <2>3. CASE AnswerFails(e)
    BY <1>1, <2>3 DEF AnswerFails, Fails, Goto, Resumed, Answered
  <2>4. CASE ConnectMsgFails(e)
    BY <1>1, <2>4 DEF ConnectMsgFails, Fails, Goto
  <2> QED BY <2>1, <2>2, <2>3, <2>4 DEF FailureNext
<1>3. /\ \A f \in Endpoints : f # e => pc'[f] = pc[f]
      /\ UNCHANGED <<mailVars, poolVars, linkVars, peer, data, partner>>
  BY <1>1, <1>2
<1>4. \A f \in Endpoints : \A b : Gave(f, b) => Gave(f, b)'
  <2>1. \A f \in Endpoints : pc[f] \in Done => pc'[f] \in Done
    BY <1>1, <1>2, <1>3 DEF Done
  <2> QED BY <1>3, <2>1, GaveStays DEF poolVars
<1>5. Moves(e)
  <2>1. pc[e] \notin {"await", "gone"}
    BY <1>2
  <2>2. (Serving(e)' => Serving(e)) /\ (Silent(e)' => Silent(e))
    BY <1>1, <1>2 DEF Serving, Silent
  <2>3. e \in Actives /\ pc'[e] \in Talking => pc[e] \in Talking
    BY <1>1, <1>2 DEF Talking
  <2> QED BY <1>3, <1>4, <2>1, <2>2, <2>3 DEF Moves, mailVars
<1>6. e \in Passives => Knows(e)'
  <2>1. e \in Passives => Knows(e)
    BY DEF PInv, PartnerKnown
  <2>2. partner[e] \in Endpoints \cup {None}
    BY DEF PInv, IInv, TypeOK
  <2>3. pc[e] = "answer" => buffer[e] # 0
    BY DEF PInv, AnswerIsOwn
  <2> QED BY <1>1, <1>2, <1>3, <1>4, <2>1, <2>2, <2>3 DEF Knows, Done, linkVars, poolVars
<1>7. PartnerKnown'
  BY <1>3, <1>5, <1>6, OthersKnow DEF poolVars, linkVars
<1>8. AnswerIsOwn'
  BY <1>1, <1>2, <1>3 DEF PInv, AnswerIsOwn, poolVars
<1> QED
  BY <1>5, <1>7, <1>8

-----------------------------------------------------------------------------
\* A step that moves requests only, along their way, changes nothing else of
\* what is known of the partners.
LEMMA RequestsMove ==
  ASSUME PInv, UNCHANGED <<holder, answers, poolVars, linkVars, pc, peer, data, partner>>
  PROVE  /\ AnswersMeant' /\ Talks' /\ NotYetPartner' /\ PartnerOnce' /\ PartnersAgree'
         /\ TargetKnown' /\ AnswerIsOwn' /\ PartnerKnown'
<1>1. AnswersMeant'
  BY DEF PInv, AnswersMeant, HasAnswer, Answerer, FromPassive, FromActive, Open, Untaken, Gave,
     poolVars
<1>2. Talks' /\ NotYetPartner'
  BY DEF PInv, Talks, NotYetPartner, Silent, Open, Untaken
<1>3. PartnerOnce' /\ PartnersAgree' /\ TargetKnown' /\ AnswerIsOwn'
  BY DEF PInv, PartnerOnce, PartnersAgree, TargetKnown, AnswerIsOwn, poolVars
<1>4. PartnerKnown'
  BY DEF PInv, PartnerKnown, Knows, Gave, poolVars, linkVars
<1> QED
  BY <1>1, <1>2, <1>3, <1>4

\* The mail of every node, in its order, is what it was.
SameMail ==
  \A m \in Nodes :
    MailLen(m)' = MailLen(m) /\ \A i \in 1 .. MailLen(m) : MailAt(m, i)' = MailAt(m, i)

\* The same when not even a request moves.
LEMMA NothingMoves ==
  ASSUME PInv, IInv', SameMail,
         UNCHANGED <<holder, answers, poolVars, linkVars, pc, peer, data, partner>>
  PROVE  PInv'
<1>1. /\ \A n, m : Waiting(n, m)' = Waiting(n, m)
      /\ \A p : Serving(p)' = Serving(p)
      /\ \A n : IsAnswered(n)' = IsAnswered(n) /\ Answerer(n)' = Answerer(n)
  BY DEF Waiting, Serving, IsAnswered, HasAnswer, Answerer
<1>2. RequestersWait'
  BY <1>1 DEF PInv, RequestersWait, SameMail
<1>3. RequestsOnce'
  BY <1>1 DEF PInv, RequestsOnce, SameMail
<1> QED
  BY <1>2, <1>3, RequestsMove DEF PInv

\* Listening, and a step of nobody, leave the partners as they are.
LEMMA StillKeeps ==
  ASSUME PInv, IInv', UNCHANGED <<mailVars, poolVars, linkVars, pc, peer, data, partner>>
  PROVE  PInv'
<1>1. SameMail
  BY DEF SameMail, MailLen, MailAt, mailVars
<1> QED
  BY <1>1, NothingMoves DEF mailVars

\* The progress of the passive event queue moves a request within the mail of
\* its node, and keeps its place.
LEMMA ProgressPepKeeps ==
  ASSUME PInv, IInv', NEW n \in Nodes, ProgressPep(n)
  PROVE  PInv'
<1>1. /\ requests[n] # <<>> /\ requests \in [Nodes -> Seq(Nodes)]
      /\ connreq \in [Nodes -> Seq(Nodes)]
      /\ connreq' = [connreq EXCEPT ![n] = Append(connreq[n], Head(requests[n]))]
      /\ requests' = [requests EXCEPT ![n] = Tail(requests[n])]
      /\ UNCHANGED <<holder, answers, poolVars, linkVars, pc, peer, data, partner>>
  BY DEF ProgressPep, PInv, IInv, TypeOK
<1>2. ASSUME NEW m \in Nodes, m # n
      PROVE  MailLen(m)' = MailLen(m) /\ \A i : MailAt(m, i)' = MailAt(m, i)
  <2>1. connreq'[m] = connreq[m] /\ requests'[m] = requests[m]
    BY <1>1, <1>2
  <2> QED BY <2>1 DEF MailLen, MailAt
<1>3. MailLen(n)' = MailLen(n) /\ \A i \in 1 .. MailLen(n) : MailAt(n, i)' = MailAt(n, i)
  <2>1. PICK c, r, h : c = connreq[n] /\ r = requests[n] /\ h = Head(r)
    OBVIOUS
  <2>2. /\ c \in Seq(Nodes) /\ r \in Seq(Nodes) /\ r # <<>> /\ h = r[1] /\ h \in Nodes
        /\ connreq'[n] = Append(c, h) /\ requests'[n] = Tail(r)
    BY <1>1, <2>1
  <2>3. /\ Len(Append(c, h)) = Len(c) + 1 /\ Len(Tail(r)) = Len(r) - 1 /\ Len(r) >= 1
        /\ Len(c) \in Nat /\ Len(r) \in Nat
    BY <2>2
  <2>4. \A i \in 1 .. Len(c) : Append(c, h)[i] = c[i]
    BY <2>2
  <2>5. Append(c, h)[Len(c) + 1] = r[1]
    BY <2>2
  <2>6. \A i \in 1 .. Len(r) - 1 : Tail(r)[i] = r[i + 1]
    BY <2>2, <2>3
  <2>7. MailLen(n)' = MailLen(n) /\ MailLen(n) = Len(c) + Len(r)
    <3>1. MailLen(n) = Len(c) + Len(r)
      BY <2>1 DEF MailLen
    <3>2. MailLen(n)' = Len(Append(c, h)) + Len(Tail(r))
      BY <2>2 DEF MailLen
    <3>3. PICK x, y : x = Len(c) /\ y = Len(r)
      OBVIOUS
    <3>4. x \in Nat /\ y \in Nat /\ MailLen(n)' = (x + 1) + (y - 1) /\ MailLen(n) = x + y
      BY <2>3, <3>1, <3>2, <3>3
    <3> QED BY <3>3, <3>4
  <2>8. ASSUME NEW i \in 1 .. MailLen(n) PROVE MailAt(n, i)' = MailAt(n, i)
    <3>1. i \in Nat /\ i >= 1 /\ i <= Len(c) + Len(r)
      BY <2>3, <2>7
    <3>2. CASE i <= Len(c)
      <4>1. MailAt(n, i) = c[i]
        BY <2>1, <3>2 DEF MailAt
      <4>2. MailAt(n, i)' = Append(c, h)[i]
        BY <2>2, <2>3, <3>1, <3>2 DEF MailAt
      <4> QED BY <2>3, <2>4, <3>1, <3>2, <4>1, <4>2
    <3>3. CASE i = Len(c) + 1
      <4>1. MailAt(n, i) = r[1]
        BY <2>1, <2>3, <3>3 DEF MailAt
      <4>2. MailAt(n, i)' = Append(c, h)[i]
        BY <2>2, <2>3, <3>3 DEF MailAt
      <4> QED BY <2>5, <3>3, <4>1, <4>2
    <3>4. CASE i > Len(c) + 1
      <4>1. MailAt(n, i) = r[i - Len(c)]
        BY <2>1, <2>3, <3>1, <3>4 DEF MailAt
      <4>2. MailAt(n, i)' = Tail(r)[i - (Len(c) + 1)]
        BY <2>2, <2>3, <3>1, <3>4 DEF MailAt
      <4>3. /\ i - (Len(c) + 1) \in 1 .. Len(r) - 1
            /\ (i - (Len(c) + 1)) + 1 = i - Len(c)
        BY <2>3, <3>1, <3>4
      <4> QED BY <2>6, <4>1, <4>2, <4>3
    <3> QED BY <2>3, <3>1, <3>2, <3>3, <3>4
  <2> QED BY <2>7, <2>8
<1>4. SameMail
  BY <1>2, <1>3 DEF SameMail
<1> QED
  BY <1>1, <1>4, NothingMoves

\* A step that leaves the interrupts and their answers alone, and whose one
\* endpoint neither waits nor has answered, keeps what was given and answered.
LEMMA AnswersStay ==
  ASSUME PInv, NEW e \in Endpoints, pc[e] \notin Done \cup {"await", "gone"}, pc'[e] \notin Done,
         UNCHANGED <<holder, answers, poolVars, partner>>,
         \A f \in Endpoints : f # e => pc'[f] = pc[f] /\ peer'[f] = peer[f],
         e \in Actives => peer'[e] = peer[e],
         Silent(e)' => Silent(e),
         e \in Actives => (pc'[e] \in Talking => pc[e] \in Talking)
  PROVE  /\ AnswersMeant' /\ Talks' /\ NotYetPartner' /\ PartnerOnce' /\ PartnersAgree'
         /\ TargetKnown' /\ \A f \in Endpoints : \A b : Gave(f, b) => Gave(f, b)'
<1>1. \A f \in Endpoints : \A b : Gave(f, b) => Gave(f, b)'
  BY DEF Gave, poolVars
<1>2. \A f \in Endpoints : Open(f) => f # e /\ Open(f)' /\ peer'[f] = peer[f]
  BY DEF Open
<1>3. \A f : Untaken(f)' = Untaken(f)
  BY DEF Untaken
<1>4. ASSUME NEW m \in Nodes, HasAnswer(m)
      PROVE  \/ FromPassive(m, Answerer(m))'
             \/ FromActive(m, Answerer(m), answers[m][1].buffer)'
  <2>1. Answerer(m)' = Answerer(m) /\ HasAnswer(m)' = HasAnswer(m)
    BY DEF Answerer, HasAnswer
  <2>2. CASE FromPassive(m, Answerer(m))
    BY <1>2, <1>3, <2>1, <2>2, Parameters DEF FromPassive
  <2>3. CASE FromActive(m, Answerer(m), answers[m][1].buffer)
    BY <1>1, <1>2, <1>3, <2>1, <2>3, Parameters DEF FromActive, Open
  <2> QED BY <1>4, <2>2, <2>3 DEF PInv, AnswersMeant
<1>5. AnswersMeant'
  BY <1>4 DEF PInv, AnswersMeant, HasAnswer, Answerer
<1>6. Talks'
  <2> SUFFICES ASSUME NEW a \in Actives, pc'[a] \in Talking
               PROVE  /\ Open(partner[a])' /\ Home[partner[a]] = Target[a]
                      /\ peer'[partner[a]] = Home[a]
    BY DEF Talks
  <2>1. pc[a] \in Talking
    BY Parameters
  <2>2. Open(partner[a]) /\ Home[partner[a]] = Target[a] /\ peer[partner[a]] = Home[a]
    BY <2>1 DEF PInv, Talks
  <2> QED BY <1>2, <2>2, Parameters DEF Open
<1>7. NotYetPartner'
  <2>1. \A f \in Endpoints : Silent(f)' => Silent(f)
    BY DEF Silent
  <2> QED BY <1>3, <2>1 DEF PInv, NotYetPartner
<1>8. PartnerOnce' /\ PartnersAgree' /\ TargetKnown'
  BY Parameters DEF PInv, PartnerOnce, PartnersAgree, TargetKnown
<1> QED
  BY <1>1, <1>5, <1>6, <1>7, <1>8

\* An application that opens an endpoint for a request takes the first one of
\* the mail of its node, and nobody else serves it.
LEMMA OpenPassiveKeeps ==
  ASSUME PInv, IInv', NEW p \in Passives, OpenPassive(p)
  PROVE  PInv'
<1>1. PICK n : n = Home[p]
  OBVIOUS
<1>2. /\ pc[p] = "closed" /\ p \in Endpoints /\ n \in Nodes /\ p \notin Actives
      /\ requests \in [Nodes -> Seq(Nodes)] /\ connreq \in [Nodes -> Seq(Nodes)]
      /\ connreq[n] # <<>> /\ connreq' = [connreq EXCEPT ![n] = Tail(connreq[n])]
      /\ peer' = [peer EXCEPT ![p] = Head(connreq[n])] /\ peer \in [Endpoints -> Nodes \cup {None}]
      /\ pc' = [pc EXCEPT ![p] = "accept"] /\ pc \in [Endpoints -> Stages]
      /\ UNCHANGED <<requests, holder, answers, poolVars, linkVars, data, partner>>
  BY <1>1, Parameters, SidesAssumption DEF OpenPassive, Goto, PInv, IInv, TypeOK
<1>3. /\ AnswersMeant' /\ Talks' /\ NotYetPartner' /\ PartnerOnce' /\ PartnersAgree'
      /\ TargetKnown' /\ \A f \in Endpoints : \A b : Gave(f, b) => Gave(f, b)'
  BY <1>2, AnswersStay DEF Done, Silent, poolVars
<1>4. AnswerIsOwn'
  BY <1>2 DEF PInv, AnswerIsOwn, poolVars
<1>5. PartnerKnown'
  <2> SUFFICES ASSUME NEW q \in Passives PROVE Knows(q)'
    BY DEF PartnerKnown
  <2>1. q \in Endpoints /\ Knows(q) /\ partner[q] \in Endpoints \cup {None}
    BY Parameters DEF PInv, PartnerKnown, IInv, TypeOK
  <2>2. CASE q = p
    BY <1>2, <2>1, <2>2 DEF Knows, Done, linkVars, poolVars
  <2>3. CASE q # p
    BY <1>2, <1>3, <2>1, <2>3 DEF Knows, linkVars, poolVars
  <2> QED BY <2>2, <2>3
<1>6. ASSUME NEW m \in Nodes, m # n
      PROVE  MailLen(m)' = MailLen(m) /\ \A i : MailAt(m, i)' = MailAt(m, i)
  <2>1. connreq'[m] = connreq[m] /\ requests'[m] = requests[m]
    BY <1>2, <1>6
  <2> QED BY <2>1 DEF MailLen, MailAt
<1>7. /\ MailLen(n)' = MailLen(n) - 1 /\ MailLen(n) \in Nat /\ MailLen(n) >= 1
      /\ MailAt(n, 1) = peer'[p]
      /\ \A i \in 1 .. MailLen(n)' : MailAt(n, i)' = MailAt(n, i + 1)
  <2>1. PICK c, r : c = connreq[n] /\ r = requests[n]
    OBVIOUS
  <2>2. /\ c \in Seq(Nodes) /\ r \in Seq(Nodes) /\ c # <<>> /\ peer'[p] = c[1]
        /\ connreq'[n] = Tail(c) /\ requests'[n] = r
    BY <1>2, <2>1
  <2>3. Len(Tail(c)) = Len(c) - 1 /\ Len(c) >= 1 /\ Len(c) \in Nat /\ Len(r) \in Nat
    BY <2>2
  <2>4. \A i \in 1 .. Len(c) - 1 : Tail(c)[i] = c[i + 1]
    BY <2>2, <2>3
  <2>5. MailLen(n) = Len(c) + Len(r)
    BY <2>1 DEF MailLen
  <2>6. MailLen(n)' = Len(Tail(c)) + Len(r)
    BY <2>2 DEF MailLen
  <2>7. MailAt(n, 1) = c[1]
    BY <2>1, <2>3 DEF MailAt
  <2>8. ASSUME NEW i \in 1 .. MailLen(n)' PROVE MailAt(n, i)' = MailAt(n, i + 1)
    <3>1. i \in Nat /\ i >= 1
      BY <2>3, <2>6
    <3>2. MailAt(n, i)' = IF i <= Len(c) - 1 THEN Tail(c)[i] ELSE r[i - (Len(c) - 1)]
      BY <2>2, <2>3 DEF MailAt
    <3>3. MailAt(n, i + 1) = IF i + 1 <= Len(c) THEN c[i + 1] ELSE r[i + 1 - Len(c)]
      BY <2>1 DEF MailAt
    <3>4. CASE i <= Len(c) - 1
      <4>1. i \in 1 .. Len(c) - 1 /\ i + 1 <= Len(c)
        BY <2>3, <3>1, <3>4
      <4> QED BY <2>4, <3>2, <3>3, <3>4, <4>1
    <3>5. CASE ~(i <= Len(c) - 1)
      <4>1. ~(i + 1 <= Len(c)) /\ i + 1 - Len(c) = i - (Len(c) - 1)
        BY <2>3, <3>1, <3>5
      <4> QED BY <3>2, <3>3, <3>5, <4>1
    <3> QED BY <3>4, <3>5
  <2>9. /\ MailLen(n)' = MailLen(n) - 1 /\ MailLen(n) \in Nat /\ MailLen(n) >= 1
    BY <2>3, <2>5, <2>6
  <2> QED BY <2>2, <2>7, <2>8, <2>9
<1>8. ASSUME NEW m \in Nodes, NEW i \in 1 .. MailLen(m)'
      PROVE  \E j \in 1 .. MailLen(m) :
               MailAt(m, i)' = MailAt(m, j) /\ (IF m = n THEN j = i + 1 ELSE j = i)
  <2>1. CASE m = n
    <3>1. i + 1 \in 1 .. MailLen(n)
      BY <1>7, <2>1
    <3> QED BY <1>7, <2>1, <3>1
  <2>2. CASE m # n
    BY <1>6, <2>2
  <2> QED BY <2>1, <2>2
<1>9. 1 \in 1 .. MailLen(n)
  BY <1>7
<1>10. \A k, m : Waiting(k, m) => Waiting(k, m)'
  BY <1>2, Parameters DEF Waiting
<1>11. /\ \A q \in Endpoints : q # p => (Serving(q)' = Serving(q)) /\ peer'[q] = peer[q]
       /\ \A k : IsAnswered(k)' = IsAnswered(k) /\ Answerer(k)' = Answerer(k)
       /\ ~Serving(p)
  BY <1>2 DEF Serving, IsAnswered, HasAnswer, Answerer
<1>12. RequestersWait'
  <2>1. ASSUME NEW m \in Nodes, NEW i \in 1 .. MailLen(m)' PROVE Waiting(MailAt(m, i), m)'
    <3>1. PICK j \in 1 .. MailLen(m) : MailAt(m, i)' = MailAt(m, j)
      BY <1>8
    <3>2. Waiting(MailAt(m, j), m)
      BY DEF PInv, RequestersWait
    <3> QED BY <1>10, <3>1, <3>2
  <2>2. ASSUME NEW q \in Endpoints, Serving(q)' PROVE Waiting(peer[q], Home[q])'
    BY <1>1, <1>2, <1>7, <1>9, <1>10, <1>11, <2>2 DEF PInv, RequestersWait
  <2>3. ASSUME NEW k \in Nodes, IsAnswered(k)' PROVE Waiting(k, Home[Answerer(k)])'
    BY <1>10, <1>11, <2>3 DEF PInv, RequestersWait
  <2> QED BY <2>1, <2>2, <2>3 DEF RequestersWait
<1>13. RequestsOnce'
  <2>1. ASSUME NEW m \in Nodes, NEW k \in Nodes,
               NEW i \in 1 .. MailLen(m)', NEW j \in 1 .. MailLen(k)',
               MailAt(m, i)' = MailAt(k, j)'
        PROVE  m = k /\ i = j
    <3>1. PICK u \in 1 .. MailLen(m) :
            MailAt(m, i)' = MailAt(m, u) /\ (IF m = n THEN u = i + 1 ELSE u = i)
      BY <1>8
    <3>2. PICK v \in 1 .. MailLen(k) :
            MailAt(k, j)' = MailAt(k, v) /\ (IF k = n THEN v = j + 1 ELSE v = j)
      BY <1>8
    <3>3. m = k /\ u = v
      <4>1. MailAt(m, u) = MailAt(k, v)
        BY <2>1, <3>1, <3>2
      <4> QED BY <4>1 DEF PInv, RequestsOnce
    <3> QED BY <3>1, <3>2, <3>3
  <2>2. ASSUME NEW q \in Endpoints, Serving(q)',
               NEW m \in Nodes, NEW i \in 1 .. MailLen(m)'
        PROVE  MailAt(m, i)' # peer'[q]
    <3>1. PICK u \in 1 .. MailLen(m) :
            MailAt(m, i)' = MailAt(m, u) /\ (IF m = n THEN u = i + 1 ELSE u = i)
      BY <1>8
    <3>2. CASE q = p
      <4>1. MailAt(m, u) = MailAt(n, 1) => m = n /\ u = 1
        BY <1>2, <1>9 DEF PInv, RequestsOnce
      <4>2. m = n => u # 1
        BY <1>7, <3>1
      <4> QED BY <1>7, <3>1, <3>2, <4>1, <4>2
    <3>3. CASE q # p
      BY <1>11, <2>2, <3>1, <3>3 DEF PInv, RequestsOnce
    <3> QED BY <3>2, <3>3
  <2>3. ASSUME NEW q \in Endpoints, NEW s \in Endpoints, Serving(q)', Serving(s)',
               peer'[q] = peer'[s]
        PROVE  q = s
    <3>1. \A f \in Endpoints : Serving(f) => peer[f] # peer'[p]
      BY <1>2, <1>7, <1>9 DEF PInv, RequestsOnce
    <3>2. CASE q = p \/ s = p
      BY <1>11, <2>3, <3>1, <3>2
    <3>3. CASE q # p /\ s # p
      BY <1>11, <2>3, <3>3 DEF PInv, RequestsOnce
    <3> QED BY <3>2, <3>3
  <2>4. ASSUME NEW k \in Nodes, IsAnswered(k)'
        PROVE  /\ \A m \in Nodes : \A i \in 1 .. MailLen(m)' : MailAt(m, i)' # k
               /\ \A q \in Endpoints : Serving(q)' => peer'[q] # k
    <3>1. /\ \A m \in Nodes : \A i \in 1 .. MailLen(m) : MailAt(m, i) # k
          /\ \A q \in Endpoints : Serving(q) => peer[q] # k
      BY <1>11, <2>4 DEF PInv, RequestsOnce
    <3>2. peer'[p] # k
      BY <1>2, <1>7, <1>9, <3>1
    <3> QED BY <1>8, <1>11, <3>1, <3>2
  <2> QED BY <2>1, <2>2, <2>3, <2>4 DEF RequestsOnce
<1> QED
  BY <1>3, <1>4, <1>5, <1>12, <1>13 DEF PInv

\* What an accepting endpoint knows stays while nothing of its own changes and
\* nothing that was given away is taken back.
LEMMA KnowsStays ==
  ASSUME PInv, NEW p \in Passives,
         \A f \in Endpoints : \A b : Gave(f, b) => Gave(f, b)',
         /\ pc'[p] = pc[p] /\ peer'[p] = peer[p] /\ data'[p] = data[p]
         /\ maps'[p] = maps[p] /\ connected'[p] = connected[p]
         /\ buffer'[p] = buffer[p] /\ partner'[p] = partner[p]
  PROVE  Knows(p)'
<1>1. Knows(p) /\ partner[p] \in Endpoints \cup {None}
  BY Parameters DEF PInv, PartnerKnown, IInv, TypeOK
<1> QED
  BY <1>1 DEF Knows

\* A request goes to the end of the mail of the node it is for, and there is no
\* other of the same node anywhere.
LEMMA SendRequestKeeps ==
  ASSUME PInv, IInv', NEW a \in Actives, SendRequest(a)
  PROVE  PInv'
<1>1. PICK n, h : n = peer[a] /\ h = Home[a]
  OBVIOUS
<1>2. /\ pc[a] = "request" /\ a \in Endpoints /\ h \in Nodes /\ n \in Nodes /\ a \notin Passives
      /\ Target[a] = n /\ holder[h] = a
      /\ requests \in [Nodes -> Seq(Nodes)] /\ connreq \in [Nodes -> Seq(Nodes)]
      /\ requests' = [requests EXCEPT ![n] = Append(requests[n], h)]
      /\ pc' = [pc EXCEPT ![a] = "await"] /\ pc \in [Endpoints -> Stages]
      /\ UNCHANGED <<connreq, holder, answers, poolVars, linkVars, peer, data, partner>>
  BY <1>1, Parameters, SidesAssumption
     DEF SendRequest, Goto, PInv, IInv, TypeOK, TargetKnown, HoldsInterrupt, Handshaking
<1>3. /\ AnswersMeant' /\ Talks' /\ NotYetPartner' /\ PartnerOnce' /\ PartnersAgree'
      /\ TargetKnown' /\ \A f \in Endpoints : \A b : Gave(f, b) => Gave(f, b)'
  BY <1>2, AnswersStay DEF Done, Silent, Talking, poolVars
<1>4. AnswerIsOwn'
  BY <1>2 DEF PInv, AnswerIsOwn, poolVars
<1>5. PartnerKnown'
  BY <1>2, <1>3, KnowsStays, Parameters DEF PartnerKnown, linkVars, poolVars
<1>6. /\ \A k, m : Waiting(k, m) => Waiting(k, m)'
      /\ \A m : ~Waiting(h, m)
      /\ Waiting(h, n)'
  BY <1>1, <1>2 DEF Waiting
<1>7. /\ \A q \in Endpoints : Serving(q)' = Serving(q) /\ peer'[q] = peer[q]
      /\ \A k : IsAnswered(k)' = IsAnswered(k) /\ Answerer(k)' = Answerer(k)
  BY <1>2 DEF Serving, IsAnswered, HasAnswer, Answerer
<1>8. \A m \in Nodes : MailLen(m) \in Nat
  BY <1>2 DEF MailLen
<1>9. ASSUME NEW m \in Nodes, NEW i \in 1 .. MailLen(m)'
      PROVE  \/ i \in 1 .. MailLen(m) /\ MailAt(m, i)' = MailAt(m, i)
             \/ m = n /\ i = MailLen(n) + 1 /\ MailAt(m, i)' = h
  <2>1. CASE m # n
    <3>1. connreq'[m] = connreq[m] /\ requests'[m] = requests[m]
      BY <1>2, <2>1
    <3> QED BY <3>1 DEF MailLen, MailAt
  <2>2. CASE m = n
    <3>1. PICK c, r : c = connreq[n] /\ r = requests[n]
      OBVIOUS
    <3>2. /\ c \in Seq(Nodes) /\ r \in Seq(Nodes)
          /\ connreq'[n] = c /\ requests'[n] = Append(r, h)
      BY <1>2, <3>1
    <3>3. PICK x, y : x = Len(c) /\ y = Len(r)
      OBVIOUS
    <3>4. x \in Nat /\ y \in Nat /\ Len(Append(r, h)) = y + 1
      BY <3>2, <3>3
    <3>5. MailLen(n) = x + y
      BY <3>1, <3>3 DEF MailLen
    <3>6. MailLen(n)' = x + (y + 1)
      BY <3>2, <3>3, <3>4 DEF MailLen
    <3>7. i \in Nat /\ i >= 1 /\ i <= x + (y + 1)
      BY <2>2, <3>4, <3>6
    <3>8. MailAt(n, i)' = IF i <= x THEN c[i] ELSE Append(r, h)[i - x]
      BY <3>2, <3>3 DEF MailAt
    <3>9. MailAt(n, i) = IF i <= x THEN c[i] ELSE r[i - x]
      BY <3>1, <3>3 DEF MailAt
    <3>10. CASE i <= x
      BY <2>2, <3>4, <3>5, <3>7, <3>8, <3>9, <3>10
    <3>11. CASE i > x /\ i <= x + y
      <4>1. i - x \in 1 .. y
        BY <3>4, <3>7, <3>11
      <4>2. Append(r, h)[i - x] = r[i - x]
        BY <3>2, <3>3, <4>1
      <4> QED BY <2>2, <3>4, <3>5, <3>7, <3>8, <3>9, <3>11, <4>2
    <3>12. CASE i > x + y
      <4>1. i - x = y + 1 /\ i = (x + y) + 1 /\ ~(i <= x)
        BY <3>4, <3>7, <3>12
      <4>2. Append(r, h)[y + 1] = h
        BY <3>2, <3>3
      <4> QED BY <2>2, <3>5, <3>8, <4>1, <4>2
    <3> QED BY <3>4, <3>7, <3>10, <3>11, <3>12
  <2> QED BY <2>1, <2>2
<1>10. /\ \A m \in Nodes : \A i \in 1 .. MailLen(m) : MailAt(m, i) # h
       /\ \A q \in Endpoints : Serving(q) => peer[q] # h
       /\ ~IsAnswered(h)
  BY <1>2, <1>6 DEF PInv, RequestersWait
<1>11. RequestersWait'
  <2>1. ASSUME NEW m \in Nodes, NEW i \in 1 .. MailLen(m)' PROVE Waiting(MailAt(m, i), m)'
    <3>1. CASE i \in 1 .. MailLen(m) /\ MailAt(m, i)' = MailAt(m, i)
      <4>1. Waiting(MailAt(m, i), m)
        BY <3>1 DEF PInv, RequestersWait
      <4> QED BY <1>6, <3>1, <4>1
    <3>2. CASE m = n /\ MailAt(m, i)' = h
      BY <1>6, <3>2
    <3> QED BY <1>9, <3>1, <3>2
  <2>2. ASSUME NEW q \in Endpoints, Serving(q)' PROVE Waiting(peer[q], Home[q])'
    BY <1>6, <1>7, <2>2 DEF PInv, RequestersWait
  <2>3. ASSUME NEW k \in Nodes, IsAnswered(k)' PROVE Waiting(k, Home[Answerer(k)])'
    BY <1>6, <1>7, <2>3 DEF PInv, RequestersWait
  <2> QED BY <2>1, <2>2, <2>3 DEF RequestersWait
<1>12. RequestsOnce'
  <2>1. ASSUME NEW m \in Nodes, NEW k \in Nodes,
               NEW i \in 1 .. MailLen(m)', NEW j \in 1 .. MailLen(k)',
               MailAt(m, i)' = MailAt(k, j)'
        PROVE  m = k /\ i = j
    <3>1. CASE MailAt(m, i)' = h
      BY <1>9, <1>10, <2>1, <3>1
    <3>2. CASE MailAt(m, i)' # h
      <4>1. i \in 1 .. MailLen(m) /\ MailAt(m, i)' = MailAt(m, i)
        BY <1>9, <3>2
      <4>2. j \in 1 .. MailLen(k) /\ MailAt(k, j)' = MailAt(k, j)
        BY <1>9, <2>1, <3>2
      <4>3. MailAt(m, i) = MailAt(k, j)
        BY <2>1, <4>1, <4>2
      <4> QED BY <4>1, <4>2, <4>3 DEF PInv, RequestsOnce
    <3> QED BY <3>1, <3>2
  <2>2. ASSUME NEW q \in Endpoints, Serving(q)',
               NEW m \in Nodes, NEW i \in 1 .. MailLen(m)'
        PROVE  MailAt(m, i)' # peer'[q]
    <3>1. CASE i \in 1 .. MailLen(m) /\ MailAt(m, i)' = MailAt(m, i)
      <4>1. MailAt(m, i) # peer[q]
        BY <1>7, <2>2, <3>1 DEF PInv, RequestsOnce
      <4> QED BY <1>7, <3>1, <4>1
    <3>2. CASE MailAt(m, i)' = h
      BY <1>7, <1>10, <2>2, <3>2
    <3> QED BY <1>9, <3>1, <3>2
  <2>3. ASSUME NEW q \in Endpoints, NEW s \in Endpoints, Serving(q)', Serving(s)',
               peer'[q] = peer'[s]
        PROVE  q = s
    BY <1>7, <2>3 DEF PInv, RequestsOnce
  <2>4. ASSUME NEW k \in Nodes, IsAnswered(k)'
        PROVE  /\ \A m \in Nodes : \A i \in 1 .. MailLen(m)' : MailAt(m, i)' # k
               /\ \A q \in Endpoints : Serving(q)' => peer'[q] # k
    <3>1. /\ \A m \in Nodes : \A i \in 1 .. MailLen(m) : MailAt(m, i) # k
          /\ \A q \in Endpoints : Serving(q) => peer[q] # k
      BY <1>7, <2>4 DEF PInv, RequestsOnce
    <3>2. h # k
      BY <1>7, <1>10, <2>4
    <3> QED BY <1>7, <1>9, <3>1, <3>2
  <2> QED BY <2>1, <2>2, <2>3, <2>4 DEF RequestsOnce
<1> QED
  BY <1>3, <1>4, <1>5, <1>11, <1>12 DEF PInv

\* The answer of an accepting endpoint is the only one at the interrupt of the
\* node it serves, and is for the endpoint that holds it.
LEMMA PassiveAnswerKeeps ==
  ASSUME PInv, IInv', NEW p \in Passives, SendAnswer(p)
  PROVE  PInv'
<1>1. PICK n, s : n = peer[p] /\ s = [buffer |-> data[p], from |-> p]
  OBVIOUS
<1>2. /\ pc[p] = "answer" /\ p \in Endpoints /\ p \notin Actives /\ Home[p] \in Nodes
      /\ answers' = [answers EXCEPT ![n] = Append(answers[n], s)]
      /\ pc' = [pc EXCEPT ![p] = "await"] /\ pc \in [Endpoints -> Stages]
      /\ answers \in [Nodes -> Seq(Answers)] /\ s.from = p
      /\ UNCHANGED <<requests, connreq, holder, poolVars, linkVars, peer, data, partner>>
  BY <1>1, Parameters, SidesAssumption DEF SendAnswer, Answered, Goto, PInv, IInv, TypeOK
<1>3. Serving(p) /\ Waiting(n, Home[p]) /\ n \in Nodes
  BY <1>1, <1>2 DEF Serving, PInv, RequestersWait, Waiting
<1>4. ~HasAnswer(n)
  <2>1. ~IsAnswered(n)
    BY <1>1, <1>2, <1>3 DEF PInv, RequestsOnce
  <2>2. \A f, b : ~FromActive(n, f, b)
    BY <1>3, SidesAssumption DEF FromActive, Open, Waiting
  <2> QED BY <1>3, <2>1, <2>2 DEF PInv, AnswersMeant, FromPassive, IsAnswered
<1>5. answers'[n] = <<s>>
  <2>1. answers[n] = <<>>
    BY <1>2, <1>3, <1>4 DEF PInv, AnswersMeant, HasAnswer
  <2> QED BY <1>2, <1>3, <2>1
<1>6. /\ \A m \in Nodes : m # n => answers'[m] = answers[m]
      /\ \A f \in Endpoints : f # p => pc'[f] = pc[f]
      /\ \A f, b : Gave(f, b) => Gave(f, b)'
      /\ \A f : Open(f) => Open(f)'
      /\ \A f : Untaken(f)' = Untaken(f)
      /\ \A k, m : Waiting(k, m) => Waiting(k, m)'
      /\ \A q \in Endpoints : Serving(q)' => Serving(q) /\ q # p
  <2>1. \A m \in Nodes : m # n => answers'[m] = answers[m]
    BY <1>2
  <2>2. \A f : f # p /\ f \in Endpoints => pc'[f] = pc[f]
    BY <1>2
  <2>3. \A f, b : Gave(f, b) => Gave(f, b)'
    BY <1>2 DEF Gave, Done, poolVars
  <2>4. \A f : Open(f) => Open(f)'
    BY <1>2, Parameters DEF Open
  <2>5. \A f : Untaken(f)' = Untaken(f)
    BY <1>2 DEF Untaken
  <2>6. \A k, m : Waiting(k, m) => Waiting(k, m)'
    BY <1>2, Parameters DEF Waiting
  <2>7. \A q \in Endpoints : Serving(q)' => Serving(q) /\ q # p
    BY <1>2 DEF Serving
  <2> QED BY <2>1, <2>2, <2>3, <2>4, <2>5, <2>6, <2>7
<1>7. HasAnswer(n)' /\ Answerer(n)' = p
  <2>1. Len(<<s>>) = 1 /\ <<s>>[1] = s
    OBVIOUS
  <2>2. Len(answers'[n]) = 1 /\ answers'[n][1].from = p
    BY <1>2, <1>5, <2>1
  <2> QED BY <2>2 DEF HasAnswer, Answerer
<1>8. \A m \in Nodes : m # n => HasAnswer(m)' = HasAnswer(m) /\ Answerer(m)' = Answerer(m)
  BY <1>6 DEF HasAnswer, Answerer
<1>9. partner[p] = None /\ buffer[p] # 0 /\ ~connected[p]
  BY <1>2 DEF PInv, PartnerKnown, Knows, AnswerIsOwn, Done
<1>10. FromPassive(n, p)'
  <2>1. Untaken(p)
    BY <1>2 DEF PInv, NotYetPartner, Silent
  <2>2. Open(p)'
    <3>1. holder[Home[p]] = p
      BY <1>2 DEF PInv, IInv, HoldsInterrupt, Handshaking
    <3> QED BY <1>2, <1>9, <3>1 DEF Open
  <2> QED BY <1>1, <1>2, <1>6, <2>1, <2>2 DEF FromPassive
<1>11. AnswersMeant'
  <2> SUFFICES ASSUME NEW m \in Nodes
               PROVE  /\ Len(answers'[m]) \in {0, 1}
                      /\ HasAnswer(m)' =>
                           \/ FromPassive(m, Answerer(m))'
                           \/ FromActive(m, Answerer(m), answers[m][1].buffer)'
    BY DEF AnswersMeant
  <2>1. CASE m = n
    BY <1>5, <1>7, <1>10, <2>1 DEF FromPassive
  <2>2. CASE m # n
    <3>1. answers'[m] = answers[m]
      BY <1>6, <2>2
    <3>2. ASSUME HasAnswer(m), FromPassive(m, Answerer(m)) PROVE FromPassive(m, Answerer(m))'
      <4>1. PICK f : f = Answerer(m)
        OBVIOUS
      <4>2. f \in Passives /\ Open(f)' /\ peer'[f] = m /\ Untaken(f)'
        BY <1>2, <1>6, <3>2, <4>1 DEF FromPassive
      <4>3. Answerer(m)' = f
        BY <1>8, <2>2, <4>1
      <4> QED BY <4>2, <4>3 DEF FromPassive
    <3>3. ASSUME HasAnswer(m), FromActive(m, Answerer(m), answers[m][1].buffer)
          PROVE  FromActive(m, Answerer(m), answers[m][1].buffer)'
      <4>1. PICK f, b : f = Answerer(m) /\ b = answers[m][1].buffer
        OBVIOUS
      <4>2. /\ f \in Actives /\ Target[f] = m /\ partner'[f] = holder'[m] /\ Untaken(f)'
            /\ Gave(f, b)' /\ holder' = holder /\ peer' = peer
            /\ Open(holder[m]) /\ peer[holder[m]] = Home[f]
        BY <1>2, <1>6, <3>3, <4>1 DEF FromActive
      <4>3. Open(holder[m])'
        BY <1>2, <4>2, Parameters DEF Open
      <4>4. Answerer(m)' = f /\ answers'[m][1].buffer = b
        BY <1>8, <2>2, <3>1, <4>1
      <4> QED BY <4>2, <4>3, <4>4 DEF FromActive
    <3> QED BY <1>8, <2>2, <3>1, <3>2, <3>3 DEF PInv, AnswersMeant
  <2> QED BY <2>1, <2>2
<1>12. /\ \A m : MailLen(m)' = MailLen(m)
       /\ \A m, i : MailAt(m, i)' = MailAt(m, i)
  BY <1>2 DEF MailLen, MailAt
<1>13. \A k \in Nodes : IsAnswered(k)' =>
         \/ k = n /\ Answerer(k)' = p
         \/ k # n /\ IsAnswered(k) /\ Answerer(k)' = Answerer(k)
  BY <1>7, <1>8 DEF IsAnswered
<1>14. RequestersWait'
  <2>1. ASSUME NEW m \in Nodes, NEW i \in 1 .. MailLen(m)' PROVE Waiting(MailAt(m, i), m)'
    <3>1. i \in 1 .. MailLen(m) /\ MailAt(m, i)' = MailAt(m, i)
      BY <1>12
    <3>2. Waiting(MailAt(m, i), m)
      BY <3>1 DEF PInv, RequestersWait
    <3> QED BY <1>6, <3>1, <3>2
  <2>2. ASSUME NEW q \in Endpoints, Serving(q)' PROVE Waiting(peer[q], Home[q])'
    BY <1>2, <1>6, <2>2 DEF PInv, RequestersWait
  <2>3. ASSUME NEW k \in Nodes, IsAnswered(k)' PROVE Waiting(k, Home[Answerer(k)])'
    BY <1>3, <1>6, <1>13, <2>3 DEF PInv, RequestersWait
  <2> QED BY <2>1, <2>2, <2>3 DEF RequestersWait
<1>15. RequestsOnce'
  <2>1. /\ \A m \in Nodes : \A i \in 1 .. MailLen(m) : MailAt(m, i) # n
        /\ \A q \in Endpoints : Serving(q) /\ q # p => peer[q] # n
    BY <1>1, <1>2, <1>3 DEF PInv, RequestsOnce
  <2>2. /\ \A m, k \in Nodes : \A i \in 1 .. MailLen(m)', j \in 1 .. MailLen(k)' :
             MailAt(m, i)' = MailAt(k, j)' => m = k /\ i = j
        /\ \A q \in Endpoints : Serving(q)' =>
             \A m \in Nodes : \A i \in 1 .. MailLen(m)' : MailAt(m, i)' # peer'[q]
        /\ \A q, r \in Endpoints : Serving(q)' /\ Serving(r)' /\ peer'[q] = peer'[r] => q = r
    BY <1>2, <1>6, <1>12 DEF PInv, RequestsOnce
  <2>3. ASSUME NEW k \in Nodes, IsAnswered(k)'
        PROVE  /\ \A m \in Nodes : \A i \in 1 .. MailLen(m)' : MailAt(m, i)' # k
               /\ \A q \in Endpoints : Serving(q)' => peer'[q] # k
    <3>1. CASE k = n
      BY <1>2, <1>6, <1>12, <2>1, <3>1
    <3>2. CASE k # n
      <4>1. /\ \A m \in Nodes : \A i \in 1 .. MailLen(m) : MailAt(m, i) # k
            /\ \A q \in Endpoints : Serving(q) => peer[q] # k
        BY <1>13, <2>3, <3>2 DEF PInv, RequestsOnce
      <4> QED BY <1>2, <1>6, <1>12, <4>1
    <3> QED BY <3>1, <3>2
  <2> QED BY <2>2, <2>3 DEF RequestsOnce
<1>16. Talks'
  <2> SUFFICES ASSUME NEW a \in Actives, pc'[a] \in Talking
               PROVE  /\ Open(partner[a])' /\ Home[partner[a]] = Target[a]
                      /\ peer'[partner[a]] = Home[a]
    BY <1>2 DEF Talks
  <2>1. pc[a] \in Talking
    BY <1>2, <1>6, Parameters
  <2> QED BY <1>2, <1>6, <2>1 DEF PInv, Talks
<1>17. NotYetPartner'
  <2>1. \A f \in Endpoints : Silent(f)' => Silent(f)
    BY <1>2 DEF Silent
  <2> QED BY <1>6, <2>1 DEF PInv, NotYetPartner
<1>18. PartnerOnce' /\ PartnersAgree' /\ TargetKnown' /\ AnswerIsOwn'
  BY <1>2 DEF PInv, PartnerOnce, PartnersAgree, TargetKnown, AnswerIsOwn, poolVars
<1>19. PartnerKnown'
  <2> SUFFICES ASSUME NEW q \in Passives PROVE Knows(q)'
    BY DEF PartnerKnown
  <2>1. CASE q = p
    BY <1>2, <1>9, <2>1 DEF Knows, poolVars, linkVars
  <2>2. CASE q # p
    BY <1>2, <1>6, <2>2, KnowsStays, Parameters DEF poolVars, linkVars
  <2> QED BY <2>1, <2>2
<1> QED
  BY <1>11, <1>14, <1>15, <1>16, <1>17, <1>18, <1>19 DEF PInv

\* An answer at a node stays meant for the endpoint that holds the interrupt of
\* that node, as long as the two endpoints stay what they are.
LEMMA MeantStays ==
  ASSUME PInv, NEW m \in Nodes, NEW f, f = Answerer(m), HasAnswer(m),
         answers'[m] = answers[m], holder' = holder, peer' = peer,
         FromPassive(m, f) => Open(f)' /\ Untaken(f)',
         \A b : FromActive(m, f, b) =>
           /\ Gave(f, b)' /\ Open(holder[m])' /\ Untaken(f)'
           /\ partner'[f] = partner[f]
  PROVE  \/ FromPassive(m, Answerer(m))'
         \/ FromActive(m, Answerer(m), answers[m][1].buffer)'
<1>1. PICK b : b = answers[m][1].buffer
  OBVIOUS
<1>2. Answerer(m)' = f /\ answers'[m][1].buffer = b
  BY <1>1 DEF Answerer
<1>3. CASE FromPassive(m, f)
  <2>1. f \in Passives /\ Open(f)' /\ peer'[f] = m /\ Untaken(f)'
    BY <1>3 DEF FromPassive
  <2> QED BY <1>2, <2>1 DEF FromPassive
<1>4. CASE FromActive(m, f, b)
  <2>1. /\ f \in Actives /\ Target[f] = m /\ partner'[f] = holder'[m] /\ Untaken(f)'
        /\ Gave(f, b)' /\ Open(holder[m])' /\ peer'[holder'[m]] = Home[f]
    BY <1>4 DEF FromActive
  <2> QED BY <1>2, <2>1 DEF FromActive
<1> QED
  BY <1>1, <1>3, <1>4 DEF PInv, AnswersMeant

\* The answer of an active endpoint is the only one at the interrupt of its
\* target, and is for the endpoint whose answer it took.
LEMMA ActiveAnswerKeeps ==
  ASSUME PInv, IInv', NEW a \in Actives, SendAnswer(a)
  PROVE  PInv'
<1>1. PICK n, s : n = peer[a] /\ s = [buffer |-> data[a], from |-> a]
  OBVIOUS
<1>2. /\ pc[a] = "answer" /\ a \in Endpoints /\ a \notin Passives /\ Home[a] \in Nodes
      /\ answers' = [answers EXCEPT ![n] = Append(answers[n], s)]
      /\ pc' = [pc EXCEPT ![a] = "remove"] /\ pc \in [Endpoints -> Stages]
      /\ answers \in [Nodes -> Seq(Answers)] /\ s.from = a /\ s.buffer = data[a]
      /\ n = Target[a] /\ n \in Nodes
      /\ UNCHANGED <<requests, connreq, holder, poolVars, linkVars, peer, data, partner>>
  BY <1>1, Parameters, SidesAssumption
     DEF SendAnswer, Answered, Goto, PInv, IInv, TypeOK, TargetKnown
<1>3. PICK p : p = partner[a]
  OBVIOUS
<1>4. /\ Open(p) /\ Home[p] = n /\ peer[p] = Home[a] /\ p \in Passives /\ p \in Endpoints
      /\ p # a /\ partner[p] = None
  BY <1>2, <1>3, Parameters DEF PInv, Talks, Talking, Open
<1>5. holder[n] = p
  BY <1>4 DEF PInv, IInv, HoldsInterrupt, Handshaking, Open
<1>6. ~HasAnswer(n)
  <2>1. ~IsAnswered(n)
    BY <1>2, <1>4, <1>5, SidesAssumption DEF PInv, RequestersWait, Waiting
  <2>2. ASSUME NEW f, NEW b, FromActive(n, f, b) PROVE FALSE
    <3>1. f \in Endpoints /\ partner[f] = p /\ pc[f] \in Done
      BY <1>5, <2>2, Parameters DEF FromActive, Gave
    <3>2. f = a
      BY <1>2, <1>3, <1>4, <3>1, Parameters DEF PInv, PartnerOnce
    <3> QED BY <1>2, <3>1, <3>2 DEF Done
  <2> QED BY <1>2, <2>1, <2>2 DEF PInv, AnswersMeant, FromPassive, IsAnswered
<1>7. answers'[n] = <<s>>
  <2>1. answers[n] = <<>>
    BY <1>2, <1>6 DEF PInv, AnswersMeant, HasAnswer
  <2> QED BY <1>2, <2>1
<1>8. HasAnswer(n)' /\ Answerer(n)' = a /\ answers'[n][1].buffer = data[a]
  <2>1. Len(<<s>>) = 1 /\ <<s>>[1] = s
    OBVIOUS
  <2>2. Len(answers'[n]) = 1 /\ answers'[n][1].from = a /\ answers'[n][1].buffer = data[a]
    BY <1>2, <1>7, <2>1
  <2> QED BY <2>2 DEF HasAnswer, Answerer
<1>9. \A m \in Nodes : m # n =>
        answers'[m] = answers[m] /\ HasAnswer(m)' = HasAnswer(m) /\ Answerer(m)' = Answerer(m)
  BY <1>2 DEF HasAnswer, Answerer
<1>10. \A f : Untaken(f)' = Untaken(f)
  BY <1>2 DEF Untaken
<1>11. \A f \in Endpoints : \A b : Gave(f, b) => Gave(f, b)'
  BY <1>2, GaveStays DEF Done, poolVars
<1>12. \A f : Open(f) => Open(f)'
  BY <1>2, Parameters DEF Open
<1>13. FromActive(n, a, data[a])'
  <2>1. Untaken(a)
    BY <1>2 DEF PInv, NotYetPartner, Silent
  <2>2. Gave(a, data[a])'
    <3>1. data[a] = buffer[a] /\ buffer[a] # 0
      BY <1>2 DEF PInv, AnswerIsOwn
    <3>2. /\ buffer[a] \in reserved[Home[a]]
          /\ \A g \in Endpoints : g # a /\ Home[g] = Home[a] => buffer[g] # buffer[a]
      BY <1>2, <3>1 DEF PInv, IInv, OwnBufferReserved, BuffersExclusive
    <3>3. pc'[a] \in Done
      BY <1>2 DEF Done
    <3> QED BY <1>2, <3>1, <3>2, <3>3 DEF Gave, poolVars
  <2>3. Open(p)'
    BY <1>4, <1>12
  <2>4. Open(holder[n])'
    BY <1>2, <1>5, <2>3
  <2>5. /\ a \in Actives /\ Target[a] = n /\ partner'[a] = holder'[n] /\ Untaken(a)'
        /\ peer'[holder'[n]] = Home[a]
    BY <1>2, <1>3, <1>4, <1>5, <1>10, <2>1
  <2> QED BY <2>2, <2>4, <2>5 DEF FromActive
<1>14. AnswersMeant'
  <2> SUFFICES ASSUME NEW m \in Nodes
               PROVE  /\ Len(answers'[m]) \in {0, 1}
                      /\ HasAnswer(m)' =>
                           \/ FromPassive(m, Answerer(m))'
                           \/ FromActive(m, Answerer(m), answers[m][1].buffer)'
    BY DEF AnswersMeant
  <2>1. CASE m = n
    <3>1. FromActive(n, Answerer(n), answers[n][1].buffer)'
      BY <1>2, <1>8, <1>13 DEF FromActive
    <3> QED BY <1>8, <2>1, <3>1 DEF HasAnswer
  <2>2. CASE m # n
    <3>1. answers'[m] = answers[m] /\ HasAnswer(m)' = HasAnswer(m)
      BY <1>9, <2>2
    <3>2. ASSUME HasAnswer(m)
          PROVE  \/ FromPassive(m, Answerer(m))'
                 \/ FromActive(m, Answerer(m), answers[m][1].buffer)'
      <4>1. PICK f : f = Answerer(m)
        OBVIOUS
      <4>2. FromPassive(m, f) => Open(f)' /\ Untaken(f)'
        BY <1>10, <1>12 DEF FromPassive
      <4>3. Open(holder[m]) => Open(holder[m])'
        BY <1>2, Parameters DEF Open
      <4>4. \A b : FromActive(m, f, b) =>
              /\ Gave(f, b)' /\ Open(holder[m])' /\ Untaken(f)'
              /\ partner'[f] = partner[f]
        BY <1>2, <1>10, <1>11, <4>3, Parameters DEF FromActive
      <4> QED BY <1>2, <3>1, <3>2, <4>1, <4>2, <4>4, MeantStays
    <3> QED BY <3>1, <3>2 DEF PInv, AnswersMeant
  <2> QED BY <2>1, <2>2
<1>15. /\ \A m : MailLen(m)' = MailLen(m)
       /\ \A m, i : MailAt(m, i)' = MailAt(m, i)
       /\ \A k, m : Waiting(k, m) => Waiting(k, m)'
       /\ \A q \in Endpoints : Serving(q)' = Serving(q)
  BY <1>2, Parameters, SidesAssumption DEF MailLen, MailAt, Waiting, Serving
<1>16. \A k \in Nodes : IsAnswered(k)' => IsAnswered(k) /\ Answerer(k)' = Answerer(k)
  BY <1>2, <1>8, <1>9 DEF IsAnswered
<1>17. RequestersWait'
  <2>1. ASSUME NEW m \in Nodes, NEW i \in 1 .. MailLen(m)' PROVE Waiting(MailAt(m, i), m)'
    <3>1. i \in 1 .. MailLen(m) /\ MailAt(m, i)' = MailAt(m, i)
      BY <1>15
    <3>2. Waiting(MailAt(m, i), m)
      BY <3>1 DEF PInv, RequestersWait
    <3> QED BY <1>15, <3>1, <3>2
  <2>2. ASSUME NEW q \in Endpoints, Serving(q)' PROVE Waiting(peer[q], Home[q])'
    BY <1>2, <1>15, <2>2 DEF PInv, RequestersWait
  <2>3. ASSUME NEW k \in Nodes, IsAnswered(k)' PROVE Waiting(k, Home[Answerer(k)])'
    BY <1>15, <1>16, <2>3 DEF PInv, RequestersWait
  <2> QED BY <2>1, <2>2, <2>3 DEF RequestersWait
<1>18. RequestsOnce'
  BY <1>2, <1>15, <1>16 DEF PInv, RequestsOnce
<1>19. Talks'
  <2> SUFFICES ASSUME NEW c \in Actives, pc'[c] \in Talking
               PROVE  /\ Open(partner[c])' /\ Home[partner[c]] = Target[c]
                      /\ peer'[partner[c]] = Home[c]
    BY <1>2 DEF Talks
  <2>1. pc[c] \in Talking
    BY <1>2, Parameters DEF Talking
  <2>2. Open(partner[c]) /\ Home[partner[c]] = Target[c] /\ peer[partner[c]] = Home[c]
    BY <2>1 DEF PInv, Talks
  <2>3. Open(partner[c])'
    BY <1>2, <2>2, Parameters DEF Open
  <2> QED BY <1>2, <2>2, <2>3
<1>20. NotYetPartner'
  <2>1. \A f \in Endpoints : Silent(f)' => Silent(f)
    BY <1>2 DEF Silent
  <2> QED BY <1>10, <2>1 DEF PInv, NotYetPartner
<1>21. PartnerOnce' /\ PartnersAgree' /\ TargetKnown' /\ AnswerIsOwn'
  BY <1>2 DEF PInv, PartnerOnce, PartnersAgree, TargetKnown, AnswerIsOwn, poolVars
<1>22. PartnerKnown'
  <2> SUFFICES ASSUME NEW q \in Passives PROVE Knows(q)'
    BY DEF PartnerKnown
  <2> QED BY <1>2, <1>11, KnowsStays, Parameters DEF poolVars, linkVars
<1> QED
  BY <1>14, <1>17, <1>18, <1>19, <1>20, <1>21, <1>22 DEF PInv

\* What an endpoint that waits takes: the one answer at its interrupt, which
\* came from the other side.
LEMMA TakenAnswer ==
  ASSUME PInv, NEW e \in Endpoints, TakeAnswer(e), NEW n, n = Home[e], NEW f, f = Answerer(n)
  PROVE  /\ n \in Nodes /\ HasAnswer(n) /\ answers' = [answers EXCEPT ![n] = <<>>]
         /\ partner' = [partner EXCEPT ![e] = f] /\ f \in Endpoints
         /\ e \in Actives => FromPassive(n, f)
         /\ e \in Passives => FromActive(n, f, answers[n][1].buffer)
         /\ \A m \in Nodes : holder[m] = e => m = n
<1>1. n \in Nodes /\ answers[n] \in Seq(Answers) /\ answers[n] # <<>> /\ holder[n] = e
  BY Parameters DEF TakeAnswer, PInv, IInv, TypeOK
<1>2. Len(answers[n]) = 1
  BY <1>1 DEF PInv, AnswersMeant
<1>3. /\ Tail(answers[n]) = <<>> /\ Head(answers[n]) = answers[n][1]
      /\ answers[n][1] \in Answers
  <2>1. PICK s : s = answers[n]
    OBVIOUS
  <2>2. s \in Seq(Answers) /\ s # <<>> /\ Len(s) = 1
    BY <1>1, <1>2, <2>1
  <2>3. Head(s) = s[1] /\ s[1] \in Answers
    BY <2>2
  <2>4. Tail(s) \in Seq(Answers) /\ Len(Tail(s)) = 0
    BY <2>2
  <2>5. Tail(s) = <<>>
    <3>1. \A t \in Seq(Answers) : Len(t) = 0 => t = <<>>
      OBVIOUS
    <3> QED BY <2>4, <3>1
  <2> QED BY <2>1, <2>3, <2>5
<1>4. f \in Endpoints /\ Head(answers[n]).from = f
  BY <1>3 DEF Answers, Answerer
<1>5. answers' = [answers EXCEPT ![n] = <<>>]
  BY <1>3 DEF TakeAnswer
<1>6. partner' = [partner EXCEPT ![e] = f]
  BY <1>4 DEF TakeAnswer
<1>7. FromPassive(n, f) \/ FromActive(n, f, answers[n][1].buffer)
  BY <1>1, <1>2 DEF PInv, AnswersMeant, HasAnswer
<1>8. e \in Actives => FromPassive(n, f)
  BY <1>1, <1>7, SidesAssumption DEF FromActive, Open
<1>9. e \in Passives => ~FromPassive(n, f)
  <2> SUFFICES ASSUME e \in Passives, FromPassive(n, f) PROVE FALSE
    OBVIOUS
  <2>1. IsAnswered(n)
    BY <1>2 DEF IsAnswered, HasAnswer, FromPassive
  <2> QED BY <1>1, <2>1, SidesAssumption DEF PInv, RequestersWait, Waiting
<1>10. \A m \in Nodes : holder[m] = e => m = n
  BY Parameters DEF PInv, IInv, InterruptInUse
<1> QED
  BY <1>1, <1>2, <1>4, <1>5, <1>6, <1>7, <1>8, <1>9, <1>10 DEF HasAnswer

\* An active endpoint takes the answer of the endpoint that serves its request,
\* which waits for it from now on.
LEMMA ActiveTakeKeeps ==
  ASSUME PInv, IInv', NEW a \in Actives, TakeAnswer(a)
  PROVE  PInv'
<1>1. PICK n, f : n = Home[a] /\ f = Answerer(n)
  OBVIOUS
<1>2. /\ pc[a] = "await" /\ a \in Endpoints /\ a \notin Passives /\ holder[n] = a
      /\ pc' = [pc EXCEPT ![a] = pc'[a]] /\ pc'[a] \in {"alloc", "remove"}
      /\ pc \in [Endpoints -> Stages] /\ partner \in [Endpoints -> Endpoints \cup {None}]
      /\ answers \in [Nodes -> Seq(Answers)] /\ data \in [Endpoints -> Buffers \cup {0}]
      /\ data' = [data EXCEPT ![a] = data'[a]]
      /\ UNCHANGED <<requests, connreq, holder, poolVars, linkVars, peer>>
  BY <1>1, Parameters, SidesAssumption DEF TakeAnswer, Goto, PInv, IInv, TypeOK
<1>3. /\ n \in Nodes /\ HasAnswer(n) /\ answers' = [answers EXCEPT ![n] = <<>>]
      /\ partner' = [partner EXCEPT ![a] = f] /\ f \in Endpoints /\ FromPassive(n, f)
      /\ \A m \in Nodes : holder[m] = a => m = n
  BY <1>1, <1>2, TakenAnswer
<1>4. IsAnswered(n) /\ Waiting(n, Home[f]) /\ Target[a] = Home[f]
  BY <1>1, <1>2, <1>3 DEF IsAnswered, FromPassive, PInv, RequestersWait, Waiting
<1>5. /\ f \in Passives /\ f # a /\ pc[f] \in {"await", "gone"} /\ partner[f] = None /\ peer[f] = n
      /\ Untaken(f) /\ Untaken(a)
  BY <1>2, <1>3 DEF FromPassive, Open, PInv, NotYetPartner, Silent
<1>6. \A g : Untaken(g) /\ g # f => Untaken(g)'
  BY <1>3 DEF Untaken
<1>7. \A g \in Endpoints : \A b : Gave(g, b) => Gave(g, b)'
  BY <1>2, GaveStays DEF Done, poolVars
<1>8. \A g : Open(g) => Open(g)'
  BY <1>2, <1>3, Parameters DEF Open
<1>9. answers'[n] = <<>>
  BY <1>2, <1>3
<1>10. ~HasAnswer(n)'
  BY <1>9 DEF HasAnswer
<1>11. \A m \in Nodes : m # n =>
         answers'[m] = answers[m] /\ HasAnswer(m)' = HasAnswer(m) /\ Answerer(m)' = Answerer(m)
  BY <1>3 DEF HasAnswer, Answerer
<1>12. AnswersMeant'
  <2> SUFFICES ASSUME NEW m \in Nodes
               PROVE  /\ Len(answers'[m]) \in {0, 1}
                      /\ HasAnswer(m)' =>
                           \/ FromPassive(m, Answerer(m))'
                           \/ FromActive(m, Answerer(m), answers[m][1].buffer)'
    BY DEF AnswersMeant
  <2>1. CASE m = n
    BY <1>9, <1>10, <2>1
  <2>2. CASE m # n
    <3>1. answers'[m] = answers[m] /\ HasAnswer(m)' = HasAnswer(m)
      BY <1>11, <2>2
    <3>2. ASSUME HasAnswer(m)
          PROVE  \/ FromPassive(m, Answerer(m))'
                 \/ FromActive(m, Answerer(m), answers[m][1].buffer)'
      <4>1. PICK g : g = Answerer(m)
        OBVIOUS
      <4>2. FromPassive(m, g) => Open(g)' /\ Untaken(g)'
        BY <1>5, <1>6, <1>8, <2>2 DEF FromPassive
      <4>3. Open(holder[m]) => Open(holder[m])'
        BY <1>2, <1>3, Parameters DEF Open
      <4>4. ASSUME NEW b, FromActive(m, g, b)
            PROVE  /\ Gave(g, b)' /\ Open(holder[m])' /\ Untaken(g)'
                   /\ partner'[g] = partner[g]
        <5>1. /\ g \in Endpoints /\ g \in Actives /\ Untaken(g) /\ Gave(g, b)
              /\ Open(holder[m])
          BY <4>4, Parameters DEF FromActive
        <5>2. g # a /\ g # f
          BY <1>2, <1>5, <5>1, SidesAssumption DEF Gave, Done
        <5> QED BY <1>2, <1>3, <1>6, <1>7, <4>3, <5>1, <5>2
      <4> QED BY <1>2, <3>1, <3>2, <4>1, <4>2, <4>4, MeantStays
    <3> QED BY <3>1, <3>2 DEF PInv, AnswersMeant
  <2> QED BY <2>1, <2>2
<1>13. /\ \A m : MailLen(m)' = MailLen(m)
       /\ \A m, i : MailAt(m, i)' = MailAt(m, i)
       /\ \A k, m : Waiting(k, m) /\ k # n => Waiting(k, m)'
       /\ \A q \in Endpoints : Serving(q)' = Serving(q)
  BY <1>2, <1>3, Parameters DEF MailLen, MailAt, Waiting, Serving
<1>14. \A k \in Nodes : IsAnswered(k)' =>
         k # n /\ IsAnswered(k) /\ Answerer(k)' = Answerer(k)
  BY <1>10, <1>11 DEF IsAnswered
<1>15. /\ \A m \in Nodes : \A i \in 1 .. MailLen(m) : MailAt(m, i) # n
       /\ \A q \in Endpoints : Serving(q) => peer[q] # n
  BY <1>3, <1>4 DEF PInv, RequestsOnce
<1>16. RequestersWait'
  <2>1. ASSUME NEW m \in Nodes, NEW i \in 1 .. MailLen(m)' PROVE Waiting(MailAt(m, i), m)'
    <3>1. i \in 1 .. MailLen(m) /\ MailAt(m, i)' = MailAt(m, i)
      BY <1>13
    <3>2. Waiting(MailAt(m, i), m) /\ MailAt(m, i) # n
      BY <1>15, <3>1 DEF PInv, RequestersWait
    <3> QED BY <1>13, <3>1, <3>2
  <2>2. ASSUME NEW q \in Endpoints, Serving(q)' PROVE Waiting(peer[q], Home[q])'
    BY <1>2, <1>13, <1>15, <2>2 DEF PInv, RequestersWait
  <2>3. ASSUME NEW k \in Nodes, IsAnswered(k)' PROVE Waiting(k, Home[Answerer(k)])'
    BY <1>13, <1>14, <2>3 DEF PInv, RequestersWait
  <2> QED BY <2>1, <2>2, <2>3 DEF RequestersWait
<1>17. RequestsOnce'
  BY <1>2, <1>13, <1>14 DEF PInv, RequestsOnce
<1>18. Talks'
  <2> SUFFICES ASSUME NEW c \in Actives, pc'[c] \in Talking
               PROVE  /\ Open(partner[c])' /\ Home[partner'[c]] = Target[c]
                      /\ peer'[partner'[c]] = Home[c]
    BY DEF Talks
  <2>1. CASE c = a
    <3>1. partner'[c] = f
      BY <1>2, <1>3, <2>1
    <3>2. Open(f)'
      BY <1>3, <1>8 DEF FromPassive
    <3>3. Open(partner[c])'
      BY <3>1, <3>2 DEF Open
    <3> QED BY <1>1, <1>2, <1>4, <1>5, <2>1, <3>1, <3>3
  <2>2. CASE c # a
    <3>1. pc[c] \in Talking /\ partner'[c] = partner[c] /\ c \in Endpoints
      BY <1>2, <1>3, <2>2, Parameters
    <3>2. Open(partner[c]) /\ Home[partner[c]] = Target[c] /\ peer[partner[c]] = Home[c]
      BY <3>1 DEF PInv, Talks
    <3>3. PICK q : q = partner[c]
      OBVIOUS
    <3>4. Open(q)'
      BY <1>8, <3>2, <3>3
    <3>5. Open(partner[c])'
      BY <3>1, <3>3, <3>4 DEF Open
    <3> QED BY <1>2, <3>1, <3>2, <3>5
  <2> QED BY <2>1, <2>2
<1>19. NotYetPartner'
  <2>1. \A g \in Endpoints : Silent(g)' => Silent(g) /\ g # f
    BY <1>2, <1>5, SidesAssumption DEF Silent
  <2> QED BY <1>6, <2>1 DEF PInv, NotYetPartner
<1>20. PartnerOnce'
  BY <1>2, <1>3, <1>5 DEF PInv, PartnerOnce, Untaken
<1>21. PartnersAgree'
  BY <1>2, <1>3, <1>5 DEF PInv, PartnersAgree, Untaken
<1>22. TargetKnown' /\ AnswerIsOwn'
  BY <1>2 DEF PInv, TargetKnown, AnswerIsOwn, poolVars
<1>23. PartnerKnown'
  <2> SUFFICES ASSUME NEW q \in Passives PROVE Knows(q)'
    BY DEF PartnerKnown
  <2>1. q \in Endpoints /\ q # a
    BY <1>2, Parameters
  <2>2. data'[q] = data[q] /\ pc'[q] = pc[q] /\ partner'[q] = partner[q]
    BY <1>2, <1>3, <2>1
  <2> QED BY <1>2, <1>7, <2>2, KnowsStays DEF poolVars, linkVars
<1> QED
  BY <1>12, <1>16, <1>17, <1>18, <1>19, <1>20, <1>21, <1>22, <1>23 DEF PInv

\* An accepting endpoint takes the answer of the endpoint that took its own.
LEMMA PassiveTakeKeeps ==
  ASSUME PInv, IInv', NEW p \in Passives, TakeAnswer(p)
  PROVE  PInv'
<1>1. PICK n, f : n = Home[p] /\ f = Answerer(n)
  OBVIOUS
<1>2. PICK b : b = answers[n][1].buffer
  OBVIOUS
<1>3. /\ n \in Nodes /\ HasAnswer(n) /\ answers' = [answers EXCEPT ![n] = <<>>]
      /\ partner' = [partner EXCEPT ![p] = f] /\ f \in Endpoints /\ FromActive(n, f, b)
      /\ \A m \in Nodes : holder[m] = p => m = n
  BY <1>1, <1>2, TakenAnswer, Parameters
<1>4. /\ pc[p] = "await" /\ p \in Endpoints /\ p \notin Actives /\ holder[n] = p
      /\ buffer[p] # 0 /\ ~connected[p]
      /\ pc' = [pc EXCEPT ![p] = "remove"] /\ data' = [data EXCEPT ![p] = b]
      /\ pc \in [Endpoints -> Stages] /\ partner \in [Endpoints -> Endpoints \cup {None}]
      /\ answers \in [Nodes -> Seq(Answers)] /\ data \in [Endpoints -> Buffers \cup {0}]
      /\ UNCHANGED <<requests, connreq, holder, poolVars, linkVars, peer>>
  <2>1. pc[p] = "await" /\ buffer[p] # 0 /\ ~connected[p]
    BY DEF TakeAnswer, PInv, PartnerKnown, Knows
  <2>2. Head(answers[n]) = answers[n][1]
    OBVIOUS
  <2> QED BY <1>1, <1>2, <2>1, <2>2, Parameters, SidesAssumption
          DEF TakeAnswer, Goto, PInv, IInv, TypeOK
<1>5. /\ f \in Actives /\ f # p /\ Target[f] = n /\ partner[f] = p /\ Untaken(f)
      /\ Gave(f, b) /\ Open(p) /\ peer[p] = Home[f] /\ partner[p] = None
  BY <1>3, <1>4 DEF FromActive, Open
<1>6. \A g : Untaken(g) /\ g # f => Untaken(g)'
  BY <1>3 DEF Untaken
<1>7. \A g \in Endpoints : \A c : Gave(g, c) => Gave(g, c)'
  BY <1>4, GaveStays DEF Done, poolVars
<1>8. \A g : Open(g) /\ g # p => Open(g)'
  BY <1>3, <1>4, Parameters DEF Open
<1>9. answers'[n] = <<>>
  BY <1>3, <1>4
<1>10. ~HasAnswer(n)'
  BY <1>9 DEF HasAnswer
<1>11. \A m \in Nodes : m # n =>
         answers'[m] = answers[m] /\ HasAnswer(m)' = HasAnswer(m) /\ Answerer(m)' = Answerer(m)
  BY <1>3 DEF HasAnswer, Answerer
<1>12. AnswersMeant'
  <2> SUFFICES ASSUME NEW m \in Nodes
               PROVE  /\ Len(answers'[m]) \in {0, 1}
                      /\ HasAnswer(m)' =>
                           \/ FromPassive(m, Answerer(m))'
                           \/ FromActive(m, Answerer(m), answers[m][1].buffer)'
    BY DEF AnswersMeant
  <2>1. CASE m = n
    BY <1>9, <1>10, <2>1
  <2>2. CASE m # n
    <3>1. answers'[m] = answers[m] /\ HasAnswer(m)' = HasAnswer(m)
      BY <1>11, <2>2
    <3>2. ASSUME HasAnswer(m)
          PROVE  \/ FromPassive(m, Answerer(m))'
                 \/ FromActive(m, Answerer(m), answers[m][1].buffer)'
      <4>1. PICK g : g = Answerer(m)
        OBVIOUS
      <4>2. FromPassive(m, g) => Open(g)' /\ Untaken(g)'
        <5> SUFFICES ASSUME FromPassive(m, g) PROVE Open(g)' /\ Untaken(g)'
          OBVIOUS
        <5>1. g \in Passives /\ Open(g) /\ Untaken(g)
          BY DEF FromPassive
        <5>2. g # p /\ g # f
          BY <1>3, <1>5, <5>1, SidesAssumption DEF Untaken
        <5> QED BY <1>6, <1>8, <5>1, <5>2
      <4>3. Open(holder[m]) => Open(holder[m])'
        BY <1>3, <1>4, <2>2, Parameters DEF Open
      <4>4. ASSUME NEW c, FromActive(m, g, c)
            PROVE  /\ Gave(g, c)' /\ Open(holder[m])' /\ Untaken(g)'
                   /\ partner'[g] = partner[g]
        <5>1. /\ g \in Endpoints /\ g \in Actives /\ Untaken(g) /\ Gave(g, c)
              /\ Open(holder[m]) /\ Target[g] = m
          BY <4>4, Parameters DEF FromActive
        <5>2. g # p /\ g # f
          BY <1>4, <1>5, <2>2, <5>1
        <5> QED BY <1>3, <1>4, <1>6, <1>7, <4>3, <5>1, <5>2
      <4> QED BY <1>4, <3>1, <3>2, <4>1, <4>2, <4>4, MeantStays
    <3> QED BY <3>1, <3>2 DEF PInv, AnswersMeant
  <2> QED BY <2>1, <2>2
<1>13. /\ \A m : MailLen(m)' = MailLen(m)
       /\ \A m, i : MailAt(m, i)' = MailAt(m, i)
       /\ \A k, m : Waiting(k, m) => Waiting(k, m)'
       /\ \A q \in Endpoints : Serving(q)' = Serving(q)
  BY <1>3, <1>4, Parameters DEF MailLen, MailAt, Waiting, Serving
<1>14. \A k \in Nodes : IsAnswered(k)' => IsAnswered(k) /\ Answerer(k)' = Answerer(k)
  BY <1>10, <1>11 DEF IsAnswered
<1>15. RequestersWait'
  <2>1. ASSUME NEW m \in Nodes, NEW i \in 1 .. MailLen(m)' PROVE Waiting(MailAt(m, i), m)'
    <3>1. i \in 1 .. MailLen(m) /\ MailAt(m, i)' = MailAt(m, i)
      BY <1>13
    <3>2. Waiting(MailAt(m, i), m)
      BY <3>1 DEF PInv, RequestersWait
    <3> QED BY <1>13, <3>1, <3>2
  <2>2. ASSUME NEW q \in Endpoints, Serving(q)' PROVE Waiting(peer[q], Home[q])'
    BY <1>4, <1>13, <2>2 DEF PInv, RequestersWait
  <2>3. ASSUME NEW k \in Nodes, IsAnswered(k)' PROVE Waiting(k, Home[Answerer(k)])'
    BY <1>13, <1>14, <2>3 DEF PInv, RequestersWait
  <2> QED BY <2>1, <2>2, <2>3 DEF RequestersWait
<1>16. RequestsOnce'
  BY <1>4, <1>13, <1>14 DEF PInv, RequestsOnce
<1>17. Talks'
  <2> SUFFICES ASSUME NEW c \in Actives, pc'[c] \in Talking
               PROVE  /\ Open(partner[c])' /\ Home[partner'[c]] = Target[c]
                      /\ peer'[partner'[c]] = Home[c]
    BY DEF Talks
  <2>1. /\ pc[c] \in Talking /\ partner'[c] = partner[c] /\ c \in Endpoints
    BY <1>3, <1>4, Parameters
  <2>2. Open(partner[c]) /\ Home[partner[c]] = Target[c] /\ peer[partner[c]] = Home[c]
    BY <2>1 DEF PInv, Talks
  <2>3. PICK q : q = partner[c]
    OBVIOUS
  <2>4. q # p
    <3>1. c # f
      BY <1>5, <2>1 DEF Gave, Done, Talking
    <3> QED BY <1>3, <1>4, <1>5, <2>1, <2>3, <3>1, Parameters DEF PInv, PartnerOnce
  <2>5. Open(q)'
    BY <1>8, <2>2, <2>3, <2>4
  <2>6. Open(partner[c])'
    BY <2>1, <2>3, <2>5 DEF Open
  <2> QED BY <1>4, <2>1, <2>2, <2>6
<1>18. NotYetPartner'
  <2>1. \A g \in Endpoints : Silent(g)' => Silent(g) /\ g # f
    BY <1>4, <1>5 DEF Silent, Gave, Done
  <2> QED BY <1>6, <2>1 DEF PInv, NotYetPartner
<1>19. PartnerOnce'
  BY <1>3, <1>4, <1>5 DEF PInv, PartnerOnce, Untaken
<1>20. PartnersAgree'
  <2> SUFFICES ASSUME NEW e \in Endpoints, NEW g \in Endpoints, partner'[e] = g,
                      partner'[g] # None
               PROVE  partner'[g] = e
    BY DEF PartnersAgree
  <2>1. CASE e = p
    BY <1>3, <1>4, <1>5, <2>1
  <2>2. CASE e # p /\ g = p
    <3>1. e = f
      BY <1>3, <1>4, <1>5, <2>2, Parameters DEF PInv, PartnerOnce
    <3> QED BY <1>4, <1>3, <2>2, <3>1
  <2>3. CASE e # p /\ g # p
    BY <1>3, <1>4, <2>3 DEF PInv, PartnersAgree
  <2> QED BY <2>1, <2>2, <2>3
<1>21. TargetKnown' /\ AnswerIsOwn'
  BY <1>4 DEF PInv, TargetKnown, AnswerIsOwn, poolVars
<1>22. PartnerKnown'
  <2> SUFFICES ASSUME NEW q \in Passives PROVE Knows(q)'
    BY DEF PartnerKnown
  <2>1. q \in Endpoints
    BY Parameters
  <2>2. CASE q = p
    <3>1. pc'[p] = "remove" /\ partner'[p] = f /\ data'[p] = b
      BY <1>3, <1>4
    <3>2. Gave(f, b)'
      BY <1>5, <1>7, Parameters
    <3>3. Gave(partner[p], data[p])'
      BY <3>1, <3>2 DEF Gave
    <3>4. peer'[p] = Home[partner'[p]] /\ partner'[p] # None /\ ~connected'[p]
      BY <1>3, <1>4, <1>5, <3>1, Parameters DEF linkVars
    <3> QED BY <2>2, <3>1, <3>3, <3>4 DEF Knows, Done
  <2>3. CASE q # p
    <3>1. data'[q] = data[q] /\ pc'[q] = pc[q] /\ partner'[q] = partner[q]
      BY <1>3, <1>4, <2>1, <2>3
    <3> QED BY <1>4, <1>7, <3>1, KnowsStays DEF poolVars, linkVars
  <2> QED BY <2>2, <2>3
<1> QED
  BY <1>12, <1>15, <1>16, <1>17, <1>18, <1>19, <1>20, <1>21, <1>22 DEF PInv

-----------------------------------------------------------------------------
\* Initially no request, no answer and no partner is there.
LEMMA InitPartners == Init => PInv
<1> SUFFICES ASSUME Init PROVE PInv
  OBVIOUS
<1>1. IInv
  BY InitInv
<1>2. /\ \A m \in Nodes : connreq[m] = <<>> /\ requests[m] = <<>> /\ answers[m] = <<>>
      /\ \A e \in Endpoints : pc[e] \in {"idle", "closed"} /\ partner[e] = None /\ ~connected[e]
      /\ \A a \in Actives : peer[a] = Target[a]
  BY Parameters DEF Init
<1>3. /\ \A m \in Nodes : MailLen(m) = 0 /\ ~HasAnswer(m) /\ ~IsAnswered(m)
      /\ \A p \in Endpoints : ~Serving(p)
  <2>0. \A t : t = <<>> => Len(t) = 0
    OBVIOUS
  <2>1. ASSUME NEW m \in Nodes PROVE MailLen(m) = 0
    <3>1. Len(connreq[m]) = 0 /\ Len(requests[m]) = 0
      BY <1>2, <2>0
    <3> QED BY <3>1 DEF MailLen
  <2>2. ASSUME NEW m \in Nodes PROVE ~HasAnswer(m) /\ ~IsAnswered(m)
    <3>1. Len(answers[m]) = 0
      BY <1>2, <2>0
    <3> QED BY <3>1 DEF HasAnswer, IsAnswered
  <2> QED BY <1>2, <2>1, <2>2 DEF Serving
<1>4. RequestersWait /\ RequestsOnce
  BY <1>3 DEF RequestersWait, RequestsOnce
<1>5. AnswersMeant
  <2>1. \A t : t = <<>> => Len(t) = 0
    OBVIOUS
  <2>2. \A m \in Nodes : Len(answers[m]) = 0
    BY <1>2, <2>1
  <2> QED BY <1>3, <2>2 DEF AnswersMeant
<1>6. Talks /\ NotYetPartner /\ PartnerOnce /\ PartnersAgree /\ TargetKnown
  BY <1>2, Parameters
     DEF Talks, Talking, NotYetPartner, Untaken, PartnerOnce, PartnersAgree, TargetKnown
<1>7. AnswerIsOwn /\ PartnerKnown
  BY <1>2, Parameters DEF AnswerIsOwn, PartnerKnown, Knows
<1> QED
  BY <1>1, <1>4, <1>5, <1>6, <1>7 DEF PInv

\* A step that moves one endpoint along keeps the whole invariant.
LEMMA MovedKeeps ==
  ASSUME PInv, IInv', NEW e \in Endpoints, Moves(e) /\ AnswerIsOwn' /\ PartnerKnown'
  PROVE  PInv'
BY MovesKeep DEF PInv

\* Every step keeps the invariant of the partners.
LEMMA StepPartners == PInv /\ [Next]_vars => PInv'
<1> SUFFICES ASSUME PInv, [Next]_vars PROVE PInv'
  OBVIOUS
<1>0. IInv'
  BY StepInv DEF PInv
<1>1. ASSUME NEW n \in Nodes, Listen(n) PROVE PInv'
  BY <1>0, <1>1, StillKeeps DEF Listen
<1>2. ASSUME NEW n \in Nodes, ProgressPep(n) PROVE PInv'
  BY <1>0, <1>2, ProgressPepKeeps
<1>3. ASSUME NEW a \in Actives, Connect(a) PROVE PInv'
  BY <1>0, <1>3, ConnectKeeps, MovedKeeps, Parameters
<1>4. ASSUME NEW a \in Actives, SendRequest(a) PROVE PInv'
  BY <1>0, <1>4, SendRequestKeeps
<1>5. ASSUME NEW p \in Passives, OpenPassive(p) PROVE PInv'
  BY <1>0, <1>5, OpenPassiveKeeps
<1>6. ASSUME NEW p \in Passives, Accept(p) PROVE PInv'
  BY <1>0, <1>6, AcceptKeeps, MovedKeeps, Parameters
<1>7. ASSUME NEW e \in Endpoints, ChooseBuffer(e) PROVE PInv'
  BY <1>0, <1>7, ChooseKeeps, MovedKeeps
<1>8. ASSUME NEW e \in Endpoints, ReserveBuffer(e) PROVE PInv'
  BY <1>0, <1>8, ReserveKeeps, MovedKeeps
<1>9. ASSUME NEW e \in Endpoints, SendAnswer(e) PROVE PInv'
  BY <1>0, <1>9, PassiveAnswerKeeps, ActiveAnswerKeeps DEF Endpoints
<1>10. ASSUME NEW e \in Endpoints, TakeAnswer(e) PROVE PInv'
  BY <1>0, <1>10, PassiveTakeKeeps, ActiveTakeKeeps DEF Endpoints
<1>11. ASSUME NEW e \in Endpoints, RemoveInterrupt(e) PROVE PInv'
  BY <1>0, <1>11, RemoveKeeps, MovedKeeps
<1>12. ASSUME NEW e \in Endpoints, ConnectMsg(e) PROVE PInv'
  BY <1>0, <1>12, ConnectMsgKeeps, MovedKeeps
<1>13. ASSUME NEW e \in Endpoints, Disconnect(e) PROVE PInv'
  BY <1>0, <1>13, DisconnectKeeps, MovedKeeps
<1>14. ASSUME NEW e \in Endpoints, Close(e) PROVE PInv'
  BY <1>0, <1>14, CloseKeeps, MovedKeeps
<1>15. ASSUME NEW e \in Endpoints, FailureNext(e) PROVE PInv'
  BY <1>0, <1>15, FailureKeeps, MovedKeeps
<1>16. CASE UNCHANGED vars
  BY <1>0, <1>16, StillKeeps DEF vars
<1> QED
  BY <1>1, <1>2, <1>3, <1>4, <1>5, <1>6, <1>7, <1>8, <1>9, <1>10, <1>11, <1>12, <1>13, <1>14,
     <1>15, <1>16 DEF Next, HandshakeNext

-----------------------------------------------------------------------------
\* The answers to all endpoints of a node go to the same interrupt, and still
\* who takes an answer is who it was meant for: of two endpoints that each took
\* an answer, each took the other's, or neither did.
THEOREM PartnersMatch == Spec => []PartnersAgree
<1>1. PInv => PartnersAgree
  BY DEF PInv
<1>. QED
  BY <1>1, InitPartners, StepPartners, PTL DEF Spec

\* The buffer an accepting endpoint is connected to is that of its partner, or
\* of nobody once that one is closed; it is never the buffer of a third.
THEOREM PassiveSideMaps == Spec => []PassiveMapsItsPartner
<1>1. PInv => PassiveMapsItsPartner
  <2> SUFFICES ASSUME PInv, NEW p \in Passives, connected[p]
               PROVE  /\ maps[p].node = Home[partner[p]]
                      /\ buffer[partner[p]] \in {0, maps[p].buffer}
                      /\ \A g \in Endpoints \ {partner[p]} :
                           Home[g] = maps[p].node => buffer[g] # maps[p].buffer
    BY DEF PassiveMapsItsPartner, MapsItsPartner
  <2>1. Knows(p) /\ pc[p] = "ready"
    BY DEF PInv, PartnerKnown, Knows
  <2>2. /\ maps[p].node = peer[p] /\ maps[p].buffer = data[p]
        /\ peer[p] = Home[partner[p]] /\ Gave(partner[p], data[p])
    BY <2>1 DEF Knows
  <2> QED BY <2>2 DEF Gave
<1>. QED
  BY <1>1, InitPartners, StepPartners, PTL DEF Spec

=============================================================================
