--------------------------- MODULE TrainingProofs ---------------------------
(***************************************************************************)
(* Theorems about Training, for every value of the constants.              *)
(***************************************************************************)
EXTENDS Training, TLAPS

\* A connection is new, waits in the backlog once, or is in at most one slot.
ConnectionsOK ==
  /\ \A w \in Workers : wpc[w] = "idle" => peer[w] = "none"
  /\ \A w \in Workers : peer[w] = "none" => ~ hungup[w]
  /\ \A n \in DOMAIN backlog : peer[backlog[n]] # "none"
  /\ \A m, n \in DOMAIN backlog : backlog[m] = backlog[n] => m = n

\* select() reported nothing but open descriptors.
ReportedOK ==
  pc = "accept" => cursor = 0 /\ rset \subseteq OpenFds \cup {ListenFd}

Consistent ==
  /\ SelectCoversSlots
  /\ ConnectionsOK
  /\ ReportedOK
  /\ ReadNeverBlocks

IInv == TypeOK /\ Consistent

-----------------------------------------------------------------------------
(* Facts about the constants.                                              *)

\* The ranges of the constants and of what is defined from them.
LEMMA ConstantFacts ==
  /\ MaxWorkers \in Nat /\ MaxFeatures \in Nat /\ MaxRounds \in Nat
  /\ MaxWorkers > 0 /\ MaxFeatures > 0
  /\ NoWorker \notin Workers
  /\ Features \in [Workers -> Nat] /\ Samples \in [Workers -> Nat]
  /\ Slots \subseteq Nat /\ \A i \in Slots : i < MaxWorkers /\ i + 1 \in 0 .. MaxWorkers
  /\ Fds \subseteq Nat /\ NoFd \notin Fds /\ ListenFd \notin Fds /\ ListenFd \in Nat
  /\ Nat \subseteq Models /\ Mixed \in Models
  BY ConstantsAssumption DEF ConstantsAssumption, Slots, Fds, ListenFd, NoFd, Models, Mixed

-----------------------------------------------------------------------------
(* Families of queues.                                                     *)

\* Taking the head off one queue of a family keeps the family typed.
LEMMA Consume ==
  ASSUME NEW S, NEW T, NEW q \in [S -> Seq(T)], NEW x \in S, q[x] # <<>>
  PROVE  Head(q[x]) \in T /\ [q EXCEPT ![x] = Tail(@)] \in [S -> Seq(T)]
<1>1. Head(q[x]) \in T /\ Tail(q[x]) \in Seq(T)
  OBVIOUS
<1>2. QED
  BY <1>1

\* Appending a message to one queue of a family keeps the family typed.
LEMMA Produce ==
  ASSUME NEW S, NEW T, NEW q \in [S -> Seq(T)], NEW x \in S, NEW m \in T
  PROVE  [q EXCEPT ![x] = Append(@, m)] \in [S -> Seq(T)]
<1>1. Append(q[x], m) \in Seq(T)
  OBVIOUS
<1>2. QED
  BY <1>1

\* A queue with something appended is not empty.
LEMMA AppendNotEmpty ==
  ASSUME NEW T, NEW q \in Seq(T), NEW m \in T
  PROVE  Append(q, m) # <<>>
<1>1. Len(Append(q, m)) = Len(q) + 1 /\ Len(q) \in Nat
  OBVIOUS
<1>2. Len(Append(q, m)) # 0
  BY <1>1
<1>3. Len(<<>>) = 0
  OBVIOUS
<1>4. QED
  BY <1>2, <1>3

-----------------------------------------------------------------------------
(* The initial states.                                                     *)

\* main starts with an empty table and nobody connected: IInv holds.
LEMMA InitIInv == Init => IInv
<1> SUFFICES ASSUME Init PROVE IInv
  OBVIOUS
<1> USE ConstantFacts DEF Init, NetInit, ServerInit, WorkerInit
<1>1. NetTypeOK
  BY DEF NetTypeOK
<1>2. ServerTypeOK
  <2>1. 0 \in Models /\ 0 \in 0 .. MaxWorkers /\ 0 \in 0 .. MaxRounds /\ MaxFeatures \in 1 .. MaxFeatures
    OBVIOUS
  <2>2. weights_broadcast \in BOOLEAN
    BY Zenon
  <2>3. QED
    BY <2>1, <2>2 DEF ServerTypeOK
<1>3. WorkerTypeOK
  BY DEF WorkerTypeOK
<1>4. Active = {}
  BY DEF Active, Occupied
<1>5. SelectCoversSlots
  BY <1>4 DEF SelectCoversSlots
<1>6. ConnectionsOK
  BY DEF ConnectionsOK
<1>7. ReportedOK /\ ReadNeverBlocks
  BY <1>4 DEF ReportedOK, ReadNeverBlocks
<1>8. QED
  BY <1>1, <1>2, <1>3, <1>5, <1>6, <1>7 DEF IInv, TypeOK, Consistent

-----------------------------------------------------------------------------
(* Types are preserved: the server's steps.                                *)

\* A slot in use names a worker whose connection is open.
LEMMA SlotFacts ==
  ASSUME IInv, pc # "exited", NEW i \in Active
  PROVE  /\ i \in Slots /\ fd[i] \in Fds
         /\ who[i] \in Workers
         /\ up[who[i]] \in Seq(UpMsgs) /\ down[who[i]] \in Seq(DownMsgs)
  BY DEF IInv, TypeOK, NetTypeOK, ServerTypeOK, Consistent, SelectCoversSlots,
         Active, Occupied

\* The descriptors in use are descriptors.
LEMMA OpenFdsType ==
  ASSUME IInv
  PROVE  OpenFds \subseteq Fds
  BY DEF OpenFds, Active, Occupied, IInv, TypeOK, ServerTypeOK

\* What handle_disconnect leaves behind is well typed.
LEMMA DisconnectTypes ==
  ASSUME IInv, NEW i \in Slots, handle_disconnect(i)
  PROVE  /\ hungup' \in [Workers -> BOOLEAN]
         /\ fd' \in [Slots -> Fds \cup {NoFd}] /\ who' \in [Slots -> Workers \cup {NoWorker}]
         /\ state' \in [Slots -> 0 .. 2] /\ num_samples' \in [Slots -> Nat]
         /\ partial' \in [Slots -> BOOLEAN] /\ gradient_received' \in [Slots -> BOOLEAN]
         /\ gradients' \in [Slots -> Models]
<1> USE DEF handle_disconnect, IInv, TypeOK, NetTypeOK, ServerTypeOK
<1>1. hungup' \in [Workers -> BOOLEAN]
  OBVIOUS
<1>2. partial' \in [Slots -> BOOLEAN] /\ gradient_received' \in [Slots -> BOOLEAN]
  OBVIOUS
<1>3. fd' \in [Slots -> Fds \cup {NoFd}] /\ who' \in [Slots -> Workers \cup {NoWorker}]
  OBVIOUS
<1>4. state' \in [Slots -> 0 .. 2] /\ num_samples' \in [Slots -> Nat]
  OBVIOUS
<1>5. gradients' \in [Slots -> Models]
  OBVIOUS
<1>6. QED
  BY <1>1, <1>2, <1>3, <1>4, <1>5

\* So is what a write and the closing of all sockets leave.
LEMMA WriteTypes ==
  ASSUME IInv, NEW w \in Workers, NEW m \in DownMsgs, Write(w, m)
  PROVE  /\ down' \in [Workers -> Seq(DownMsgs)]
         /\ peer' \in [Workers -> {"none", "open", "fin", "rst"}]
<1> USE DEF IInv, TypeOK, NetTypeOK
<1>1. down' = [down EXCEPT ![w] = Append(@, m)] \/ down' = down
  BY DEF Write
<1>2. [down EXCEPT ![w] = Append(@, m)] \in [Workers -> Seq(DownMsgs)]
  BY Produce
<1>3. down' \in [Workers -> Seq(DownMsgs)]
  BY <1>1, <1>2
<1>4. QED
  BY <1>3 DEF Write

\* shutdown_server and the death of the process leave typed state.
LEMMA CloseAllTypes ==
  ASSUME IInv, CloseAll,
         outcome' \in {"running", "complete", "abandoned", "select_failed", "killed"}
  PROVE  NetTypeOK' /\ ServerTypeOK'
<1> USE ConstantFacts DEF IInv, TypeOK, NetTypeOK, ServerTypeOK, GoTo
<1>1. down' \in [Workers -> Seq(DownMsgs)]
  <2>1. PICK lost : down' = [w \in Workers |-> IF w \in lost THEN <<>> ELSE down[w]]
    BY DEF CloseAll
  <2>2. QED
    BY <2>1
<1>2. hungup' \in [Workers -> BOOLEAN]
  BY Zenon DEF CloseAll
<1>3. NetTypeOK'
  BY <1>1, <1>2 DEF CloseAll
<1>4. ServerTypeOK'
  BY DEF CloseAll, slotVars, selectVars, trainVars
<1>5. QED
  BY <1>3, <1>4

\* A message of type MSG_REGISTER carries two counts.
LEMMA RegisterFields ==
  ASSUME NEW m \in UpMsgs, m.type = "register"
  PROVE  m.nf \in Nat /\ m.ns \in Nat
<1>1. m # Fragment /\ m \notin [type : {"gradient"}, round : Nat, nf : Nat, model : Models]
  BY DEF Fragment
<1>2. QED
  BY <1>1 DEF UpMsgs

\* Each step of the server keeps every variable in its type.
LEMMA ServerTypes ==
  ASSUME IInv, ServerNext \/ ServerCrash
  PROVE  NetTypeOK' /\ ServerTypeOK'
<1> USE ConstantFacts DEF GoTo, NextSlot, IInv, TypeOK, NetTypeOK, ServerTypeOK
<1> USE DEF netVars, slotVars, selectVars, trainVars
<1>1. CASE Select
  <2>1. Ready \subseteq Fds \cup {ListenFd}
    BY OpenFdsType DEF Ready
  <2>2. QED
    BY <1>1, <2>1, SMTT(30) DEF Select
<1>2. CASE SelectFails
  BY <1>2 DEF SelectFails
<1>3. CASE Accept
  <2>1. backlog # <<>> /\ Head(backlog) \in Workers /\ Tail(backlog) \in Seq(Workers)
    BY <1>3 DEF Accept, Consistent, ReadNeverBlocks
  <2>2. PICK f \in Fds, i \in Slots :
           /\ add_worker(i, f, Head(backlog))
           /\ allset' = allset \cup {f}
           /\ maxfd' = IF f > maxfd THEN f ELSE maxfd
    BY <1>3 DEF Accept
  <2>3. fd' \in [Slots -> Fds \cup {NoFd}] /\ who' \in [Slots -> Workers \cup {NoWorker}]
    BY <2>1, <2>2 DEF add_worker
  <2>4. state' \in [Slots -> 0 .. 2] /\ num_samples' \in [Slots -> Nat]
    BY <2>2 DEF add_worker
  <2>5. partial' \in [Slots -> BOOLEAN] /\ gradient_received' \in [Slots -> BOOLEAN]
    BY <2>2, Zenon DEF add_worker
  <2>6. gradients' \in [Slots -> Models]
    BY <2>2 DEF add_worker
  <2>7. allset' \subseteq Fds \cup {ListenFd} /\ maxfd' \in Fds \cup {ListenFd}
    BY <2>2
  <2>8. pc' = "read" /\ cursor' = 0 /\ UNCHANGED <<up, down, peer, hungup, rset, trainVars, outcome>>
    BY <1>3 DEF Accept
  <2>9. ServerTypeOK'
    <3>1. /\ rset' \subseteq Fds \cup {ListenFd}
          /\ num_features' \in 1 .. MaxFeatures
          /\ current_round' \in 0 .. MaxRounds
          /\ global_weights' \in Nat
          /\ pc' = "read" /\ cursor' \in 0 .. MaxWorkers
      BY <2>8
    <3>2. weights_broadcast' \in BOOLEAN /\ outcome' = outcome
      BY <2>8, Zenon
    <3>3. QED
      BY <2>3, <2>4, <2>5, <2>6, <2>7, <3>1, <3>2
  <2>10. NetTypeOK'
    BY <1>3, <2>1, <2>8 DEF Accept
  <2>11. QED
    BY <2>9, <2>10
<1>4. CASE AcceptTableFull
  <2>1. backlog # <<>> /\ Tail(backlog) \in Seq(Workers)
    BY <1>4 DEF AcceptTableFull, Consistent, ReadNeverBlocks
  <2>2. hungup' \in [Workers -> BOOLEAN]
    BY <1>4, Zenon DEF AcceptTableFull
  <2>3. NetTypeOK'
    BY <1>4, <2>1, <2>2 DEF AcceptTableFull
  <2>4. ServerTypeOK'
    BY <1>4 DEF AcceptTableFull
  <2>5. QED
    BY <2>3, <2>4
<1>5. CASE AcceptFails
  <2>1. backlog # <<>> /\ Tail(backlog) \in Seq(Workers)
    BY <1>5 DEF AcceptFails, Consistent, ReadNeverBlocks
  <2>2. NetTypeOK'
    BY <1>5, <2>1 DEF AcceptFails
  <2>3. ServerTypeOK'
    BY <1>5 DEF AcceptFails
  <2>4. QED
    BY <2>2, <2>3
<1>6. CASE NothingToAccept
  BY <1>6 DEF NothingToAccept
<1>7. CASE ReadSkip
  BY <1>7 DEF ReadSkip
<1>8. CASE ReadIncomplete
  <2>1. cursor \in Slots /\ who[cursor] \in Workers
    BY <1>8, SlotFacts DEF ReadIncomplete, ReadingSlot
  <2>2. up' \in [Workers -> Seq(UpMsgs)]
    <3>1. /\ up[who[cursor]] # <<>>
          /\ up' = up \/ up' = [up EXCEPT ![who[cursor]] = Tail(@)]
      BY <1>8 DEF ReadIncomplete
    <3>2. [up EXCEPT ![who[cursor]] = Tail(@)] \in [Workers -> Seq(UpMsgs)]
      BY <2>1, <3>1, Consume
    <3>3. QED
      BY <3>1, <3>2
  <2>3. partial' \in [Slots -> BOOLEAN]
    BY <1>8, Zenon DEF ReadIncomplete
  <2>4. ServerTypeOK'
    BY <1>8, <2>1, <2>3 DEF ReadIncomplete
  <2>5. NetTypeOK'
    BY <1>8, <2>2 DEF ReadIncomplete
  <2>6. QED
    BY <2>4, <2>5
<1>9. CASE ReadDisconnect
  <2>1. cursor \in Active /\ cursor \in Slots /\ handle_disconnect(cursor)
    BY <1>9, SlotFacts DEF ReadDisconnect, ReadingSlot
  <2>2. OpenFds' \subseteq Fds
    <3>1. fd' \in [Slots -> Fds \cup {NoFd}]
      BY <2>1, DisconnectTypes
    <3>2. ASSUME NEW i \in Slots, fd'[i] # NoFd
          PROVE  fd'[i] \in Fds
      BY <3>1, <3>2
    <3>3. QED
      BY <3>2 DEF OpenFds, Active, Occupied
  <2>3. maxfd' \in Fds \cup {ListenFd}
    BY <1>9, <2>2 DEF ReadDisconnect, Maxima
  <2>4. QED
    BY <1>9, <2>1, <2>3, DisconnectTypes DEF ReadDisconnect
<1>10. CASE DispatchRegister
  <2> DEFINE w == who[cursor]
  <2>1. cursor \in Slots /\ w \in Workers /\ up[w] # <<>>
    BY <1>10, SlotFacts DEF DispatchRegister, ReadingSlot
  <2>2. up' \in [Workers -> Seq(UpMsgs)] /\ Head(up[w]) \in UpMsgs
    <3>1. up' = [up EXCEPT ![w] = Tail(@)]
      BY <1>10 DEF DispatchRegister
    <3>2. QED
      BY <2>1, <3>1, Consume
  <2>3. Head(up[w]).nf \in Nat /\ Head(up[w]).ns \in Nat
    <3>1. Head(up[w]).type = "register"
      BY <1>10 DEF DispatchRegister
    <3>2. QED
      BY <2>2, <3>1, RegisterFields
  <2>4. PICK m : handle_register(cursor, m) /\ m.nf \in Nat /\ m.ns \in Nat
    BY <1>10, <2>3 DEF DispatchRegister
  <2>5. num_features' \in 1 .. MaxFeatures /\ global_weights' \in Nat
    BY <2>4 DEF handle_register, ShapeOK
  <2>6. /\ hungup' \in [Workers -> BOOLEAN]
        /\ fd' \in [Slots -> Fds \cup {NoFd}] /\ who' \in [Slots -> Workers \cup {NoWorker}]
        /\ state' \in [Slots -> 0 .. 2] /\ num_samples' \in [Slots -> Nat]
        /\ partial' \in [Slots -> BOOLEAN] /\ gradient_received' \in [Slots -> BOOLEAN]
        /\ gradients' \in [Slots -> Models]
    <3>1. CASE handle_disconnect(cursor)
      BY <2>1, <3>1, DisconnectTypes
    <3>2. CASE ~ handle_disconnect(cursor)
      <4>1. /\ num_samples' = [num_samples EXCEPT ![cursor] = m.ns]
            /\ state' = [state EXCEPT ![cursor] = 1]
            /\ UNCHANGED <<hungup, fd, who, gradient_received, gradients>>
        BY <2>4, <3>2 DEF handle_register
      <4>2. partial' = [partial EXCEPT ![cursor] = FALSE]
        BY <2>4, <3>2, Zenon DEF handle_register
      <4>3. partial' \in [Slots -> BOOLEAN]
        BY <4>2, Zenon
      <4>4. state' \in [Slots -> 0 .. 2] /\ num_samples' \in [Slots -> Nat]
        <5>1. 1 \in 0 .. 2
          OBVIOUS
        <5>2. QED
          BY <2>4, <4>1, <5>1
      <4>5. QED
        BY <4>1, <4>3, <4>4
    <3>3. QED
      BY <3>1, <3>2
  <2>7. NetTypeOK'
    BY <1>10, <2>2, <2>6 DEF DispatchRegister
  <2>8. ServerTypeOK'
    BY <1>10, <2>1, <2>5, <2>6 DEF DispatchRegister
  <2>9. QED
    BY <2>7, <2>8
<1>11. CASE DispatchGradient
  <2> DEFINE w == who[cursor]
  <2>1. cursor \in Slots /\ w \in Workers /\ up[w] # <<>>
    BY <1>11, SlotFacts DEF DispatchGradient, ReadingSlot
  <2>2. up' \in [Workers -> Seq(UpMsgs)] /\ Head(up[w]) \in UpMsgs
    <3>1. up' = [up EXCEPT ![w] = Tail(@)]
      BY <1>11 DEF DispatchGradient
    <3>2. QED
      BY <2>1, <3>1, Consume
  <2>3. Head(up[w]).model \in Models
    BY <1>11, <2>2 DEF DispatchGradient, UpMsgs, Fragment
  <2>4. PICK m : handle_gradient(cursor, m) /\ m.model \in Models
    BY <1>11, <2>3 DEF DispatchGradient
  <2>5. gradients' \in [Slots -> Models]
    BY <2>4 DEF handle_gradient
  <2>6. gradient_received' \in [Slots -> BOOLEAN]
    BY <2>4, Zenon DEF handle_gradient
  <2>7. partial' \in [Slots -> BOOLEAN]
    BY <1>11, Zenon DEF DispatchGradient
  <2>8. NetTypeOK'
    BY <1>11, <2>2 DEF DispatchGradient
  <2>9. ServerTypeOK'
    BY <1>11, <2>1, <2>5, <2>6, <2>7 DEF DispatchGradient
  <2>10. QED
    BY <2>8, <2>9
<1>12. CASE ReadLoopEnds
  BY <1>12 DEF ReadLoopEnds
<1>13. CASE TrainStart
  BY <1>13 DEF TrainStart
<1>14. CASE BroadcastSend
  <2>1. cursor \in Active /\ cursor \in Slots /\ who[cursor] \in Workers
    BY <1>14, SlotFacts DEF BroadcastSend, Registered
  <2>2. Write(who[cursor], WeightsMsg(current_round, num_features, global_weights))
    BY <1>14 DEF BroadcastSend
  <2>3. WeightsMsg(current_round, num_features, global_weights) \in DownMsgs
    BY DEF WeightsMsg, DownMsgs
  <2>4. down' \in [Workers -> Seq(DownMsgs)] /\ peer' \in [Workers -> {"none", "open", "fin", "rst"}]
    BY <2>1, <2>2, <2>3, WriteTypes
  <2>5. state' \in [Slots -> 0 .. 2]
    <3>1. 2 \in 0 .. 2 /\ state' = [state EXCEPT ![cursor] = 2]
      BY <1>14 DEF BroadcastSend
    <3>2. QED
      BY <3>1
  <2>6. gradient_received' \in [Slots -> BOOLEAN]
    BY <1>14, Zenon DEF BroadcastSend
  <2>7. NetTypeOK'
    BY <1>14, <2>4 DEF BroadcastSend
  <2>8. ServerTypeOK'
    BY <1>14, <2>1, <2>5, <2>6 DEF BroadcastSend
  <2>9. QED
    BY <2>7, <2>8
<1>15. CASE BroadcastFails
  <2>1. cursor \in Slots /\ handle_disconnect(cursor)
    BY <1>15 DEF BroadcastFails, Registered, Active
  <2>2. NetTypeOK'
    BY <1>15, <2>1, DisconnectTypes DEF BroadcastFails
  <2>3. ServerTypeOK'
    BY <1>15, <2>1, DisconnectTypes DEF BroadcastFails
  <2>4. QED
    BY <2>2, <2>3
<1>16. CASE BroadcastSkip
  BY <1>16 DEF BroadcastSkip
<1>17. CASE BroadcastEnds
  <2>1. weights_broadcast' \in BOOLEAN
    BY <1>17, Zenon DEF BroadcastEnds
  <2>2. QED
    BY <1>17, <2>1, SMTT(30) DEF BroadcastEnds
<1>18. CASE Abandon
  BY <1>18 DEF Abandon
<1>19. CASE KeepWaiting
  BY <1>19 DEF KeepWaiting
<1>20. CASE Aggregate
  <2>1. PICK b \in BOOLEAN :
          /\ aggregate_and_update(b)
          /\ \/ /\ outcome' = "complete" /\ GoTo("done") /\ UNCHANGED current_round
             \/ /\ ~ check_termination(b)
                /\ current_round' = current_round + 1 /\ GoTo("bcast") /\ UNCHANGED outcome
    BY <1>20 DEF Aggregate
  <2>2. global_weights' \in Nat
    BY <2>1 DEF aggregate_and_update
  <2>3. gradient_received' \in [Slots -> BOOLEAN]
    BY <2>1, Zenon DEF aggregate_and_update
  <2>4. current_round' \in 0 .. MaxRounds
    BY <2>1 DEF check_termination
  <2>5. UNCHANGED <<netVars, fd, who, state, num_samples, partial, gradients,
                    selectVars, num_features, weights_broadcast>>
    BY <1>20 DEF Aggregate
  <2>6. NetTypeOK'
    BY <2>5
  <2>7. /\ pc' \in {"done", "bcast"} /\ cursor' \in 0 .. MaxWorkers
        /\ outcome' \in {"running", "complete", "abandoned", "select_failed", "killed"}
    BY <2>1
  <2>8. ServerTypeOK'
    BY <2>2, <2>3, <2>4, <2>5, <2>7
  <2>9. QED
    BY <2>6, <2>8
<1>21. CASE DoneSend
  <2>1. cursor \in Active /\ cursor \in Slots /\ who[cursor] \in Workers
    BY <1>21, SlotFacts DEF DoneSend, Training
  <2>2. DoneMsg(num_features, global_weights) \in DownMsgs
    BY DEF DoneMsg, DownMsgs
  <2>3. \/ Write(who[cursor], DoneMsg(num_features, global_weights))
        \/ UNCHANGED <<down, peer>>
    BY <1>21 DEF DoneSend
  <2>4. down' \in [Workers -> Seq(DownMsgs)] /\ peer' \in [Workers -> {"none", "open", "fin", "rst"}]
    BY <2>1, <2>2, <2>3, WriteTypes
  <2>5. NetTypeOK'
    BY <1>21, <2>4 DEF DoneSend
  <2>6. ServerTypeOK'
    BY <1>21, <2>1 DEF DoneSend
  <2>7. QED
    BY <2>5, <2>6
<1>22. CASE DoneSkip
  BY <1>22 DEF DoneSkip
<1>23. CASE DoneEnds
  BY <1>23 DEF DoneEnds
<1>24. CASE Shutdown
  BY <1>24, CloseAllTypes DEF Shutdown
<1>25. CASE ServerCrash
  BY <1>25, CloseAllTypes DEF ServerCrash
<1>26. QED
  BY <1>1, <1>2, <1>3, <1>4, <1>5, <1>6, <1>7, <1>8, <1>9, <1>10, <1>11, <1>12, <1>13,
     <1>14, <1>15, <1>16, <1>17, <1>18, <1>19, <1>20, <1>21, <1>22, <1>23, <1>24, <1>25
     DEF ServerNext

-----------------------------------------------------------------------------
(* Types are preserved: the workers' steps.                                *)

\* A worker that goes on keeps its program counter typed.
LEMMA ContinueTypes ==
  ASSUME IInv, NEW w \in Workers, NEW l \in {"idle", "done", "exited", "dead"} \cup Connected
  PROVE  [wpc EXCEPT ![w] = l] \in [Workers -> {"idle", "done", "exited", "dead"} \cup Connected]
  BY DEF IInv, TypeOK, WorkerTypeOK

\* A worker that closes its socket leaves typed state.
LEMMA LeaveTypes ==
  ASSUME IInv, NEW w \in Workers, NEW l \in {"done", "exited"}, Leave(w, l)
  PROVE  /\ wpc' \in [Workers -> {"idle", "done", "exited", "dead"} \cup Connected]
         /\ peer' \in [Workers -> {"none", "open", "fin", "rst"}]
<1>1. wpc' = [wpc EXCEPT ![w] = l]
  BY DEF Leave, Continue
<1>2. peer' \in [Workers -> {"none", "open", "fin", "rst"}]
  BY DEF Leave, IInv, TypeOK, NetTypeOK
<1>3. QED
  BY <1>1, <1>2, ContinueTypes

\* A write of a worker queues a message or is dropped by a closed connection.
LEMMA WorkerWriteTypes ==
  ASSUME IInv, NEW w \in Workers, NEW m \in UpMsgs, WorkerWrite(w, m)
  PROVE  up' \in [Workers -> Seq(UpMsgs)]
<1> USE DEF IInv, TypeOK, NetTypeOK
<1>1. up' = [up EXCEPT ![w] = Append(@, m)] \/ up' = up
  BY DEF WorkerWrite
<1>2. [up EXCEPT ![w] = Append(@, m)] \in [Workers -> Seq(UpMsgs)]
  BY Produce
<1>3. QED
  BY <1>1, <1>2

\* What SendRegister and SendGradient write is a message of the protocol.
LEMMA UpMsgTypes ==
  ASSUME IInv, NEW w \in Workers
  PROVE  RegisterMsg(w) \in UpMsgs /\ GradientMsg(w, wround[w], wmodel[w]) \in UpMsgs
<1> USE ConstantFacts DEF IInv, TypeOK, WorkerTypeOK
<1>1. RegisterMsg(w) \in UpMsgs
  BY DEF RegisterMsg, UpMsgs
<1>2. GradientMsg(w, wround[w], wmodel[w]) \in UpMsgs
  BY DEF GradientMsg, UpMsgs
<1>3. QED
  BY <1>1, <1>2

\* Each step of a worker keeps every variable in its type.
LEMMA WorkerTypes ==
  ASSUME IInv, NEW w \in Workers, Start(w) \/ WorkerStep(w) \/ Crash(w)
  PROVE  NetTypeOK' /\ WorkerTypeOK'
<1> USE DEF IInv, TypeOK, NetTypeOK, WorkerTypeOK, Connected
<1>1. CASE Connect(w)
  <2>1. Append(backlog, w) \in Seq(Workers)
    OBVIOUS
  <2>2. wpc' \in [Workers -> {"idle", "done", "exited", "dead"} \cup Connected]
    BY <1>1, ContinueTypes DEF Connect, Continue
  <2>3. QED
    BY <1>1, <2>1, <2>2 DEF Connect
<1>2. CASE ConnectRefused(w)
  <2>1. wpc' \in [Workers -> {"idle", "done", "exited", "dead"} \cup Connected]
    BY <1>2, ContinueTypes DEF ConnectRefused, Continue
  <2>2. QED
    BY <1>2, <2>1 DEF ConnectRefused, netVars
<1>3. CASE SendRegister(w)
  <2>1. RegisterMsg(w) \in UpMsgs
    BY UpMsgTypes
  <2>2. up' \in [Workers -> Seq(UpMsgs)]
    BY <1>3, <2>1, WorkerWriteTypes DEF SendRegister
  <2>3. wpc' \in [Workers -> {"idle", "done", "exited", "dead"} \cup Connected]
    BY <1>3, ContinueTypes DEF SendRegister, Continue
  <2>4. QED
    BY <1>3, <2>2, <2>3 DEF SendRegister
<1>4. CASE ReceiveWeights(w)
  <2>1. down[w] # <<>> /\ down' = [down EXCEPT ![w] = Tail(@)]
    BY <1>4 DEF ReceiveWeights
  <2>2. Head(down[w]) \in DownMsgs /\ down' \in [Workers -> Seq(DownMsgs)]
    BY <2>1, Consume
  <2>3. Head(down[w]).round \in Nat /\ Head(down[w]).model \in Models
    BY <1>4, <2>2, ConstantFacts DEF ReceiveWeights, DownMsgs
  <2>4. wround' \in [Workers -> Nat] /\ wmodel' \in [Workers -> Models]
    BY <1>4, <2>3, ConstantFacts DEF ReceiveWeights
  <2>5. wpc' \in [Workers -> {"idle", "done", "exited", "dead"} \cup Connected]
    BY <1>4, ContinueTypes DEF ReceiveWeights, Continue
  <2>6. QED
    BY <1>4, <2>2, <2>4, <2>5 DEF ReceiveWeights
<1>5. CASE SendGradient(w)
  <2>1. GradientMsg(w, wround[w], wmodel[w]) \in UpMsgs
    BY UpMsgTypes
  <2>2. up' \in [Workers -> Seq(UpMsgs)]
    BY <1>5, <2>1, WorkerWriteTypes DEF SendGradient
  <2>3. wpc' \in [Workers -> {"idle", "done", "exited", "dead"} \cup Connected]
    BY <1>5, ContinueTypes DEF SendGradient, Continue
  <2>4. QED
    BY <1>5, <2>2, <2>3 DEF SendGradient
<1>6. CASE WriteRefused(w)
  BY <1>6, LeaveTypes DEF WriteRefused
<1>7. CASE ReceiveDone(w)
  <2>1. down[w] # <<>> /\ down' = [down EXCEPT ![w] = Tail(@)]
    BY <1>7 DEF ReceiveDone
  <2>2. Head(down[w]) \in DownMsgs /\ down' \in [Workers -> Seq(DownMsgs)]
    BY <2>1, Consume
  <2>3. Head(down[w]).model \in Models
    BY <1>7, <2>2, ConstantFacts DEF ReceiveDone, DownMsgs
  <2>4. wmodel' \in [Workers -> Models]
    BY <1>7, <2>3 DEF ReceiveDone
  <2>5. Leave(w, "done") \/ Leave(w, "exited")
    BY <1>7 DEF ReceiveDone
  <2>6. /\ wpc' \in [Workers -> {"idle", "done", "exited", "dead"} \cup Connected]
        /\ peer' \in [Workers -> {"none", "open", "fin", "rst"}]
    BY <2>5, LeaveTypes
  <2>7. QED
    BY <1>7, <2>2, <2>4, <2>6 DEF ReceiveDone
<1>8. CASE ReadEof(w)
  BY <1>8, LeaveTypes DEF ReadEof
<1>9. CASE Crash(w)
  <2>1. wpc' \in [Workers -> {"idle", "done", "exited", "dead"} \cup Connected]
    BY <1>9, ContinueTypes DEF Crash, Continue
  <2>2. PICK end \in {"fin", "rst"} :
          /\ peer' = [peer EXCEPT ![w] = end]
          /\ \/ UNCHANGED up
             \/ WorkerWrite(w, Fragment)
             \/ \E rest \in {<<>>, <<Fragment>>} : up' = [up EXCEPT ![w] = rest]
    BY <1>9 DEF Crash
  <2>3. up' \in [Workers -> Seq(UpMsgs)]
    <3>1. Fragment \in UpMsgs
      BY DEF UpMsgs
    <3>2. <<>> \in Seq(UpMsgs) /\ <<Fragment>> \in Seq(UpMsgs)
      BY <3>1
    <3>3. CASE WorkerWrite(w, Fragment)
      BY <3>1, <3>3, WorkerWriteTypes
    <3>4. QED
      BY <2>2, <3>2, <3>3
  <2>4. peer' \in [Workers -> {"none", "open", "fin", "rst"}]
    BY <2>2
  <2>5. down' \in [Workers -> Seq(DownMsgs)]
    BY <1>9 DEF Crash
  <2>6. QED
    BY <1>9, <2>1, <2>3, <2>4, <2>5 DEF Crash
<1>10. QED
  BY <1>1, <1>2, <1>3, <1>4, <1>5, <1>6, <1>7, <1>8, <1>9 DEF Start, WorkerStep

\* Type correctness is inductive relative to IInv.
LEMMA NextTypes == IInv /\ [Next]_vars => TypeOK'
<1> SUFFICES ASSUME IInv, [Next]_vars PROVE TypeOK'
  OBVIOUS
<1>1. CASE (ServerNext \/ ServerCrash) /\ UNCHANGED workerVars
  BY <1>1, ServerTypes DEF workerVars, WorkerTypeOK, TypeOK, IInv
<1>2. ASSUME NEW w \in Workers, Start(w) \/ WorkerStep(w) \/ Crash(w), UNCHANGED serverVars
      PROVE  TypeOK'
  BY <1>2, WorkerTypes
     DEF serverVars, slotVars, selectVars, trainVars, ServerTypeOK, TypeOK, IInv
<1>3. CASE UNCHANGED vars
  BY <1>3 DEF vars, netVars, serverVars, workerVars, slotVars, selectVars, trainVars,
              NetTypeOK, ServerTypeOK, WorkerTypeOK, TypeOK, IInv
<1>4. QED
  BY <1>1, <1>2, <1>3 DEF Next

-----------------------------------------------------------------------------
(* The worker table, the connections and select()'s sets stay consistent.  *)

\* Steps that open and close nothing.
LEMMA NothingOpenedOrClosed ==
  ASSUME IInv, UNCHANGED <<fd, who, allset, maxfd, hungup, backlog>>,
         pc' # "exited" => pc # "exited",
         \A w \in Workers : peer'[w] = "none" => peer[w] = "none",
         \A w \in Workers : wpc'[w] = "idle" => wpc[w] = "idle" /\ peer'[w] = peer[w]
  PROVE  SelectCoversSlots' /\ ConnectionsOK'
<1> USE DEF IInv, Consistent, TypeOK, NetTypeOK
<1>1. \A n \in DOMAIN backlog : backlog[n] \in Workers
  OBVIOUS
<1>2. SelectCoversSlots'
  BY <1>1 DEF SelectCoversSlots, Active, Occupied
<1>3. ConnectionsOK'
  BY <1>1 DEF ConnectionsOK
<1>4. QED
  BY <1>2, <1>3

\* Closing one slot, as long as select() still watches the others.
LEMMA OneSlotClosed ==
  ASSUME IInv, pc # "exited", NEW i \in Active, handle_disconnect(i),
         UNCHANGED <<peer, backlog, wpc>>,
         \A j \in Active \ {i} : fd[j] \in allset' /\ fd[j] <= maxfd'
  PROVE  SelectCoversSlots' /\ ConnectionsOK'
<1> USE DEF IInv, Consistent, TypeOK, NetTypeOK, ServerTypeOK
<1>1. i \in Slots /\ who[i] \in Workers
  BY SlotFacts
<1>2. /\ Active' = Active \ {i}
      /\ \A j \in Active' : fd'[j] = fd[j] /\ who'[j] = who[j]
  BY <1>1 DEF handle_disconnect, Active, Occupied
<1>3. \A w \in Workers : hungup'[w] <=> hungup[w] \/ w = who[i]
  BY <1>1, Zenon DEF handle_disconnect
<1>4. \A n \in DOMAIN backlog : backlog[n] \in Workers /\ backlog[n] # who[i]
  BY DEF SelectCoversSlots
<1>5. SelectCoversSlots'
  <2>1. ASSUME NEW j \in Active'
        PROVE  /\ fd'[j] \in allset' /\ fd'[j] <= maxfd'
               /\ who'[j] \in Workers /\ peer'[who'[j]] # "none"
               /\ ~ hungup'[who'[j]]
               /\ \A k \in Active' \ {j} : fd'[j] # fd'[k] /\ who'[j] # who'[k]
    <3>1. j \in Active \ {i} /\ fd'[j] = fd[j] /\ who'[j] = who[j]
      BY <1>2, <2>1
    <3>2. who[j] \in Workers /\ who[j] # who[i] /\ ~ hungup[who[j]] /\ peer[who[j]] # "none"
      BY <3>1 DEF SelectCoversSlots
    <3>3. ~ hungup'[who[j]]
      BY <1>3, <3>2
    <3>4. \A k \in Active' \ {j} : fd'[j] # fd'[k] /\ who'[j] # who'[k]
      BY <1>2, <3>1 DEF SelectCoversSlots
    <3>5. QED
      BY <3>1, <3>2, <3>3, <3>4
  <2>2. ASSUME NEW n \in DOMAIN backlog'
        PROVE  ~ hungup'[backlog'[n]] /\ \A j \in Active' : backlog'[n] # who'[j]
    <3>1. backlog'[n] = backlog[n] /\ n \in DOMAIN backlog
      BY <2>2
    <3>2. /\ backlog[n] \in Workers /\ backlog[n] # who[i] /\ ~ hungup[backlog[n]]
          /\ \A j \in Active : backlog[n] # who[j]
      BY <1>4, <3>1 DEF SelectCoversSlots
    <3>3. QED
      BY <1>2, <1>3, <3>1, <3>2
  <2>3. QED
    BY <2>1, <2>2 DEF SelectCoversSlots
<1>6. ConnectionsOK'
  BY <1>1, <1>3, <1>4 DEF ConnectionsOK, SelectCoversSlots
<1>7. QED
  BY <1>5, <1>6

\* Closing everything.
LEMMA AllClosed ==
  ASSUME IInv, pc # "exited", CloseAll, UNCHANGED wpc
  PROVE  SelectCoversSlots' /\ ConnectionsOK'
<1> USE DEF IInv, Consistent, TypeOK, NetTypeOK
<1> DEFINE closed == {who[i] : i \in Active} \cup {backlog[n] : n \in DOMAIN backlog}
<1>1. \A w \in Workers : hungup'[w] => hungup[w] \/ w \in closed
  BY DEF CloseAll
<1>2. \A w \in closed : peer[w] # "none"
  BY DEF SelectCoversSlots, ConnectionsOK
<1>3. backlog' = <<>> /\ peer' = peer /\ pc' = "exited"
  BY DEF CloseAll, GoTo
<1>4. ASSUME NEW w \in Workers, peer'[w] = "none"
      PROVE  ~ hungup'[w]
  BY <1>1, <1>2, <1>3, <1>4 DEF ConnectionsOK
<1>5. DOMAIN backlog' = {}
  BY <1>3
<1>6. \A w \in Workers : wpc'[w] = "idle" => peer'[w] = "none"
  BY <1>3 DEF ConnectionsOK
<1>7. ConnectionsOK'
  BY <1>4, <1>5, <1>6 DEF ConnectionsOK
<1>8. QED
  BY <1>3, <1>7 DEF SelectCoversSlots

\* accept() takes the oldest connection out of the backlog.
LEMMA BacklogTail ==
  ASSUME IInv, backlog # <<>>
  PROVE  /\ Head(backlog) \in Workers
         /\ DOMAIN Tail(backlog) \subseteq Nat
         /\ \A n \in DOMAIN Tail(backlog) :
              /\ n + 1 \in DOMAIN backlog
              /\ Tail(backlog)[n] = backlog[n + 1]
              /\ Tail(backlog)[n] \in Workers /\ Tail(backlog)[n] # Head(backlog)
<1> USE DEF IInv, Consistent, TypeOK, NetTypeOK
<1>1. /\ Head(backlog) = backlog[1] /\ 1 \in DOMAIN backlog /\ Head(backlog) \in Workers
      /\ DOMAIN Tail(backlog) = 1 .. Len(backlog) - 1
      /\ DOMAIN backlog = 1 .. Len(backlog) /\ Len(backlog) \in Nat
      /\ \A n \in DOMAIN backlog : backlog[n] \in Workers
  OBVIOUS
<1>2. ASSUME NEW n \in DOMAIN Tail(backlog)
      PROVE  n + 1 \in DOMAIN backlog /\ Tail(backlog)[n] = backlog[n + 1] /\ n + 1 # 1
  BY <1>1, <1>2
<1>3. ASSUME NEW n \in DOMAIN Tail(backlog)
      PROVE  Tail(backlog)[n] \in Workers /\ Tail(backlog)[n] # Head(backlog)
  <2>1. backlog[n + 1] = backlog[1] => n + 1 = 1
    BY <1>1, <1>2, <1>3 DEF ConnectionsOK
  <2>2. QED
    BY <1>1, <1>2, <1>3, <2>1
<1>4. QED
  BY <1>1, <1>2, <1>3

\* Accept puts a fresh descriptor and the head of the backlog into a slot.
LEMMA AcceptConsistent ==
  ASSUME IInv, Accept, UNCHANGED wpc
  PROVE  SelectCoversSlots' /\ ConnectionsOK' /\ ReadNeverBlocks'
<1> USE DEF IInv, Consistent, TypeOK, NetTypeOK, ServerTypeOK
<1> DEFINE v == Head(backlog)
<1>1. pc = "accept" /\ backlog # <<>> /\ ListenFd \in rset
  BY DEF Accept, ReadNeverBlocks
<1>2. PICK f \in Fds, i \in Slots :
        /\ f \notin OpenFds /\ add_worker(i, f, v)
        /\ allset' = allset \cup {f}
        /\ maxfd' = IF f > maxfd THEN f ELSE maxfd
  BY DEF Accept
<1>3. /\ backlog' = Tail(backlog) /\ pc' = "read" /\ cursor' = 0
      /\ UNCHANGED <<up, peer, hungup, rset>>
  BY DEF Accept, GoTo
<1>4. f \in Nat /\ f # NoFd /\ maxfd \in Nat /\ maxfd' \in Nat /\ maxfd <= maxfd' /\ f <= maxfd'
  BY <1>2, ConstantFacts
<1>5. /\ i \notin Active /\ Active' = Active \cup {i}
      /\ fd'[i] = f /\ who'[i] = v
      /\ \A j \in Active : fd'[j] = fd[j] /\ who'[j] = who[j]
  BY <1>2, <1>4 DEF add_worker, Active, Occupied
<1>6. /\ v \in Workers /\ ~ hungup[v] /\ peer[v] # "none"
      /\ \A j \in Active : who[j] # v
  <2>1. 1 \in DOMAIN backlog /\ v = backlog[1]
    BY <1>1
  <2>2. QED
    BY <1>1, <2>1, BacklogTail DEF SelectCoversSlots, ConnectionsOK
<1>7. \A j \in Active : fd[j] # f /\ fd[j] \in Nat
  BY <1>1, <1>2, SlotFacts, ConstantFacts DEF OpenFds
<1>8. SelectCoversSlots'
  <2>1. ASSUME NEW j \in Active'
        PROVE  /\ fd'[j] \in allset' /\ fd'[j] <= maxfd'
               /\ who'[j] \in Workers /\ ~ hungup'[who'[j]] /\ peer'[who'[j]] # "none"
               /\ \A k \in Active' \ {j} : fd'[j] # fd'[k] /\ who'[j] # who'[k]
    <3>1. CASE j = i
      BY <1>2, <1>3, <1>4, <1>5, <1>6, <1>7, <3>1
    <3>2. CASE j # i
      <4>1. /\ j \in Active /\ fd'[j] = fd[j] /\ who'[j] = who[j]
        BY <1>5, <2>1, <3>2
      <4>2. /\ fd[j] \in allset /\ fd[j] <= maxfd /\ fd[j] \in Nat
            /\ who[j] \in Workers /\ ~ hungup[who[j]] /\ peer[who[j]] # "none"
        BY <1>1, <1>7, <4>1 DEF SelectCoversSlots
      <4>3. \A k \in Active' \ {j} : fd'[j] # fd'[k] /\ who'[j] # who'[k]
        BY <1>1, <1>5, <1>6, <1>7, <4>1 DEF SelectCoversSlots
      <4>4. QED
        BY <1>2, <1>3, <1>4, <4>1, <4>2, <4>3
    <3>3. QED
      BY <3>1, <3>2
  <2>2. ASSUME NEW n \in DOMAIN backlog'
        PROVE  ~ hungup'[backlog'[n]] /\ \A j \in Active' : backlog'[n] # who'[j]
    <3>1. /\ n + 1 \in DOMAIN backlog /\ backlog'[n] = backlog[n + 1]
          /\ backlog'[n] # v
      BY <1>1, <1>3, <2>2, BacklogTail
    <3>2. ~ hungup[backlog[n + 1]] /\ \A j \in Active : backlog[n + 1] # who[j]
      BY <1>1, <3>1 DEF SelectCoversSlots
    <3>3. QED
      BY <1>3, <1>5, <3>1, <3>2
  <2>3. QED
    BY <2>1, <2>2 DEF SelectCoversSlots
<1>9. ConnectionsOK'
  <2>1. ASSUME NEW n \in DOMAIN backlog'
        PROVE  peer'[backlog'[n]] # "none"
    <3>1. n + 1 \in DOMAIN backlog /\ backlog'[n] = backlog[n + 1]
      BY <1>1, <1>3, <2>1, BacklogTail
    <3>2. QED
      BY <1>3, <3>1 DEF ConnectionsOK
  <2>2. ASSUME NEW m \in DOMAIN backlog', NEW n \in DOMAIN backlog', backlog'[m] = backlog'[n]
        PROVE  m = n
    <3>1. backlog[m + 1] = backlog[n + 1] /\ m \in Nat /\ n \in Nat
          /\ m + 1 \in DOMAIN backlog /\ n + 1 \in DOMAIN backlog
      BY <1>1, <1>3, <2>2, BacklogTail
    <3>2. m + 1 = n + 1
      BY <3>1 DEF ConnectionsOK
    <3>3. QED
      BY <3>1, <3>2
  <2>3. QED
    BY <1>3, <2>1, <2>2 DEF ConnectionsOK
<1>10. ReadNeverBlocks'
  <2>1. f \notin rset
    BY <1>1, <1>2, ConstantFacts DEF ReportedOK
  <2>2. \A j \in Active : j >= cursor /\ fd[j] \in rset => Readable(who[j])
    BY <1>1 DEF ReadNeverBlocks
  <2>3. \A j \in Active : j \in Nat /\ j >= 0
    BY ConstantFacts DEF Active
  <2>4. cursor = 0
    BY <1>1 DEF ReportedOK
  <2>5. QED
    BY <1>3, <1>5, <2>1, <2>2, <2>3, <2>4 DEF ReadNeverBlocks, Readable
<1>11. QED
  BY <1>8, <1>9, <1>10

\* The other two ways to take a connection out of the backlog.
LEMMA BacklogShrinks ==
  ASSUME IInv, pc # "exited", backlog # <<>>, backlog' = Tail(backlog),
         UNCHANGED <<fd, who, allset, maxfd, peer, wpc>>,
         \A w \in Workers : hungup'[w] => hungup[w] \/ w = Head(backlog)
  PROVE  SelectCoversSlots' /\ ConnectionsOK'
<1> USE DEF IInv, Consistent, TypeOK, NetTypeOK
<1> DEFINE v == Head(backlog)
<1>1. 1 \in DOMAIN backlog /\ v = backlog[1]
  OBVIOUS
<1>2. v \in Workers /\ peer[v] # "none" /\ \A j \in Active : who[j] # v
  BY <1>1 DEF SelectCoversSlots, ConnectionsOK
<1>3. Active' = Active
  BY DEF Active, Occupied
<1>4. ASSUME NEW n \in DOMAIN backlog'
      PROVE  /\ n + 1 \in DOMAIN backlog /\ backlog'[n] = backlog[n + 1] /\ n \in Nat
             /\ backlog'[n] \in Workers /\ backlog'[n] # v
  BY <1>4, BacklogTail
<1>5. \A j \in Active : who[j] \in Workers /\ ~ hungup[who[j]]
  BY DEF SelectCoversSlots
<1>6. \A j \in Active : ~ hungup'[who[j]]
  BY <1>2, <1>5
<1>7. \A n \in DOMAIN backlog' : ~ hungup'[backlog'[n]]
  BY <1>4 DEF SelectCoversSlots
<1>8. \A n \in DOMAIN backlog' : \A j \in Active : backlog'[n] # who[j]
  BY <1>4 DEF SelectCoversSlots
<1>9. SelectCoversSlots'
  BY <1>3, <1>6, <1>7, <1>8 DEF SelectCoversSlots
<1>10. \A m, n \in DOMAIN backlog' : backlog'[m] = backlog'[n] => m = n
  <2>1. ASSUME NEW m \in DOMAIN backlog', NEW n \in DOMAIN backlog', backlog'[m] = backlog'[n]
        PROVE  m = n
    <3>1. /\ m \in Nat /\ n \in Nat /\ backlog[m + 1] = backlog[n + 1]
          /\ m + 1 \in DOMAIN backlog /\ n + 1 \in DOMAIN backlog
      BY <1>4, <2>1
    <3>2. m + 1 = n + 1
      BY <3>1 DEF ConnectionsOK
    <3>3. QED
      BY <3>1, <3>2
  <2>2. QED
    BY <2>1
<1>11. ConnectionsOK'
  BY <1>2, <1>4, <1>10 DEF ConnectionsOK
<1>12. QED
  BY <1>9, <1>11

\* The loop over the slots goes on: nothing is opened, and only the slot it
\* leaves behind is read from or closed.
LEMMA ReadingGoesOn ==
  ASSUME IInv, pc = "read", cursor \in Slots, NextSlot, UNCHANGED <<rset, peer>>,
         Active' \subseteq Active,
         \A j \in Active' : fd'[j] = fd[j] /\ who'[j] = who[j],
         \A j \in Active' \ {cursor} : up'[who[j]] = up[who[j]]
  PROVE  ReadNeverBlocks'
<1>1. cursor' = cursor + 1 /\ pc' = "read" /\ cursor \in Nat
  BY ConstantFacts DEF NextSlot
<1>2. ASSUME NEW j \in Active', j >= cursor', fd'[j] \in rset'
      PROVE  Readable(who[j])'
  <2>1. j \in Active /\ j \in Nat /\ j # cursor /\ j >= cursor
    BY <1>1, <1>2, ConstantFacts DEF Active
  <2>2. Readable(who[j])
    BY <1>2, <2>1 DEF IInv, Consistent, ReadNeverBlocks
  <2>3. up'[who'[j]] = up[who[j]] /\ peer'[who'[j]] = peer[who[j]]
    BY <1>2, <2>1
  <2>4. QED
    BY <1>2, <2>2, <2>3 DEF Readable
<1>3. QED
  BY <1>1, <1>2 DEF ReadNeverBlocks, Readable

\* A step that reads or closes only the slot at the cursor keeps the later ones readable.
LEMMA OnlyCursorRead ==
  ASSUME IInv, pc = "read", cursor \in Active, NextSlot, UNCHANGED <<rset, peer, fd, who>>,
         up' = up \/ up' = [up EXCEPT ![who[cursor]] = Tail(@)]
  PROVE  ReadNeverBlocks'
<1>1. cursor \in Slots /\ Active' = Active
  BY DEF Active, Occupied
<1>2. \A j \in Active \ {cursor} : who[j] \in Workers /\ who[j] # who[cursor]
  BY DEF IInv, Consistent, SelectCoversSlots
<1>3. \A j \in Active \ {cursor} : up'[who[j]] = up[who[j]]
  BY <1>2 DEF IInv, TypeOK, NetTypeOK
<1>4. QED
  BY <1>1, <1>3, ReadingGoesOn

\* Each step of the server keeps the table consistent and never reads an idle socket.
LEMMA ServerConsistent ==
  ASSUME IInv, ServerNext \/ ServerCrash, UNCHANGED workerVars
  PROVE  Consistent'
<1> USE DEF IInv, Consistent, workerVars
<1> DEFINE Kept == SelectCoversSlots' /\ ConnectionsOK'
<1> DEFINE Quiet == pc' \notin {"accept", "read"}
<1>1. Quiet => ReportedOK' /\ ReadNeverBlocks'
  BY DEF ReportedOK, ReadNeverBlocks
<1>2. ASSUME UNCHANGED <<fd, who, allset, maxfd, hungup, backlog, peer>>, pc # "exited"
      PROVE  Kept
  BY <1>2, NothingOpenedOrClosed
<1>3. CASE Select
  <2>1. Kept
    BY <1>2, <1>3 DEF Select, netVars, slotVars
  <2>2. /\ pc' = "accept" /\ cursor' = 0 /\ rset' = Ready
        /\ UNCHANGED <<up, peer, backlog, fd, who>>
    BY <1>3 DEF Select, GoTo, netVars, slotVars
  <2>3. Active' = Active /\ OpenFds' = OpenFds
    BY <2>2 DEF Active, Occupied, OpenFds
  <2>4. ReportedOK'
    BY <2>2, <2>3 DEF ReportedOK, Ready
  <2>5. ListenFd \in Ready => backlog # <<>>
    BY OpenFdsType, ConstantFacts DEF Ready
  <2>6. \A i \in Active : fd[i] \in Ready => Readable(who[i])
    <3>1. ASSUME NEW i \in Active, fd[i] \in Ready
          PROVE  Readable(who[i])
      <4>1. fd[i] # ListenFd
        BY <1>3, SlotFacts, ConstantFacts DEF Select
      <4>2. PICK j \in Active : fd[j] = fd[i] /\ Readable(who[j])
        BY <3>1, <4>1 DEF Ready
      <4>3. j = i
        BY <1>3, <4>2 DEF SelectCoversSlots, Select
      <4>4. QED
        BY <4>2, <4>3
    <3>2. QED
      BY <3>1
  <2>7. ReadNeverBlocks'
    BY <2>2, <2>3, <2>5, <2>6 DEF ReadNeverBlocks, Readable
  <2>8. QED
    BY <2>1, <2>4, <2>7
<1>4. CASE Accept
  BY <1>4, AcceptConsistent DEF Accept, GoTo, ReportedOK
<1>5. CASE AcceptTableFull
  <2>1. /\ pc = "accept" /\ backlog # <<>> /\ backlog' = Tail(backlog)
        /\ pc' = "read" /\ cursor' = cursor
        /\ UNCHANGED <<up, peer, fd, who, allset, maxfd, rset>>
    BY <1>5 DEF AcceptTableFull, GoTo, slotVars, selectVars, ReadNeverBlocks, ReportedOK
  <2>2. \A w \in Workers : hungup'[w] => hungup[w] \/ w = Head(backlog)
    BY <1>5, Zenon DEF AcceptTableFull, TypeOK, NetTypeOK
  <2>3. Kept
    BY <2>1, <2>2, BacklogShrinks
  <2>4. ReadNeverBlocks' /\ ReportedOK'
    BY <2>1 DEF ReadNeverBlocks, ReportedOK, Readable, Active, Occupied
  <2>5. QED
    BY <2>3, <2>4
<1>6. CASE AcceptFails
  <2>1. /\ pc = "accept" /\ backlog # <<>> /\ backlog' = Tail(backlog)
        /\ pc' = "read" /\ cursor' = cursor
        /\ UNCHANGED <<up, peer, hungup, fd, who, allset, maxfd, rset>>
    BY <1>6 DEF AcceptFails, GoTo, slotVars, selectVars, ReadNeverBlocks, ReportedOK
  <2>2. Kept
    BY <2>1, BacklogShrinks
  <2>3. ReadNeverBlocks' /\ ReportedOK'
    BY <2>1 DEF ReadNeverBlocks, ReportedOK, Readable, Active, Occupied
  <2>4. QED
    BY <2>2, <2>3
<1>7. CASE NothingToAccept
  <2>1. /\ pc = "accept" /\ pc' = "read" /\ cursor' = cursor
        /\ UNCHANGED <<netVars, slotVars, selectVars>>
    BY <1>7 DEF NothingToAccept, GoTo, ReportedOK
  <2>2. Kept
    BY <1>2, <2>1 DEF netVars, slotVars, selectVars
  <2>3. ReadNeverBlocks' /\ ReportedOK'
    BY <2>1 DEF ReadNeverBlocks, ReportedOK, Readable, Active, Occupied,
                netVars, slotVars, selectVars
  <2>4. QED
    BY <2>2, <2>3
<1>8. CASE ReadSkip
  <2>1. Kept
    BY <1>2, <1>8 DEF ReadSkip, netVars, slotVars, selectVars
  <2>2. ReadNeverBlocks' /\ ReportedOK'
    BY <1>8, ReadingGoesOn
       DEF ReadSkip, NextSlot, netVars, slotVars, selectVars, Active, Occupied, ReportedOK
  <2>3. QED
    BY <2>1, <2>2
<1>9. CASE ReadIncomplete
  <2>1. Kept
    BY <1>2, <1>9 DEF ReadIncomplete, ReadingSlot, selectVars
  <2>2. /\ pc = "read" /\ cursor \in Active /\ NextSlot
        /\ UNCHANGED <<rset, peer, fd, who>>
        /\ up' = up \/ up' = [up EXCEPT ![who[cursor]] = Tail(@)]
    BY <1>9 DEF ReadIncomplete, ReadingSlot, selectVars
  <2>3. ReadNeverBlocks' /\ ReportedOK'
    BY <2>2, OnlyCursorRead DEF ReportedOK, NextSlot
  <2>4. QED
    BY <2>1, <2>3
<1>10. CASE ReadDisconnect
  <2>1. /\ pc = "read" /\ cursor \in Active /\ cursor \in Slots /\ NextSlot
        /\ handle_disconnect(cursor)
        /\ UNCHANGED <<up, peer, backlog, rset>>
    BY <1>10, SlotFacts DEF ReadDisconnect, ReadingSlot
  <2>2. /\ Active' = Active \ {cursor}
        /\ \A j \in Active' : fd'[j] = fd[j] /\ who'[j] = who[j]
    BY <2>1 DEF handle_disconnect, Active, Occupied, TypeOK, ServerTypeOK
  <2>3. \A j \in Active \ {cursor} : fd[j] \in allset'
    BY <1>10, <2>1 DEF ReadDisconnect, SelectCoversSlots
  <2>4. \A j \in Active \ {cursor} : fd[j] <= maxfd'
    <3>1. CASE fd[cursor] = maxfd
      <4>1. maxfd' \in Maxima(OpenFds' \cup {ListenFd})
        BY <1>10, <3>1 DEF ReadDisconnect
      <4>2. \A j \in Active \ {cursor} : fd[j] \in OpenFds'
        BY <2>2 DEF OpenFds
      <4>3. QED
        BY <4>1, <4>2 DEF Maxima
    <3>2. CASE fd[cursor] # maxfd
      BY <1>10, <2>1, <3>2 DEF ReadDisconnect, SelectCoversSlots
    <3>3. QED
      BY <3>1, <3>2
  <2>5. Kept
    BY <2>1, <2>3, <2>4, OneSlotClosed
  <2>6. ReadNeverBlocks' /\ ReportedOK'
    BY <2>1, <2>2, ReadingGoesOn DEF ReportedOK, NextSlot
  <2>7. QED
    BY <2>5, <2>6
<1>11. CASE DispatchRegister
  <2>1. /\ pc = "read" /\ cursor \in Active /\ cursor \in Slots /\ NextSlot
        /\ up' = [up EXCEPT ![who[cursor]] = Tail(@)]
        /\ UNCHANGED <<peer, backlog, allset, rset, maxfd>>
    BY <1>11, SlotFacts DEF DispatchRegister, ReadingSlot, selectVars
  <2>2. handle_disconnect(cursor) \/ UNCHANGED <<hungup, fd, who>>
    BY <1>11 DEF DispatchRegister, handle_register
  <2>3. CASE UNCHANGED <<hungup, fd, who>>
    BY <1>2, <2>1, <2>3, OnlyCursorRead DEF ReportedOK, NextSlot
  <2>4. CASE handle_disconnect(cursor)
    <3>1. /\ Active' = Active \ {cursor}
          /\ \A j \in Active' : fd'[j] = fd[j] /\ who'[j] = who[j]
      BY <2>1, <2>4 DEF handle_disconnect, Active, Occupied, TypeOK, ServerTypeOK
    <3>2. Kept
      BY <2>1, <2>4, OneSlotClosed DEF SelectCoversSlots
    <3>3. \A j \in Active' \ {cursor} : up'[who[j]] = up[who[j]]
      BY <2>1, <3>1 DEF SelectCoversSlots, TypeOK, NetTypeOK
    <3>4. ReadNeverBlocks' /\ ReportedOK'
      BY <2>1, <3>1, <3>3, ReadingGoesOn DEF ReportedOK, NextSlot
    <3>5. QED
      BY <3>2, <3>4
  <2>5. QED
    BY <2>2, <2>3, <2>4
<1>12. CASE DispatchGradient
  <2>1. /\ pc = "read" /\ cursor \in Active /\ NextSlot
        /\ up' = [up EXCEPT ![who[cursor]] = Tail(@)]
        /\ UNCHANGED <<peer, hungup, backlog, fd, who, allset, rset, maxfd>>
    BY <1>12 DEF DispatchGradient, ReadingSlot, selectVars
  <2>2. Kept
    BY <1>2, <2>1
  <2>3. ReadNeverBlocks' /\ ReportedOK'
    BY <2>1, OnlyCursorRead DEF ReportedOK, NextSlot
  <2>4. QED
    BY <2>2, <2>3
<1>13. CASE SelectFails \/ ReadLoopEnds \/ TrainStart \/ BroadcastSkip \/ BroadcastEnds
            \/ Abandon \/ KeepWaiting \/ Aggregate \/ DoneSkip \/ DoneEnds
  <2>1. Quiet
    BY <1>13 DEF SelectFails, ReadLoopEnds, TrainStart, BroadcastSkip, BroadcastEnds,
                 Abandon, KeepWaiting, Aggregate, DoneSkip, DoneEnds, GoTo, NextSlot
  <2>2. UNCHANGED <<fd, who, allset, maxfd, hungup, backlog, peer>> /\ pc # "exited"
    BY <1>13 DEF SelectFails, ReadLoopEnds, TrainStart, BroadcastSkip, BroadcastEnds,
                 Abandon, KeepWaiting, Aggregate, DoneSkip, DoneEnds,
                 netVars, slotVars, selectVars
  <2>3. QED
    BY <1>1, <1>2, <2>1, <2>2
<1>14. CASE BroadcastSend \/ DoneSend
  <2>1. Quiet
    BY <1>14 DEF BroadcastSend, DoneSend, NextSlot
  <2>2. UNCHANGED <<fd, who, allset, maxfd, hungup, backlog>> /\ pc # "exited"
    BY <1>14 DEF BroadcastSend, DoneSend, slotVars, selectVars
  <2>3. \A w \in Workers : peer'[w] = "none" <=> peer[w] = "none"
    BY <1>14 DEF BroadcastSend, DoneSend, Write, TypeOK, NetTypeOK
  <2>4. Kept
    BY <2>2, <2>3, NothingOpenedOrClosed DEF ConnectionsOK
  <2>5. QED
    BY <1>1, <2>1, <2>4
<1>15. CASE BroadcastFails
  <2>1. Quiet /\ pc # "exited"
    BY <1>15 DEF BroadcastFails, NextSlot
  <2>2. /\ cursor \in Active /\ handle_disconnect(cursor)
        /\ UNCHANGED <<peer, backlog, allset, maxfd>>
    BY <1>15 DEF BroadcastFails, Registered, selectVars
  <2>3. Kept
    BY <2>1, <2>2, OneSlotClosed DEF SelectCoversSlots
  <2>4. QED
    BY <1>1, <2>1, <2>3
<1>16. CASE Shutdown \/ ServerCrash
  BY <1>1, <1>16, AllClosed DEF Shutdown, ServerCrash, CloseAll, GoTo
<1>17. QED
  BY <1>3, <1>4, <1>5, <1>6, <1>7, <1>8, <1>9, <1>10, <1>11, <1>12, <1>13, <1>14, <1>15, <1>16
     DEF ServerNext

\* A step of a worker keeps every readable connection readable.
LEMMA StaysReadable ==
  ASSUME IInv, NEW w \in Workers, Start(w) \/ WorkerStep(w) \/ Crash(w),
         NEW v \in Workers, peer[v] # "none", Readable(v)
  PROVE  Readable(v)'
<1> USE DEF IInv, TypeOK, NetTypeOK, Readable
<1>1. CASE Connect(w)
  BY <1>1 DEF Connect, Consistent, ConnectionsOK
<1>2. CASE ConnectRefused(w)
  BY <1>2 DEF ConnectRefused, netVars
<1>3. CASE SendRegister(w) \/ SendGradient(w)
  <2>1. PICK m \in UpMsgs : WorkerWrite(w, m) /\ peer' = peer
    BY <1>3, UpMsgTypes DEF SendRegister, SendGradient
  <2>2. up'[v] = up[v] \/ up'[v] = Append(up[v], m)
    BY <2>1 DEF WorkerWrite
  <2>3. Append(up[v], m) # <<>>
    BY AppendNotEmpty
  <2>4. QED
    BY <2>1, <2>2, <2>3
<1>4. CASE ReceiveWeights(w)
  BY <1>4 DEF ReceiveWeights
<1>5. CASE WriteRefused(w) \/ ReceiveDone(w) \/ ReadEof(w)
  BY <1>5 DEF WriteRefused, ReceiveDone, ReadEof, Leave
<1>6. CASE Crash(w)
  <2>1. PICK end \in {"fin", "rst"} : peer' = [peer EXCEPT ![w] = end]
    BY <1>6 DEF Crash
  <2>2. CASE v = w
    BY <2>1, <2>2
  <2>3. CASE v # w
    <3>1. up'[v] = up[v]
      BY <1>6, <2>3 DEF Crash, WorkerWrite
    <3>2. QED
      BY <2>1, <2>3, <3>1
  <2>4. QED
    BY <2>2, <2>3
<1>7. QED
  BY <1>1, <1>2, <1>3, <1>4, <1>5, <1>6 DEF Start, WorkerStep

\* Each step of a worker keeps the table consistent and the sockets select() reported readable.
LEMMA WorkerConsistent ==
  ASSUME IInv, NEW w \in Workers, Start(w) \/ WorkerStep(w) \/ Crash(w), UNCHANGED serverVars
  PROVE  Consistent'
<1> USE DEF IInv, Consistent
<1>1. UNCHANGED <<fd, who, allset, rset, maxfd, pc, cursor>>
  BY DEF serverVars, slotVars, selectVars
<1>2. Active' = Active /\ OpenFds' = OpenFds
  BY <1>1 DEF Active, Occupied, OpenFds
<1>3. ReportedOK'
  BY <1>1, <1>2 DEF ReportedOK
<1>4. SelectCoversSlots' /\ ConnectionsOK'
  <2>1. CASE Connect(w)
    <3>1. /\ peer[w] = "none" /\ ~ hungup[w]
          /\ \A n \in DOMAIN backlog : backlog[n] # w
          /\ pc # "exited" => \A j \in Active : who[j] # w
      BY <2>1 DEF Connect, ConnectionsOK, SelectCoversSlots
    <3>2. /\ backlog' = Append(backlog, w) /\ hungup' = hungup
          /\ peer' = [peer EXCEPT ![w] = "open"]
          /\ wpc' = [wpc EXCEPT ![w] = "connected"]
      BY <2>1 DEF Connect, Continue
    <3>3. /\ DOMAIN backlog' = DOMAIN backlog \cup {Len(backlog) + 1}
          /\ backlog'[Len(backlog) + 1] = w
          /\ \A n \in DOMAIN backlog : backlog'[n] = backlog[n] /\ backlog[n] \in Workers
      BY <3>2 DEF TypeOK, NetTypeOK
    <3>4. /\ \A v \in Workers : peer'[v] = IF v = w THEN "open" ELSE peer[v]
          /\ \A v \in Workers : wpc'[v] = IF v = w THEN "connected" ELSE wpc[v]
      BY <3>2 DEF TypeOK, NetTypeOK, WorkerTypeOK
    <3>5. ConnectionsOK'
      BY <3>1, <3>2, <3>3, <3>4 DEF ConnectionsOK
    <3>6. SelectCoversSlots'
      BY <1>1, <1>2, <3>1, <3>2, <3>3, <3>4 DEF SelectCoversSlots
    <3>7. QED
      BY <3>5, <3>6
  <2>2. CASE ~ Connect(w)
    <3>1. UNCHANGED <<hungup, backlog>>
      BY <2>2 DEF Start, WorkerStep, ConnectRefused, netVars, SendRegister, ReceiveWeights,
                  SendGradient, WriteRefused, ReceiveDone, ReadEof, Crash
    <3>2. wpc' = [wpc EXCEPT ![w] = wpc'[w]] /\ wpc'[w] # "idle"
      BY <2>2 DEF Start, WorkerStep, ConnectRefused, SendRegister, ReceiveWeights, Leave,
                  SendGradient, WriteRefused, ReceiveDone, ReadEof, Crash, Continue,
                  TypeOK, WorkerTypeOK
    <3>3. \/ peer' = peer
          \/ /\ peer' = [peer EXCEPT ![w] = peer'[w]]
             /\ peer'[w] = "none" => peer[w] = "none"
      BY <2>2 DEF Start, WorkerStep, ConnectRefused, netVars, SendRegister, ReceiveWeights,
                  Leave, SendGradient, WriteRefused, ReceiveDone, ReadEof, Crash,
                  TypeOK, NetTypeOK
    <3>4. \A v \in Workers : peer'[v] = "none" => peer[v] = "none"
      BY <3>3 DEF TypeOK, NetTypeOK
    <3>5. \A v \in Workers : wpc'[v] = "idle" => wpc[v] = "idle" /\ peer'[v] = peer[v]
      BY <3>2, <3>3 DEF TypeOK, NetTypeOK, WorkerTypeOK
    <3>6. QED
      BY <1>1, <3>1, <3>4, <3>5, NothingOpenedOrClosed
  <2>3. QED
    BY <2>1, <2>2
<1>5. ReadNeverBlocks'
  <2>1. backlog # <<>> => backlog' # <<>>
    <3>1. Append(backlog, w) # <<>>
      BY AppendNotEmpty DEF TypeOK, NetTypeOK
    <3>2. backlog' = backlog \/ backlog' = Append(backlog, w)
      BY DEF Start, WorkerStep, Connect, ConnectRefused, netVars, SendRegister,
             ReceiveWeights, SendGradient, WriteRefused, ReceiveDone, ReadEof, Crash
    <3>3. QED
      BY <3>1, <3>2
  <2>2. ASSUME pc \in {"accept", "read"}, NEW i \in Active, i >= cursor, fd[i] \in rset
        PROVE  Readable(who[i])'
    <3>1. Readable(who[i]) /\ who[i] \in Workers /\ peer[who[i]] # "none"
      BY <2>2 DEF ReadNeverBlocks, SelectCoversSlots
    <3>2. who' = who
      BY <1>1
    <3>3. QED
      BY <3>1, <3>2, StaysReadable DEF Readable
  <2>3. QED
    BY <1>1, <1>2, <2>1, <2>2 DEF ReadNeverBlocks, Readable
<1>6. QED
  BY <1>3, <1>4, <1>5

-----------------------------------------------------------------------------
(* The theorems.                                                           *)

\* A stuttering step changes nothing IInv is about.
LEMMA StutterIInv == IInv /\ UNCHANGED vars => IInv'
  BY DEF vars, netVars, serverVars, workerVars, slotVars, selectVars, trainVars,
         IInv, TypeOK, NetTypeOK, ServerTypeOK, WorkerTypeOK, Consistent,
         SelectCoversSlots, ConnectionsOK, ReportedOK, ReadNeverBlocks, Readable,
         Active, Occupied, OpenFds

\* IInv is inductive.
LEMMA NextIInv == IInv /\ [Next]_vars => IInv'
<1> SUFFICES ASSUME IInv, [Next]_vars PROVE Consistent'
  BY NextTypes DEF IInv
<1>1. CASE (ServerNext \/ ServerCrash) /\ UNCHANGED workerVars
  BY <1>1, ServerConsistent
<1>2. ASSUME NEW w \in Workers, Start(w) \/ WorkerStep(w) \/ Crash(w), UNCHANGED serverVars
      PROVE  Consistent'
  BY <1>2, WorkerConsistent
<1>3. CASE UNCHANGED vars
  BY <1>3, StutterIInv DEF IInv
<1>4. QED
  BY <1>1, <1>2, <1>3 DEF Next

\* IInv is an inductive invariant of the system.
THEOREM Invariance == Spec => []IInv
  BY InitIInv, NextIInv, PTL DEF Spec

\* Every variable keeps its type: in particular the loop index and the
\* descriptors stay in their ranges (a free descriptor is always left for
\* accept()), and current_round never passes MAX_ROUNDS.
THEOREM TypeCorrect == Spec => []TypeOK
<1>1. IInv => TypeOK
  BY DEF IInv
<1>2. QED
  BY <1>1, Invariance, PTL

\* The worker table, the kernel and select()'s bookkeeping agree: main never
\* loses sight of a connection it holds.
THEOREM TableConsistent == Spec => []SelectCoversSlots
<1>1. IInv => SelectCoversSlots
  BY DEF IInv, Consistent
<1>2. QED
  BY <1>1, Invariance, PTL

\* The single thread never blocks in accept() or in the read of
\* accumulate_read, whatever happened since select() returned.
THEOREM NeverBlocksReading == Spec => []ReadNeverBlocks
<1>1. IInv => ReadNeverBlocks
  BY DEF IInv, Consistent
<1>2. QED
  BY <1>1, Invariance, PTL
=============================================================================
