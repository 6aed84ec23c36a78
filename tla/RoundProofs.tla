----------------------------- MODULE RoundProofs -----------------------------
(***************************************************************************)
(* The rounds of Training, for every value of the constants: where the one *)
(* message of a connection can be, in every state of its slot, and what    *)
(* follows for the barrier, the gradients and the final model.             *)
(***************************************************************************)
EXTENDS TrainingProofs, FiniteSetTheorems

\* A stream that holds one message at most, and one that starts with a type.
AtMostOne(q) == q # <<>> => Tail(q) = <<>>
Holds(q, type) == q # <<>> /\ Head(q).type = type

\* What a connection and its worker agree on, whatever the server did to it:
\* one message in all is under way, and only where the worker's place in its
\* loop lets it be.
LinkOK(w) ==
  /\ AtMostOne(up[w]) /\ AtMostOne(down[w])
  /\ up[w] # <<>> => wpc[w] \notin {"idle", "connected", "computing"} /\ down[w] = <<>>
  /\ down[w] # <<>> => wpc[w] = "waiting" /\ Features[w] <= MaxFeatures
  /\ peer[w] = "open" <=> wpc[w] \in Connected
  /\ Holds(up[w], "register") => Head(up[w]) = RegisterMsg(w)
  /\ Holds(up[w], "gradient") => Head(up[w]).nf = Features[w]
  /\ Holds(up[w], "fragment") => wpc[w] \notin Connected
  /\ Holds(down[w], "done") => outcome # "running" /\ Head(down[w]).model = global_weights
  /\ wpc[w] \in {"computing", "done"} => Features[w] <= MaxFeatures
  /\ wpc[w] = "done" => outcome # "running" /\ wmodel[w] = global_weights

\* A worker the server has not heard from yet, and one with nothing under way.
Joining(w) ==
  /\ down[w] = <<>>
  /\ wpc[w] \in {"connected", "waiting", "dead"}
  /\ ~ Holds(up[w], "gradient")

AtRest(w) == up[w] = <<>> /\ down[w] = <<>> /\ wpc[w] \in {"waiting", "dead"}

\* A participant of the current round: before the broadcast reaches it nothing
\* is under way; after that its work for this round is in one place.
Participating(i, w) ==
  /\ wpc[w] \in {"waiting", "computing", "done", "dead"}
  /\ ~ Holds(up[w], "register")
  /\ Holds(down[w], "weights") => Head(down[w]).round = current_round /\ ~ gradient_received[i]
  /\ wpc[w] = "computing" => wround[w] = current_round /\ ~ gradient_received[i]
  /\ gradient_received[i] => up[w] = <<>>
  /\ AwaitsBroadcast(i) => AtRest(w) /\ ~ gradient_received[i]
  /\ outcome = "running" /\ ~ AwaitsBroadcast(i) /\ wpc[w] \in Connected
       => \/ down[w] # <<>> \/ wpc[w] = "computing"
          \/ up[w] # <<>> \/ gradient_received[i]

\* The three states of a slot in use.
SlotOK(i) ==
  /\ state[i] = 0 => Joining(who[i]) /\ ~ gradient_received[i]
  /\ state[i] = 1 => AtRest(who[i]) /\ ~ gradient_received[i]
  /\ state[i] = 2 => Participating(i, who[i])
  /\ state[i] # 0 => Features[who[i]] <= MaxFeatures

LinksOK == \A w \in Workers : LinkOK(w)
SlotsOK == pc # "exited" => \A i \in Active : SlotOK(i)
BacklogOK == \A n \in DOMAIN backlog : Joining(backlog[n])

\* When training runs, when slots take part, and who is hung up on at the end.
PhaseOK ==
  /\ outcome = "running" <=> pc \notin {"done", "shutdown", "exited"}
  /\ ~ weights_broadcast =>
       \A i \in Training : pc = "exited" \/ (pc = "bcast" /\ i < cursor)
  /\ pc = "exited" =>
       /\ backlog = <<>>
       /\ \A i \in Active : who[i] \in Workers /\ hungup[who[i]]

RoundsOK == LinksOK /\ SlotsOK /\ BacklogOK /\ PhaseOK /\ NoStaleGradient

RInv == IInv /\ RoundsOK

-----------------------------------------------------------------------------
(* Streams of at most one message.                                         *)

\* What is sent into an empty stream is alone in it.
LEMMA FirstMessage ==
  ASSUME NEW T, NEW m \in T
  PROVE  /\ Append(<<>>, m) # <<>>
         /\ Head(Append(<<>>, m)) = m /\ Tail(Append(<<>>, m)) = <<>>
  OBVIOUS

\* A stream of at most one message has length one at most, and its only
\* message is its head.
LEMMA AtMostOneMessage ==
  ASSUME NEW T, NEW q \in Seq(T), AtMostOne(q)
  PROVE  Len(q) <= 1 /\ \A n \in DOMAIN q : q # <<>> /\ q[n] = Head(q)
<1>1. CASE q = <<>>
  BY <1>1
<1>2. CASE q # <<>>
  <2>1. Len(Tail(q)) = Len(q) - 1 /\ Len(q) \in Nat /\ DOMAIN q = 1 .. Len(q) /\ Head(q) = q[1]
    BY <1>2
  <2>2. Len(<<>>) = 0
    OBVIOUS
  <2>3. Tail(q) = <<>>
    BY <1>2 DEF AtMostOne
  <2>4. Len(q) = 1
    <3>1. Len(Tail(q)) = 0
      BY <2>2, <2>3
    <3>2. QED
      BY <2>1, <3>1
  <2>5. \A n \in DOMAIN q : n = 1
    BY <2>1, <2>4
  <2>6. QED
    BY <1>2, <2>1, <2>4, <2>5
<1>3. QED
  BY <1>1, <1>2

-----------------------------------------------------------------------------
(* What a step leaves alone.                                               *)

\* The server may read or lose what is in a stream of a connection; the model is
\* only updated while nobody has finished.
LEMMA LinkStays ==
  ASSUME NEW w \in Workers, LinkOK(w),
         up'[w] = up[w] \/ up'[w] = <<>>,
         down'[w] = down[w] \/ down'[w] = <<>>,
         peer'[w] = "open" <=> peer[w] = "open",
         wpc'[w] = wpc[w], wmodel'[w] = wmodel[w],
         outcome # "running" => outcome' # "running" /\ global_weights' = global_weights
  PROVE  LinkOK(w)'
  BY DEF LinkOK, AtMostOne, Holds, RegisterMsg

\* A slot, its worker and its connection are left alone, and the broadcast
\* neither reaches the slot nor begins.
LEMMA SlotStays ==
  ASSUME NEW i, SlotOK(i),
         who'[i] = who[i], state'[i] = state[i],
         gradient_received'[i] = gradient_received[i],
         current_round' = current_round,
         outcome' = "running" => outcome = "running",
         state[i] = 2 => (AwaitsBroadcast(i)' <=> AwaitsBroadcast(i)),
         up'[who[i]] = up[who[i]], down'[who[i]] = down[who[i]],
         wpc'[who[i]] = wpc[who[i]], wround'[who[i]] = wround[who[i]]
  PROVE  SlotOK(i)'
  BY DEF SlotOK, Joining, AtRest, Participating, Holds

\* All slots and their connections are left alone.
LEMMA SlotsKept ==
  ASSUME RInv, UNCHANGED <<up, down, fd, who, state, gradient_received, current_round>>,
         UNCHANGED <<wpc, wround, wmodel>>,
         outcome' = "running" => outcome = "running",
         pc # "exited",
         \A i \in Training : AwaitsBroadcast(i)' <=> AwaitsBroadcast(i)
  PROVE  SlotsOK' /\ NoStaleGradient'
<1>1. Active' = Active
  BY DEF Active, Occupied
<1>2. ASSUME NEW i \in Active PROVE SlotOK(i)'
  <2>1. SlotOK(i) /\ (state[i] = 2 => i \in Training)
    BY <1>2 DEF RInv, RoundsOK, SlotsOK, Training
  <2>2. QED
    BY <2>1, SlotStays
<1>3. NoStaleGradient'
  BY <1>1 DEF RInv, RoundsOK, NoStaleGradient
<1>4. QED
  BY <1>1, <1>2, <1>3 DEF SlotsOK

\* The steps of main's loop that only move on: select(), accept() without a
\* slot for the connection, the ends of the loops and what they skip.
LEMMA MovesOn ==
  ASSUME RInv, UNCHANGED workerVars,
         \/ Select \/ SelectFails \/ AcceptTableFull \/ AcceptFails \/ NothingToAccept
         \/ ReadSkip \/ ReadLoopEnds \/ TrainStart \/ BroadcastSkip \/ BroadcastEnds
         \/ Abandon \/ KeepWaiting \/ DoneSkip \/ DoneEnds
  PROVE  RoundsOK'
<1> USE ConstantFacts DEF RInv, workerVars, netVars, slotVars, selectVars, trainVars, GoTo, NextSlot
<1>1. /\ UNCHANGED <<up, down, peer, fd, who, state, gradient_received>>
      /\ UNCHANGED <<current_round, global_weights>>
      /\ pc # "exited"
      /\ outcome' # outcome => outcome = "running"
  BY DEF Select, SelectFails, AcceptTableFull, AcceptFails, NothingToAccept, ReadSkip,
         ReadLoopEnds, TrainStart, BroadcastSkip, BroadcastEnds, Abandon, KeepWaiting,
         DoneSkip, DoneEnds, RoundsOK, PhaseOK
<1>2. Active' = Active /\ Training' = Training /\ Training \subseteq Slots
  BY <1>1 DEF Active, Occupied, Training
<1>3. pc' # "exited" /\ (outcome' = "running" <=> pc' \notin {"done", "shutdown", "exited"})
  BY DEF Select, SelectFails, AcceptTableFull, AcceptFails, NothingToAccept, ReadSkip,
         ReadLoopEnds, TrainStart, BroadcastSkip, BroadcastEnds, Abandon, KeepWaiting,
         DoneSkip, DoneEnds, RoundsOK, PhaseOK
<1>4. ASSUME ~ weights_broadcast', NEW i \in Training
      PROVE  pc' = "bcast" /\ i < cursor'
  <2>1. ~ BroadcastEnds /\ weights_broadcast' = weights_broadcast
    BY <1>4, Zenon DEF Select, SelectFails, AcceptTableFull, AcceptFails, NothingToAccept,
         ReadSkip, ReadLoopEnds, TrainStart, BroadcastSkip, BroadcastEnds, Abandon,
         KeepWaiting, DoneSkip, DoneEnds
  <2>2. /\ pc = "bcast" /\ i < cursor
        /\ i \in Nat /\ cursor \in Nat
    <3>1. pc = "bcast" /\ i < cursor
      BY <1>1, <1>4, <2>1, Zenon DEF RoundsOK, PhaseOK
    <3>2. i \in Nat /\ cursor \in Nat
      BY <1>2 DEF IInv, TypeOK, ServerTypeOK
    <3>3. QED
      BY <3>1, <3>2
  <2>3. BroadcastSkip
    BY <2>1, <2>2 DEF Select, SelectFails, AcceptTableFull, AcceptFails, NothingToAccept,
         ReadSkip, ReadLoopEnds, TrainStart, Abandon, KeepWaiting, DoneSkip, DoneEnds
  <2>4. QED
    BY <2>2, <2>3 DEF BroadcastSkip
<1>5. PhaseOK'
  BY <1>2, <1>3, <1>4 DEF PhaseOK
<1>6. ASSUME NEW i \in Training
      PROVE  AwaitsBroadcast(i)' <=> AwaitsBroadcast(i)
  <2>1. i \in Nat /\ i < MaxWorkers /\ cursor \in Nat
    BY <1>2, <1>6 DEF IInv, TypeOK, ServerTypeOK
  <2>2. CASE TrainStart
    <3>1. ~ EnoughWorkers
      BY <1>6, <2>2 DEF TrainStart, EnoughWorkers, RoundsOK, PhaseOK
    <3>2. QED
      BY <2>2, <3>1 DEF TrainStart, AwaitsBroadcast
  <2>3. CASE BroadcastSkip \/ DoneSkip
    <3>1. i # cursor
      BY <1>6, <2>3 DEF BroadcastSkip, DoneSkip, Registered, Training
    <3>2. QED
      BY <2>1, <2>3, <3>1 DEF BroadcastSkip, DoneSkip, AwaitsBroadcast
  <2>4. CASE BroadcastEnds \/ DoneEnds
    BY <2>1, <2>4 DEF BroadcastEnds, DoneEnds, AwaitsBroadcast
  <2>5. QED
    BY <2>2, <2>3, <2>4 DEF Select, SelectFails, AcceptTableFull, AcceptFails, NothingToAccept,
         ReadSkip, ReadLoopEnds, Abandon, KeepWaiting, AwaitsBroadcast
<1>7. SlotsOK' /\ NoStaleGradient'
  BY <1>1, <1>3, <1>6, SlotsKept
<1>8. LinksOK'
  BY <1>1, <1>3, LinkStays DEF LinksOK, RoundsOK
<1>9. BacklogOK'
  <2>1. backlog' = backlog \/ (backlog # <<>> /\ backlog' = Tail(backlog))
    BY DEF Select, SelectFails, AcceptTableFull, AcceptFails, NothingToAccept, ReadSkip,
         ReadLoopEnds, TrainStart, BroadcastSkip, BroadcastEnds, Abandon, KeepWaiting,
         DoneSkip, DoneEnds, IInv, Consistent, ReadNeverBlocks
  <2>2. ASSUME NEW n \in DOMAIN backlog'
        PROVE  \E m \in DOMAIN backlog : backlog'[n] = backlog[m]
    BY <2>1, <2>2, BacklogTail
  <2>3. QED
    BY <1>1, <2>2 DEF BacklogOK, RoundsOK, Joining
<1>10. QED
  BY <1>5, <1>7, <1>8, <1>9 DEF RoundsOK

-----------------------------------------------------------------------------
(* The steps of the server that touch one slot.                            *)

\* The gradient at the head of a slot's stream, if there is one, is wanted.
Wanted(i) ==
  Holds(up[who[i]], "gradient") =>
    /\ state[i] = 2
    /\ Head(up[who[i]]).round = current_round
    /\ ~ gradient_received[i]

\* NoStaleGradient, slot by slot.
LEMMA AllWanted == NoStaleGradient <=> \A i \in Active : Wanted(i)
  BY DEF NoStaleGradient, Wanted, Holds

\* Only slot i and the stream of its connection change.
OnlySlot(i) ==
  /\ UNCHANGED <<down, wpc, wround, wmodel, current_round>>
  /\ outcome' = outcome
  /\ \A v \in Workers \ {who[i]} : up'[v] = up[v]
  /\ up'[who[i]] = up[who[i]] \/ up'[who[i]] = <<>>
  /\ \A v \in Workers : peer'[v] = "open" <=> peer[v] = "open"
  /\ \A j \in Slots \ {i} :
       /\ fd'[j] = fd[j] /\ who'[j] = who[j] /\ state'[j] = state[j]
       /\ gradient_received'[j] = gradient_received[j]
       /\ AwaitsBroadcast(j)' <=> AwaitsBroadcast(j)

\* The other slots do not notice.
LEMMA OtherSlots ==
  ASSUME RInv, pc # "exited", NEW i \in Active, OnlySlot(i), NEW j \in Active', j # i
  PROVE  j \in Active /\ SlotOK(j)' /\ Wanted(j)'
<1>1. j \in Slots /\ j \in Active
  BY DEF OnlySlot, Active, Occupied
<1>2. who[j] \in Workers \ {who[i]}
  BY <1>1 DEF RInv, IInv, Consistent, SelectCoversSlots
<1>3. /\ up'[who[j]] = up[who[j]] /\ down'[who[j]] = down[who[j]]
      /\ wpc'[who[j]] = wpc[who[j]] /\ wround'[who[j]] = wround[who[j]]
      /\ who'[j] = who[j] /\ state'[j] = state[j]
      /\ gradient_received'[j] = gradient_received[j]
      /\ AwaitsBroadcast(j)' <=> AwaitsBroadcast(j)
      /\ outcome' = outcome /\ current_round' = current_round
  BY <1>1, <1>2 DEF OnlySlot
<1>4. SlotOK(j) /\ Wanted(j)
  BY <1>1, AllWanted DEF RInv, RoundsOK, SlotsOK
<1>5. SlotOK(j)'
  BY <1>3, <1>4, SlotStays
<1>6. Wanted(j)'
  BY <1>3, <1>4 DEF Wanted, Holds
<1>7. QED
  BY <1>1, <1>5, <1>6

\* Nor do the streams and the backlog.
LEMMA OtherLinks ==
  ASSUME RInv, pc # "exited", NEW i \in Active, OnlySlot(i), backlog' = backlog,
         outcome # "running" => global_weights' = global_weights
  PROVE  LinksOK' /\ BacklogOK'
<1>1. who[i] \in Workers
  BY SlotFacts DEF RInv
<1>2. LinksOK'
  BY <1>1, LinkStays DEF LinksOK, RInv, RoundsOK, OnlySlot
<1>3. \A n \in DOMAIN backlog : backlog[n] \in Workers \ {who[i]}
  BY DEF RInv, IInv, TypeOK, NetTypeOK, Consistent, SelectCoversSlots
<1>4. BacklogOK'
  BY <1>3 DEF BacklogOK, RInv, RoundsOK, OnlySlot, Joining, Holds
<1>5. QED
  BY <1>2, <1>4

\* A slot is cleared.
LEMMA SlotCleared ==
  ASSUME RInv, pc # "exited", pc' = pc, cursor' >= cursor, weights_broadcast' = weights_broadcast,
         cursor' \in Nat,
         NEW i \in Active, OnlySlot(i), handle_disconnect(i), backlog' = backlog,
         outcome # "running" => global_weights' = global_weights
  PROVE  RoundsOK'
<1> USE ConstantFacts
<1>1. i \in Slots /\ fd'[i] = NoFd
  BY DEF handle_disconnect, Active, RInv, IInv, TypeOK, ServerTypeOK
<1>2. i \notin Active'
  BY <1>1 DEF Active, Occupied
<1>3. \A j \in Active' : j \in Active /\ SlotOK(j)' /\ Wanted(j)'
  BY <1>2, OtherSlots
<1>4. SlotsOK' /\ NoStaleGradient'
  BY <1>3, AllWanted DEF SlotsOK, NoStaleGradient, Wanted, Holds
<1>5. PhaseOK'
  <2>1. \A j \in Training' : j \in Training /\ j \in Nat
    BY <1>2, <1>3 DEF Training, Active, OnlySlot
  <2>2. cursor \in Nat
    BY DEF RInv, IInv, TypeOK, ServerTypeOK
  <2>3. QED
    BY <2>1, <2>2 DEF PhaseOK, RInv, RoundsOK, OnlySlot
<1>6. QED
  BY <1>4, <1>5, OtherLinks DEF RoundsOK

\* A slot is read from or passed over, and stays in use.
LEMMA SlotRead ==
  ASSUME RInv, pc \notin {"bcast", "exited"}, pc' = pc, weights_broadcast' = weights_broadcast,
         NEW i \in Active, OnlySlot(i), UNCHANGED <<fd, who, backlog>>,
         global_weights' = global_weights \/ outcome = "running",
         SlotOK(i)', Wanted(i)', state'[i] = 2 => state[i] = 2
  PROVE  RoundsOK'
<1> USE ConstantFacts
<1>1. Active' = Active
  BY DEF Active, Occupied
<1>2. \A j \in Active' : SlotOK(j)' /\ Wanted(j)'
  BY OtherSlots
<1>3. SlotsOK' /\ NoStaleGradient'
  BY <1>2 DEF SlotsOK, NoStaleGradient, Wanted, Holds
<1>4. PhaseOK'
  <2>1. Training' \subseteq Training
    BY <1>1 DEF Training, Active, OnlySlot
  <2>2. QED
    BY <2>1 DEF PhaseOK, RInv, RoundsOK, OnlySlot
<1>5. QED
  BY <1>3, <1>4, OtherLinks DEF RoundsOK

\* What is known where accumulate_read is called.
LEMMA ReadingFacts ==
  ASSUME RInv, ReadingSlot
  PROVE  /\ pc = "read" /\ outcome = "running"
         /\ cursor \in Active /\ cursor \in Slots /\ cursor \in Nat
         /\ SlotOK(cursor) /\ Wanted(cursor)
         /\ who[cursor] \in Workers /\ LinkOK(who[cursor])
         /\ up[who[cursor]] \in Seq(UpMsgs)
         /\ up[who[cursor]] # <<>> =>
              LET q == [up EXCEPT ![who[cursor]] = Tail(@)] IN
              q[who[cursor]] = <<>> /\ \A v \in Workers \ {who[cursor]} : q[v] = up[v]
<1>1. pc = "read" /\ cursor \in Active /\ outcome = "running"
  BY DEF ReadingSlot, RInv, RoundsOK, PhaseOK
<1>2. /\ cursor \in Slots /\ cursor \in Nat
      /\ who[cursor] \in Workers /\ up[who[cursor]] \in Seq(UpMsgs)
  BY <1>1, SlotFacts, ConstantFacts DEF RInv
<1>3. SlotOK(cursor) /\ Wanted(cursor) /\ LinkOK(who[cursor])
  BY <1>1, <1>2, AllWanted DEF RInv, RoundsOK, SlotsOK, LinksOK
<1>4. QED
  BY <1>1, <1>2, <1>3 DEF LinkOK, AtMostOne, RInv, IInv, TypeOK, NetTypeOK

\* accumulate_read returns 0 or -1.
LEMMA ReadsNothing ==
  ASSUME RInv, UNCHANGED workerVars, ReadIncomplete \/ ReadDisconnect
  PROVE  RoundsOK'
<1> USE ConstantFacts DEF workerVars, selectVars, trainVars, NextSlot
<1>1. PICK i : i = cursor
  OBVIOUS
<1> DEFINE w == who[i]
<1>2. ReadingSlot
  BY DEF ReadIncomplete, ReadDisconnect
<1>3. CASE ReadIncomplete
  <2>1. OnlySlot(i)
    BY <1>1, <1>2, <1>3, ReadingFacts DEF ReadIncomplete, OnlySlot, AwaitsBroadcast
  <2>2. up[w] # <<>> /\ (up'[w] = up[w] \/ (up'[w] = <<>> /\ Head(up[w]) = Fragment))
    BY <1>1, <1>2, <1>3, ReadingFacts DEF ReadIncomplete
  <2>3. /\ UNCHANGED <<down, fd, who, state, gradient_received, current_round, outcome>>
        /\ UNCHANGED <<wpc, wround, weights_broadcast, global_weights, backlog, pc>>
        /\ ~ AwaitsBroadcast(i) /\ ~ AwaitsBroadcast(i)'
    BY <1>1, <1>2, <1>3, ReadingFacts DEF ReadIncomplete, AwaitsBroadcast
  <2>4. SlotOK(i)' /\ Wanted(i)'
    <3>1. CASE up'[w] = up[w]
      BY <1>1, <1>2, <2>3, <3>1, ReadingFacts, SlotStays DEF Wanted, Holds
    <3>2. CASE up'[w] = <<>> /\ Head(up[w]) = Fragment
      <4>1. wpc[w] \notin Connected
        <5>1. Holds(up[w], "fragment")
          BY <2>2, <3>2 DEF Holds, Fragment
        <5>2. QED
          BY <1>1, <1>2, <5>1, ReadingFacts DEF LinkOK
      <4>2. QED
        BY <1>1, <1>2, <2>3, <3>2, <4>1, ReadingFacts
           DEF SlotOK, Joining, AtRest, Participating, Wanted, Holds
    <3>3. QED
      BY <2>2, <3>1, <3>2
  <2>5. QED
    BY <1>1, <1>2, <2>1, <2>3, <2>4, ReadingFacts, SlotRead
<1>4. CASE ReadDisconnect
  <2>1. handle_disconnect(i)
    BY <1>1, <1>4 DEF ReadDisconnect
  <2>2. OnlySlot(i)
    BY <1>1, <1>2, <1>4, <2>1, ReadingFacts
       DEF ReadDisconnect, OnlySlot, AwaitsBroadcast, handle_disconnect, RInv, IInv, TypeOK, ServerTypeOK
  <2>3. QED
    BY <1>1, <1>2, <1>4, <2>1, <2>2, ReadingFacts, SlotCleared DEF ReadDisconnect
<1>5. QED
  BY <1>3, <1>4

\* dispatch_message: a registration is the first message of a new slot.
LEMMA RegisterFacts ==
  ASSUME RInv, DispatchRegister, NEW i, i = cursor
  PROVE  /\ handle_register(i, RegisterMsg(who[i]))
         /\ state[i] = 0 /\ ~ gradient_received[i]
         /\ up[who[i]] # <<>> /\ up'[who[i]] = <<>>
         /\ \A v \in Workers \ {who[i]} : up'[v] = up[v]
<1> DEFINE w == who[i]
<1> DEFINE m == Head(up[w])
<1>1. ReadingSlot
  BY DEF DispatchRegister
<1>2. /\ Holds(up[w], "register") /\ up'[w] = <<>>
      /\ \A v \in Workers \ {w} : up'[v] = up[v]
  BY <1>1, ReadingFacts DEF DispatchRegister, Holds
<1>3. state[i] \in 0 .. 2
  BY <1>1, ReadingFacts DEF RInv, IInv, TypeOK, ServerTypeOK
<1>4. m = RegisterMsg(w) /\ state[i] = 0 /\ ~ gradient_received[i]
  BY <1>1, <1>2, <1>3, ReadingFacts DEF LinkOK, SlotOK, AtRest, Participating, Holds
<1>5. handle_register(i, m)
  BY DEF DispatchRegister
<1>6. QED
  BY <1>2, <1>4, <1>5 DEF Holds

\* What it does to the slot.
LEMMA Registers ==
  ASSUME RInv, UNCHANGED workerVars, DispatchRegister
  PROVE  RoundsOK'
<1> USE ConstantFacts DEF workerVars, selectVars, NextSlot
<1>1. PICK i : i = cursor
  OBVIOUS
<1> DEFINE w == who[i]
<1> DEFINE m == RegisterMsg(w)
<1>2. ReadingSlot
  BY DEF DispatchRegister
<1>3. /\ up[w] # <<>> /\ up'[w] = <<>>
      /\ \A v \in Workers \ {w} : up'[v] = up[v]
  BY <1>1, RegisterFacts
<1>4. state[i] = 0 /\ ~ gradient_received[i]
  BY <1>1, RegisterFacts
<1>5. handle_register(i, m)
  BY <1>1, RegisterFacts
<1>6. /\ UNCHANGED <<down, peer, backlog, current_round, weights_broadcast, outcome, pc>>
      /\ cursor' = cursor + 1 /\ pc = "read" /\ outcome = "running"
  BY <1>2, ReadingFacts DEF DispatchRegister
<1>7. CASE handle_disconnect(i)
  <2>1. OnlySlot(i)
    BY <1>1, <1>2, <1>3, <1>6, <1>7, ReadingFacts
       DEF OnlySlot, AwaitsBroadcast, handle_disconnect, RInv, IInv, TypeOK, ServerTypeOK
  <2>2. QED
    BY <1>1, <1>2, <1>6, <1>7, <2>1, ReadingFacts, SlotCleared
<1>8. CASE ~ handle_disconnect(i)
  <2>1. /\ ShapeOK(m) /\ state' = [state EXCEPT ![i] = 1]
        /\ UNCHANGED <<fd, who, gradient_received>>
    BY <1>5, <1>8 DEF handle_register
  <2>2. i \in Slots /\ state'[i] = 1
    BY <1>1, <1>2, <2>1, ReadingFacts DEF RInv, IInv, TypeOK, ServerTypeOK
  <2>3. OnlySlot(i)
    BY <1>1, <1>2, <1>3, <1>6, <2>1, ReadingFacts
       DEF OnlySlot, AwaitsBroadcast, RInv, IInv, TypeOK, ServerTypeOK
  <2>4. Features[w] <= MaxFeatures
    BY <1>1, <1>2, <2>1, ReadingFacts DEF ShapeOK, RegisterMsg
  <2>5. AtRest(w)'
    BY <1>1, <1>2, <1>3, <1>4, <1>6, <2>1, ReadingFacts DEF AtRest, SlotOK, Joining, LinkOK
  <2>6. SlotOK(i)' /\ Wanted(i)'
    BY <1>3, <1>4, <2>1, <2>2, <2>4, <2>5 DEF SlotOK, AtRest, Wanted, Holds
  <2>7. QED
    BY <1>1, <1>2, <1>6, <2>1, <2>2, <2>3, <2>6, ReadingFacts, SlotRead
<1>9. QED
  BY <1>7, <1>8

\* dispatch_message: a gradient is the one its participant owes, and is stored.
LEMMA GradientFacts ==
  ASSUME RInv, DispatchGradient, NEW i, i = cursor
  PROVE  /\ state[i] = 2 /\ ~ gradient_received[i] /\ gradient_received'[i]
         /\ \A j \in Slots \ {i} : gradient_received'[j] = gradient_received[j]
         /\ gradients' = [gradients EXCEPT ![i] = Head(up[who[i]]).model]
         /\ Holds(up[who[i]], "gradient") /\ up'[who[i]] = <<>>
         /\ \A v \in Workers \ {who[i]} : up'[v] = up[v]
<1> DEFINE w == who[i]
<1> DEFINE m == Head(up[w])
<1>1. ReadingSlot
  BY DEF DispatchGradient
<1>2. /\ Holds(up[w], "gradient") /\ up'[w] = <<>>
      /\ \A v \in Workers \ {w} : up'[v] = up[v]
  BY <1>1, ReadingFacts DEF DispatchGradient, Holds
<1>3. state[i] = 2 /\ m.round = current_round /\ ~ gradient_received[i]
  BY <1>1, <1>2, ReadingFacts DEF Wanted
<1>4. m.nf \in 1 .. MaxFeatures
  <2>1. m.nf = Features[w] /\ Features[w] <= MaxFeatures /\ w \in Workers
    BY <1>1, <1>2, <1>3, ReadingFacts DEF LinkOK, SlotOK
  <2>2. QED
    BY <2>1, ConstantsAssumption DEF ConstantsAssumption
<1>5. /\ gradient_received' = [gradient_received EXCEPT ![i] = TRUE]
      /\ gradients' = [gradients EXCEPT ![i] = m.model]
  BY <1>3, <1>4 DEF DispatchGradient, handle_gradient
<1>6. gradient_received'[i] /\ \A j \in Slots \ {i} : gradient_received'[j] = gradient_received[j]
  <2>1. i \in Slots
    BY <1>1, ReadingFacts
  <2>2. QED
    BY <1>5, <2>1, Zenon DEF RInv, IInv, TypeOK, ServerTypeOK
<1>7. QED
  BY <1>2, <1>3, <1>5, <1>6

\* What it does to the slot.
LEMMA TakesGradient ==
  ASSUME RInv, UNCHANGED workerVars, DispatchGradient
  PROVE  RoundsOK'
<1> USE ConstantFacts DEF workerVars, selectVars, trainVars, NextSlot
<1>1. PICK i : i = cursor
  OBVIOUS
<1> DEFINE w == who[i]
<1>2. ReadingSlot
  BY DEF DispatchGradient
<1>3. /\ Holds(up[w], "gradient") /\ up'[w] = <<>>
      /\ \A v \in Workers \ {w} : up'[v] = up[v]
  BY <1>1, GradientFacts
<1>4. state[i] = 2
  BY <1>1, GradientFacts
<1>5. gradient_received'[i] /\ \A j \in Slots \ {i} : gradient_received'[j] = gradient_received[j]
  BY <1>1, GradientFacts
<1>6. /\ UNCHANGED <<down, peer, backlog, fd, who, state, current_round, global_weights>>
      /\ UNCHANGED <<weights_broadcast, outcome, pc>>
      /\ pc = "read" /\ outcome = "running"
  BY <1>2, ReadingFacts DEF DispatchGradient
<1>7. OnlySlot(i)
  BY <1>3, <1>5, <1>6 DEF OnlySlot, AwaitsBroadcast
<1>8. down[w] = <<>> /\ wpc[w] \in {"waiting", "done", "dead"} /\ Features[w] <= MaxFeatures
  BY <1>1, <1>2, <1>3, <1>4, ReadingFacts DEF LinkOK, SlotOK, Participating, Holds
<1>9. ~ AwaitsBroadcast(i)'
  BY <1>6 DEF AwaitsBroadcast
<1>10. SlotOK(i)' /\ Wanted(i)'
  BY <1>3, <1>4, <1>5, <1>6, <1>8, <1>9 DEF SlotOK, Participating, Wanted, Holds
<1>11. QED
  BY <1>1, <1>2, <1>4, <1>6, <1>7, <1>10, ReadingFacts, SlotRead

-----------------------------------------------------------------------------
(* accept(), the broadcasts, the update and the end.                       *)

\* accept() gives the oldest connection a slot.
LEMMA Accepts ==
  ASSUME RInv, UNCHANGED workerVars, Accept
  PROVE  RoundsOK'
<1> USE ConstantFacts DEF workerVars, trainVars, GoTo
<1> DEFINE v == Head(backlog)
<1>1. pc = "accept" /\ backlog # <<>> /\ v = backlog[1] /\ 1 \in DOMAIN backlog
  BY DEF Accept, RInv, IInv, Consistent, ReadNeverBlocks, TypeOK, NetTypeOK
<1>2. PICK f \in Fds, i \in Slots : add_worker(i, f, v)
  BY DEF Accept
<1>3. /\ UNCHANGED <<up, down, peer, wpc, wround, wmodel, current_round, global_weights>>
      /\ UNCHANGED <<weights_broadcast, outcome>>
      /\ pc' = "read" /\ backlog' = Tail(backlog)
  BY DEF Accept
<1>4. i \notin Active /\ Active' = Active \cup {i}
  BY <1>2 DEF add_worker, Active, Occupied, RInv, IInv, TypeOK, ServerTypeOK
<1>5. \A j \in Active : who'[j] = who[j] /\ state'[j] = state[j]
  <2>1. Active \subseteq Slots
    BY DEF Active
  <2>2. QED
    BY <1>2, <1>4, <2>1 DEF add_worker, RInv, IInv, TypeOK, ServerTypeOK
<1>6. ~ gradient_received'[i] /\ \A j \in Active : gradient_received'[j] = gradient_received[j]
  <2>1. gradient_received' = [gradient_received EXCEPT ![i] = FALSE] /\ Active \subseteq Slots
    BY <1>2 DEF add_worker, Active
  <2>2. QED
    BY <1>4, <2>1, Zenon DEF RInv, IInv, TypeOK, ServerTypeOK
<1>7. who'[i] = v /\ state'[i] = 0
  BY <1>2 DEF add_worker, RInv, IInv, TypeOK, ServerTypeOK
<1>8. Joining(v)
  BY <1>1 DEF RInv, RoundsOK, BacklogOK
<1>9. SlotOK(i)' /\ Wanted(i)'
  BY <1>3, <1>6, <1>7, <1>8 DEF SlotOK, Wanted, Joining
<1>10. ASSUME NEW j \in Active PROVE SlotOK(j)' /\ Wanted(j)'
  <2>1. SlotOK(j) /\ Wanted(j) /\ ~ AwaitsBroadcast(j) /\ ~ AwaitsBroadcast(j)'
    BY <1>1, <1>3, <1>10, AllWanted DEF RInv, RoundsOK, SlotsOK, AwaitsBroadcast
  <2>2. SlotOK(j)'
    BY <1>3, <1>5, <1>6, <2>1, SlotStays
  <2>3. QED
    BY <1>3, <1>5, <1>6, <2>1, <2>2 DEF Wanted, Holds
<1>11. SlotsOK' /\ NoStaleGradient'
  BY <1>4, <1>9, <1>10 DEF SlotsOK, NoStaleGradient, Wanted, Holds
<1>12. LinksOK'
  BY <1>3, LinkStays DEF LinksOK, RInv, RoundsOK
<1>13. BacklogOK'
  <2>1. ASSUME NEW n \in DOMAIN backlog' PROVE Joining(backlog[n + 1]) /\ backlog'[n] = backlog[n + 1]
    BY <1>1, <1>3, <2>1, BacklogTail DEF RInv, RoundsOK, BacklogOK
  <2>2. QED
    BY <1>3, <2>1 DEF BacklogOK, Joining
<1>14. PhaseOK'
  <2>1. Training' \subseteq Training
    BY <1>4, <1>5, <1>7 DEF Training
  <2>2. QED
    BY <1>1, <1>3, <2>1 DEF PhaseOK, RInv, RoundsOK
<1>15. QED
  BY <1>11, <1>12, <1>13, <1>14 DEF RoundsOK

\* A write to a participant with nothing under way: its weights for the round,
\* or MSG_DONE at the end.
LEMMA Sends ==
  ASSUME RInv, pc \in {"bcast", "done"}, pc' = pc,
         NEW i, i = cursor, cursor' = cursor + 1,
         i \in Active, state[i] # 0, AtRest(who[i]),
         UNCHANGED <<up, fd, who, backlog, wpc, wround, wmodel, current_round, global_weights>>,
         UNCHANGED <<weights_broadcast, outcome>>,
         NEW m \in DownMsgs, Write(who[i], m),
         \/ pc = "bcast" /\ m.type = "weights" /\ m.round = current_round
         \/ pc = "done" /\ state[i] = 2 /\ m.type = "done" /\ m.model = global_weights,
         state'[i] = 2, ~ gradient_received'[i],
         \A j \in Active \ {i} : /\ state'[j] = state[j]
                                 /\ gradient_received'[j] = gradient_received[j]
  PROVE  RoundsOK'
<1> USE ConstantFacts
<1> DEFINE w == who[i]
<1>1. /\ i \in Slots /\ i \in Nat /\ w \in Workers /\ pc # "exited"
      /\ Active' = Active /\ SlotOK(i) /\ LinkOK(w) /\ Features[w] <= MaxFeatures
  BY SlotFacts DEF RInv, RoundsOK, SlotsOK, LinksOK, SlotOK, Active, Occupied
<1>2. /\ \A v \in Workers : peer'[v] = "open" <=> peer[v] = "open"
      /\ \A v \in Workers \ {w} : down'[v] = down[v]
      /\ down'[w] = IF peer[w] = "open" THEN Append(<<>>, m) ELSE <<>>
  BY <1>1 DEF Write, AtRest, RInv, IInv, TypeOK, NetTypeOK
<1>3. /\ AtMostOne(down'[w])
      /\ down'[w] # <<>> <=> peer[w] = "open"
      /\ down'[w] # <<>> => Head(down'[w]) = m
  BY <1>2, FirstMessage DEF AtMostOne
<1>4. peer[w] = "open" => wpc[w] = "waiting"
  BY <1>1 DEF LinkOK, AtRest, Connected
<1>5. wpc[w] \in {"waiting", "dead"} /\ up[w] = <<>>
  BY DEF AtRest
<1>6. outcome # "running" <=> pc = "done"
  BY DEF RInv, RoundsOK, PhaseOK
<1>7. LinkOK(w)'
  <2>1. wpc[w] \in Connected <=> peer[w] = "open"
    BY <1>1 DEF LinkOK
  <2>2. QED
    BY <1>1, <1>2, <1>3, <1>4, <1>5, <1>6, <2>1 DEF LinkOK, Holds, AtMostOne
<1>8. LinksOK'
  <2>1. ASSUME NEW v \in Workers, v # w PROVE LinkOK(v)'
    BY <1>2, <2>1, LinkStays DEF LinksOK, RInv, RoundsOK
  <2>2. QED
    BY <1>7, <2>1 DEF LinksOK
<1>9. ~ AwaitsBroadcast(i)'
  BY <1>1 DEF AwaitsBroadcast
<1>10. SlotOK(i)' /\ Wanted(i)'
  <2>1. wpc[w] \in Connected => down'[w] # <<>>
    BY <1>1, <1>3 DEF LinkOK
  <2>2. QED
    BY <1>1, <1>3, <1>5, <1>6, <1>9, <2>1 DEF SlotOK, Participating, Wanted, Holds
<1>11. ASSUME NEW j \in Active, j # i PROVE SlotOK(j)' /\ Wanted(j)'
  <2>1. who[j] \in Workers /\ who[j] # w /\ j \in Nat
    BY <1>1, <1>11 DEF RInv, IInv, Consistent, SelectCoversSlots, Active
  <2>2. SlotOK(j) /\ Wanted(j)
    BY <1>1, <1>11, AllWanted DEF RInv, RoundsOK, SlotsOK
  <2>3. AwaitsBroadcast(j)' <=> AwaitsBroadcast(j)
    BY <1>1, <1>11, <2>1 DEF AwaitsBroadcast
  <2>4. state'[j] = state[j] /\ gradient_received'[j] = gradient_received[j]
    BY <1>11
  <2>5. SlotOK(j)'
    BY <1>2, <2>1, <2>2, <2>3, <2>4, SlotStays
  <2>6. Wanted(j)'
    BY <2>2, <2>4 DEF Wanted, Holds
  <2>7. QED
    BY <2>5, <2>6
<1>12. SlotsOK' /\ NoStaleGradient'
  BY <1>1, <1>10, <1>11 DEF SlotsOK, NoStaleGradient, Wanted, Holds
<1>13. BacklogOK'
  <2>1. \A n \in DOMAIN backlog : backlog[n] \in Workers \ {w}
    BY <1>1 DEF RInv, IInv, TypeOK, NetTypeOK, Consistent, SelectCoversSlots
  <2>2. QED
    BY <1>2, <2>1 DEF BacklogOK, RInv, RoundsOK, Joining
<1>14. PhaseOK'
  <2>1. ASSUME NEW j \in Training', ~ weights_broadcast' PROVE pc' = "bcast" /\ j < cursor'
    <3>1. j = i \/ j \in Training
      BY <1>1, <2>1 DEF Training
    <3>2. j \in Nat
      BY <1>1, <2>1 DEF Training, Active
    <3>3. j \in Training => pc = "bcast" /\ j < cursor
      BY <1>1, <2>1 DEF RInv, RoundsOK, PhaseOK
    <3>4. pc = "bcast"
      BY <2>1, <3>3 DEF RInv, RoundsOK, PhaseOK, Training
    <3>5. QED
      BY <1>1, <3>1, <3>2, <3>3, <3>4
  <2>2. QED
    BY <1>1, <1>6, <2>1 DEF PhaseOK
<1>15. QED
  BY <1>8, <1>12, <1>13, <1>14 DEF RoundsOK

\* Where a broadcast has come to, nothing is under way.
LEMMA BroadcastFacts ==
  ASSUME RInv, BroadcastSend \/ BroadcastFails \/ DoneSend, NEW i, i = cursor
  PROVE  /\ i \in Active /\ i \in Slots /\ i \in Nat /\ who[i] \in Workers
         /\ state[i] \in 1 .. 2 /\ pc \in {"bcast", "done"}
         /\ SlotOK(i) /\ LinkOK(who[i])
         /\ AtRest(who[i]) /\ ~ gradient_received[i]
<1> USE ConstantFacts
<1> DEFINE w == who[i]
<1>1. i \in Active /\ state[i] # 0 /\ pc \in {"bcast", "done"}
  BY DEF BroadcastSend, BroadcastFails, DoneSend, Registered, Training
<1>2. /\ i \in Slots /\ i \in Nat /\ w \in Workers /\ SlotOK(i) /\ LinkOK(w)
      /\ state[i] \in 0 .. 2
  BY <1>1, SlotFacts DEF RInv, RoundsOK, SlotsOK, LinksOK, IInv, TypeOK, ServerTypeOK
<1>3. AwaitsBroadcast(i)
  BY <1>1, <1>2 DEF AwaitsBroadcast
<1>4. AtRest(w) /\ ~ gradient_received[i]
  BY <1>1, <1>2, <1>3 DEF SlotOK, Participating
<1>5. QED
  BY <1>1, <1>2, <1>4

\* broadcast_weights and broadcast_done reach a slot, or drop it.
LEMMA Broadcasts ==
  ASSUME RInv, UNCHANGED workerVars, BroadcastSend \/ BroadcastFails \/ DoneSend
  PROVE  RoundsOK'
<1> USE ConstantFacts DEF workerVars, selectVars, trainVars, slotVars, NextSlot
<1>1. PICK i : i = cursor
  OBVIOUS
<1> DEFINE w == who[i]
<1>2. i \in Active /\ state[i] # 0 /\ pc \in {"bcast", "done"}
  BY <1>1, BroadcastFacts
<1>3. /\ i \in Slots /\ i \in Nat /\ w \in Workers /\ SlotOK(i) /\ LinkOK(w)
      /\ state[i] \in 0 .. 2
  BY <1>1, BroadcastFacts
<1>4. AtRest(w) /\ ~ gradient_received[i]
  BY <1>1, BroadcastFacts
<1>5. CASE BroadcastSend
  <2> DEFINE m == WeightsMsg(current_round, num_features, global_weights)
  <2>1. m \in DownMsgs /\ m.type = "weights" /\ m.round = current_round
    BY DEF WeightsMsg, DownMsgs, RInv, IInv, TypeOK, ServerTypeOK
  <2>2. /\ pc = "bcast" /\ pc' = pc /\ cursor' = cursor + 1 /\ Write(w, m)
        /\ UNCHANGED <<up, fd, who, backlog, wpc, wround, wmodel, current_round, global_weights>>
        /\ UNCHANGED <<weights_broadcast, outcome>>
    BY <1>1, <1>5 DEF BroadcastSend
  <2>3. state' = [state EXCEPT ![i] = 2] /\ gradient_received' = [gradient_received EXCEPT ![i] = FALSE]
    BY <1>1, <1>5 DEF BroadcastSend
  <2>4. state'[i] = 2 /\ \A j \in Active \ {i} : state'[j] = state[j]
    BY <1>3, <2>3 DEF Active, RInv, IInv, TypeOK, ServerTypeOK
  <2>5. ~ gradient_received'[i] /\ \A j \in Active \ {i} : gradient_received'[j] = gradient_received[j]
    BY <1>3, <2>3, Zenon DEF Active, RInv, IInv, TypeOK, ServerTypeOK
  <2>6. QED
    BY <1>1, <1>2, <1>4, <2>1, <2>2, <2>4, <2>5, Sends
<1>6. CASE BroadcastFails
  <2>1. handle_disconnect(i)
    BY <1>1, <1>6 DEF BroadcastFails
  <2>2. /\ UNCHANGED <<up, down, peer, backlog, wpc, wround, wmodel, current_round, global_weights>>
        /\ UNCHANGED <<weights_broadcast, outcome, pc>>
        /\ cursor' = cursor + 1 /\ cursor \in Nat
    BY <1>1, <1>3, <1>6 DEF BroadcastFails
  <2>3. \A j \in Slots \ {i} : AwaitsBroadcast(j)' <=> AwaitsBroadcast(j)
    BY <1>1, <2>2 DEF AwaitsBroadcast
  <2>4. OnlySlot(i)
    BY <1>3, <2>1, <2>2, <2>3 DEF OnlySlot, handle_disconnect, RInv, IInv, TypeOK, ServerTypeOK
  <2>5. QED
    BY <1>1, <1>2, <2>1, <2>2, <2>4, SlotCleared
<1>7. CASE DoneSend
  <2> DEFINE m == DoneMsg(num_features, global_weights)
  <2>1. m \in DownMsgs /\ m.type = "done" /\ m.model = global_weights
    BY DEF DoneMsg, DownMsgs, RInv, IInv, TypeOK, ServerTypeOK
  <2>2. /\ pc = "done" /\ pc' = pc /\ cursor' = cursor + 1 /\ state[i] = 2
        /\ UNCHANGED <<up, fd, who, backlog, wpc, wround, wmodel, current_round, global_weights>>
        /\ UNCHANGED <<weights_broadcast, outcome, state, gradient_received>>
    BY <1>1, <1>7 DEF DoneSend, Training
  <2>3. CASE Write(w, m)
    BY <1>1, <1>2, <1>4, <2>1, <2>2, <2>3, Sends
  <2>4. CASE UNCHANGED <<down, peer>>
    <3>1. /\ \A j \in Slots \ {i} : AwaitsBroadcast(j)' <=> AwaitsBroadcast(j)
          /\ ~ AwaitsBroadcast(i)'
      BY <1>1, <1>3, <2>2 DEF AwaitsBroadcast
    <3>2. OnlySlot(i)
      BY <2>2, <2>4, <3>1 DEF OnlySlot
    <3>3. SlotOK(i)' /\ Wanted(i)'
      BY <1>3, <1>4, <2>2, <2>4, <3>1
         DEF SlotOK, Participating, AtRest, Wanted, Holds, RInv, RoundsOK, PhaseOK
    <3>4. QED
      BY <1>2, <2>2, <3>2, <3>3, SlotRead
  <2>5. QED
    BY <1>1, <1>7, <2>3, <2>4 DEF DoneSend
<1>8. QED
  BY <1>5, <1>6, <1>7

\* A participant whose gradient is in has nothing under way.
LEMMA GradientIn ==
  ASSUME RInv, outcome = "running", NEW i \in Training, gradient_received[i]
  PROVE  AtRest(who[i])
<1> DEFINE w == who[i]
<1>1. pc # "exited" /\ i \in Active /\ state[i] = 2
  BY DEF RInv, RoundsOK, PhaseOK, Training
<1>2. SlotOK(i) /\ w \in Workers /\ LinkOK(w) /\ down[w] \in Seq(DownMsgs)
  BY <1>1, SlotFacts DEF RInv, RoundsOK, SlotsOK, LinksOK
<1>3. up[w] = <<>> /\ wpc[w] \in {"waiting", "dead"}
  BY <1>1, <1>2 DEF SlotOK, Participating, LinkOK
<1>4. down[w] = <<>>
  <2>1. ~ Holds(down[w], "weights") /\ ~ Holds(down[w], "done")
    BY <1>1, <1>2 DEF SlotOK, Participating, LinkOK
  <2>2. ASSUME down[w] # <<>> PROVE Head(down[w]).type \in {"weights", "done"}
    <3>1. Head(down[w]) \in DownMsgs
      BY <1>2, <2>2
    <3>2. QED
      BY <3>1 DEF DownMsgs
  <2>3. QED
    BY <2>1, <2>2 DEF Holds
<1>5. QED
  BY <1>3, <1>4 DEF AtRest

\* aggregate_and_update: the barrier has passed, so nothing is under way.
LEMMA Updates ==
  ASSUME RInv, UNCHANGED workerVars, Aggregate
  PROVE  RoundsOK'
<1> USE ConstantFacts DEF workerVars, netVars, selectVars, GoTo
<1>1. /\ pc = "check" /\ outcome = "running" /\ weights_broadcast
      /\ \A i \in Training : gradient_received[i]
  BY DEF Aggregate, all_gradients_received, RInv, RoundsOK, PhaseOK
<1>2. /\ UNCHANGED <<up, down, peer, backlog, fd, who, state, wpc, wround, wmodel>>
      /\ weights_broadcast' = weights_broadcast
      /\ gradient_received' = [i \in Slots |-> gradient_received[i] /\ i \notin Training]
      /\ cursor' = 0
      /\ \/ pc' = "done" /\ outcome' = "complete"
         \/ pc' = "bcast" /\ outcome' = "running"
  BY <1>1 DEF Aggregate, aggregate_and_update
<1>3. Active' = Active /\ Training' = Training
  BY <1>2 DEF Active, Occupied, Training
<1>4. ASSUME NEW i \in Active
      PROVE  SlotOK(i)' /\ Wanted(i)'
  <2>1. SlotOK(i) /\ Wanted(i) /\ i \in Slots /\ state[i] \in 0 .. 2
    BY <1>1, <1>4, AllWanted
       DEF RInv, RoundsOK, SlotsOK, Active, IInv, TypeOK, ServerTypeOK
  <2>2. ~ gradient_received'[i]
    <3>1. gradient_received[i] => i \in Training
      BY <1>4, <2>1 DEF SlotOK, Training
    <3>2. gradient_received'[i] <=> gradient_received[i] /\ i \notin Training
      BY <1>2, <2>1, Zenon
    <3>3. QED
      BY <3>1, <3>2
  <2>3. state[i] = 2 => AtRest(who[i])
    BY <1>1, <1>4, GradientIn DEF Training
  <2>4. AwaitsBroadcast(i)'
    BY <1>2, <2>1 DEF AwaitsBroadcast
  <2>5. QED
    BY <1>2, <2>1, <2>2, <2>3, <2>4
       DEF SlotOK, Joining, AtRest, Participating, Wanted, Holds
<1>5. SlotsOK' /\ NoStaleGradient'
  BY <1>3, <1>4 DEF SlotsOK, NoStaleGradient, Wanted, Holds
<1>6. LinksOK'
  BY <1>1, <1>2, LinkStays DEF LinksOK, RInv, RoundsOK
<1>7. BacklogOK'
  BY <1>2 DEF BacklogOK, RInv, RoundsOK, Joining
<1>8. PhaseOK'
  BY <1>1, <1>2 DEF PhaseOK
<1>9. QED
  BY <1>5, <1>6, <1>7, <1>8 DEF RoundsOK

\* The server closes every socket and exits.
LEMMA Exits ==
  ASSUME RInv, UNCHANGED workerVars, Shutdown \/ ServerCrash
  PROVE  RoundsOK'
<1> USE DEF workerVars, slotVars, selectVars, trainVars
<1>1. /\ CloseAll /\ pc # "exited" /\ outcome' # "running"
      /\ outcome # "running" => outcome' # "running"
  BY DEF Shutdown, ServerCrash, RInv, RoundsOK, PhaseOK
<1>2. /\ UNCHANGED <<up, peer, fd, who, state, gradient_received, current_round>>
      /\ UNCHANGED <<global_weights, weights_broadcast, wpc, wround, wmodel>>
      /\ pc' = "exited" /\ backlog' = <<>>
  BY <1>1 DEF CloseAll, GoTo
<1>3. \A w \in Workers : down'[w] = down[w] \/ down'[w] = <<>>
  BY <1>1 DEF CloseAll
<1>4. Active' = Active
  BY <1>2 DEF Active, Occupied
<1>5. \A i \in Active : who[i] \in Workers /\ hungup'[who[i]]
  <2>1. ASSUME NEW i \in Active PROVE hungup'[who[i]]
    BY <1>1, SlotFacts, Zenon DEF CloseAll, RInv
  <2>2. QED
    BY <1>1, <2>1, SlotFacts DEF RInv
<1>6. PhaseOK'
  BY <1>1, <1>2, <1>4, <1>5 DEF PhaseOK
<1>7. SlotsOK' /\ BacklogOK'
  BY <1>2 DEF SlotsOK, BacklogOK
<1>8. NoStaleGradient'
  BY <1>2, <1>4 DEF RInv, RoundsOK, NoStaleGradient
<1>9. LinksOK'
  BY <1>1, <1>2, <1>3, LinkStays DEF LinksOK, RInv, RoundsOK
<1>10. QED
  BY <1>6, <1>7, <1>8, <1>9 DEF RoundsOK

\* Every step of the server keeps the rounds.
LEMMA ServerRounds ==
  ASSUME RInv, ServerNext \/ ServerCrash, UNCHANGED workerVars
  PROVE  RoundsOK'
  BY MovesOn, ReadsNothing, Registers, TakesGradient, Accepts, Broadcasts, Updates, Exits
     DEF ServerNext

-----------------------------------------------------------------------------
(* The steps of a worker.                                                  *)

\* A worker touches only its own connection.
LEMMA Elsewhere ==
  ASSUME RInv, NEW w \in Workers, Start(w) \/ WorkerStep(w) \/ Crash(w),
         NEW v \in Workers, v # w
  PROVE  /\ up'[v] = up[v] /\ down'[v] = down[v] /\ peer'[v] = peer[v]
         /\ wpc'[v] = wpc[v] /\ wround'[v] = wround[v] /\ wmodel'[v] = wmodel[v]
<1> USE DEF RInv, IInv, TypeOK, NetTypeOK, WorkerTypeOK, Continue, Leave
<1>1. up'[v] = up[v] /\ down'[v] = down[v]
  BY DEF Start, Connect, ConnectRefused, netVars, WorkerStep, SendRegister, ReceiveWeights,
         SendGradient, WriteRefused, ReceiveDone, ReadEof, Crash, WorkerWrite
<1>2. peer'[v] = peer[v] /\ wpc'[v] = wpc[v]
  BY DEF Start, Connect, ConnectRefused, netVars, WorkerStep, SendRegister, ReceiveWeights,
         SendGradient, WriteRefused, ReceiveDone, ReadEof, Crash
<1>3. wround'[v] = wround[v] /\ wmodel'[v] = wmodel[v]
  BY DEF Start, Connect, ConnectRefused, WorkerStep, SendRegister, ReceiveWeights,
         SendGradient, WriteRefused, ReceiveDone, ReadEof, Crash
<1>4. QED
  BY <1>1, <1>2, <1>3

\* What has to be shown of a step of worker w: its connection, its slot and its
\* place in the backlog.
OwnOK(w) ==
  /\ LinkOK(w)
  /\ \A i \in Active : who[i] = w => (pc # "exited" => SlotOK(i)) /\ Wanted(i)
  /\ \A n \in DOMAIN backlog : backlog[n] = w => Joining(w)

\* That is enough.
LEMMA OwnEnough ==
  ASSUME RInv, NEW w \in Workers, Start(w) \/ WorkerStep(w) \/ Crash(w),
         UNCHANGED serverVars, OwnOK(w)'
  PROVE  RoundsOK'
<1> USE DEF serverVars, slotVars, selectVars, trainVars
<1>1. Active' = Active /\ Training' = Training
  BY DEF Active, Occupied, Training
<1>2. LinksOK'
  <2>1. ASSUME NEW v \in Workers, v # w PROVE LinkOK(v)'
    BY <2>1, Elsewhere, LinkStays DEF RInv, RoundsOK, LinksOK
  <2>2. QED
    BY <2>1 DEF LinksOK, OwnOK
<1>3. ASSUME NEW i \in Active, who[i] # w
      PROVE  (pc # "exited" => SlotOK(i)') /\ Wanted(i)'
  <2>1. who[i] \in Workers
    BY <1>3, SlotFacts DEF RInv, RoundsOK, PhaseOK
  <2>2. Wanted(i) /\ (pc # "exited" => SlotOK(i))
    BY <1>3, AllWanted DEF RInv, RoundsOK, SlotsOK
  <2>3. /\ up'[who[i]] = up[who[i]] /\ down'[who[i]] = down[who[i]]
        /\ wpc'[who[i]] = wpc[who[i]] /\ wround'[who[i]] = wround[who[i]]
    BY <1>3, <2>1, Elsewhere
  <2>4. AwaitsBroadcast(i)' <=> AwaitsBroadcast(i)
    BY DEF AwaitsBroadcast
  <2>5. pc # "exited" => SlotOK(i)'
    BY <2>2, <2>3, <2>4, SlotStays
  <2>6. QED
    BY <2>2, <2>3, <2>5 DEF Wanted, Holds
<1>4. SlotsOK' /\ NoStaleGradient'
  BY <1>1, <1>3 DEF SlotsOK, NoStaleGradient, Wanted, Holds, OwnOK
<1>5. \/ backlog' = backlog
      \/ pc # "exited" /\ backlog' = Append(backlog, w)
  BY DEF Start, WorkerStep, Connect, ConnectRefused, netVars, SendRegister, ReceiveWeights,
         SendGradient, WriteRefused, ReceiveDone, ReadEof, Crash
<1>6. \A n \in DOMAIN backlog' : backlog'[n] = w \/ \E m \in DOMAIN backlog : backlog'[n] = backlog[m]
  <2>1. backlog \in Seq(Workers)
    BY DEF RInv, IInv, TypeOK, NetTypeOK
  <2>2. QED
    BY <1>5, <2>1
<1>7. BacklogOK'
  <2>1. ASSUME NEW v, v # w, NEW n \in DOMAIN backlog', backlog'[n] = v PROVE Joining(v)'
    <3>1. PICK m \in DOMAIN backlog : v = backlog[m]
      BY <1>6, <2>1
    <3>2. Joining(v) /\ v \in Workers
      BY <3>1 DEF RInv, RoundsOK, BacklogOK, IInv, TypeOK, NetTypeOK
    <3>3. up'[v] = up[v] /\ down'[v] = down[v] /\ wpc'[v] = wpc[v]
      BY <2>1, <3>2, Elsewhere
    <3>4. QED
      BY <3>2, <3>3 DEF Joining
  <2>2. ASSUME NEW n \in DOMAIN backlog' PROVE \A v : backlog'[n] = v => Joining(v)'
    BY <2>1, <2>2 DEF OwnOK
  <2>3. QED
    BY <2>2 DEF BacklogOK
<1>8. PhaseOK'
  <2>1. UNCHANGED hungup
    BY DEF Start, WorkerStep, Connect, ConnectRefused, netVars, SendRegister, ReceiveWeights,
           SendGradient, WriteRefused, ReceiveDone, ReadEof, Crash
  <2>2. QED
    BY <1>1, <1>5, <2>1 DEF RInv, RoundsOK, PhaseOK
<1>9. QED
  BY <1>2, <1>4, <1>7, <1>8 DEF RoundsOK

\* What is known of the connection of a worker, its slot and its place in the
\* backlog, before it takes a step.
LEMMA OwnFacts ==
  ASSUME RInv, NEW w \in Workers
  PROVE  /\ LinkOK(w)
         /\ up[w] \in Seq(UpMsgs) /\ down[w] \in Seq(DownMsgs)
         /\ wpc[w] = "idle" => peer[w] = "none"
         /\ \A i \in Active : who[i] = w =>
              /\ i \in Slots /\ state[i] \in 0 .. 2
              /\ Wanted(i)
              /\ pc # "exited" => SlotOK(i) /\ ~ hungup[w] /\ peer[w] # "none"
              /\ pc = "exited" => hungup[w]
         /\ \A n \in DOMAIN backlog : backlog[n] = w =>
              Joining(w) /\ ~ hungup[w] /\ peer[w] # "none"
<1>1. /\ LinkOK(w) /\ up[w] \in Seq(UpMsgs) /\ down[w] \in Seq(DownMsgs)
      /\ wpc[w] = "idle" => peer[w] = "none"
  BY DEF RInv, RoundsOK, LinksOK, IInv, TypeOK, NetTypeOK, Consistent, ConnectionsOK
<1>2. ASSUME NEW i \in Active, who[i] = w
      PROVE  /\ i \in Slots /\ state[i] \in 0 .. 2
             /\ Wanted(i)
             /\ pc # "exited" => SlotOK(i) /\ ~ hungup[w] /\ peer[w] # "none"
             /\ pc = "exited" => hungup[w]
  <2>1. i \in Slots /\ state[i] \in 0 .. 2
    BY DEF Active, RInv, IInv, TypeOK, ServerTypeOK
  <2>2. Wanted(i) /\ (pc # "exited" => SlotOK(i))
    BY AllWanted DEF RInv, RoundsOK, SlotsOK
  <2>3. pc # "exited" => ~ hungup[w] /\ peer[w] # "none"
    BY <1>2 DEF RInv, IInv, Consistent, SelectCoversSlots
  <2>4. pc = "exited" => hungup[w]
    BY <1>2 DEF RInv, RoundsOK, PhaseOK
  <2>5. QED
    BY <2>1, <2>2, <2>3, <2>4
<1>3. ASSUME NEW n \in DOMAIN backlog, backlog[n] = w
      PROVE  Joining(w) /\ ~ hungup[w] /\ peer[w] # "none"
  <2>1. pc # "exited"
    BY <1>3 DEF RInv, RoundsOK, PhaseOK
  <2>2. QED
    BY <1>3, <2>1 DEF RInv, RoundsOK, BacklogOK, IInv, Consistent, SelectCoversSlots, ConnectionsOK
<1>4. QED
  BY <1>1, <1>2, <1>3

\* A new worker connects, or is refused.
LEMMA Starts ==
  ASSUME RInv, NEW w \in Workers, Start(w), UNCHANGED serverVars
  PROVE  OwnOK(w)'
<1> USE DEF serverVars, slotVars, selectVars, trainVars, netVars, RInv, IInv, TypeOK, NetTypeOK, WorkerTypeOK
<1>1. /\ wpc[w] = "idle" /\ peer[w] = "none"
      /\ up[w] = <<>> /\ down[w] = <<>>
  BY OwnFacts DEF Start, Connect, ConnectRefused, LinkOK
<1>2. /\ up' = up /\ down' = down
      /\ \/ wpc'[w] = "connected" /\ peer'[w] = "open" /\ pc # "exited"
         \/ wpc'[w] = "exited" /\ peer'[w] = "none" /\ backlog' = backlog
  BY <1>1 DEF Start, Connect, ConnectRefused, Continue
<1>3. Active' = Active
  BY DEF Active, Occupied
<1>4. LinkOK(w)'
  BY <1>1, <1>2 DEF LinkOK, AtMostOne, Holds, Connected
<1>5. ASSUME NEW i \in Active, who[i] = w
      PROVE  (pc # "exited" => SlotOK(i)') /\ Wanted(i)'
  BY <1>1, <1>2, <1>5, OwnFacts DEF Wanted, Holds
<1>6. ASSUME NEW n \in DOMAIN backlog', backlog'[n] = w PROVE Joining(w)'
  <2>1. CASE wpc'[w] = "connected"
    BY <1>1, <1>2, <2>1 DEF Joining, Holds
  <2>2. CASE backlog' = backlog
    BY <1>1, <1>6, <2>2, OwnFacts
  <2>3. QED
    BY <1>2, <2>1, <2>2
<1>7. QED
  BY <1>3, <1>4, <1>5, <1>6 DEF OwnOK

\* A worker leaves a connection the server has closed, or dies: what it last sent
\* stays whole, is lost, or is cut short.
LEMMA Leaves ==
  ASSUME RInv, NEW w \in Workers, UNCHANGED serverVars,
         wpc[w] \in Connected, peer'[w] # "open", backlog' = backlog,
         wpc'[w] = "dead" \/ (wpc'[w] = "exited" /\ hungup[w]),
         \/ up'[w] = up[w]
         \/ up'[w] = <<>>
         \/ Holds(up'[w], "fragment") /\ AtMostOne(up'[w]) /\ (up[w] # <<>> \/ wpc[w] = "computing"),
         down'[w] = <<>>
  PROVE  OwnOK(w)'
<1> USE DEF serverVars, slotVars, selectVars, trainVars
<1>1. Active' = Active
  BY DEF Active, Occupied
<1>2. LinkOK(w)'
  BY OwnFacts DEF LinkOK, AtMostOne, Holds, Connected, RegisterMsg
<1>3. up'[w] = up[w] \/ ~ Holds(up'[w], "gradient")
  BY DEF Holds
<1>4. ASSUME NEW i \in Active, who[i] = w
      PROVE  (pc # "exited" => SlotOK(i)') /\ Wanted(i)'
  <2>1. Wanted(i)'
    BY <1>3, <1>4, OwnFacts DEF Wanted
  <2>2. ASSUME pc # "exited" PROVE SlotOK(i)'
    <3>1. /\ wpc'[w] = "dead" /\ SlotOK(i) /\ who'[i] = who[i] /\ state'[i] = state[i]
          /\ AwaitsBroadcast(i)' <=> AwaitsBroadcast(i)
          /\ gradient_received'[i] = gradient_received[i]
      BY <1>4, <2>2, OwnFacts DEF AwaitsBroadcast
    <3>2. ~ Holds(up[w], "register") => ~ Holds(up'[w], "register")
      BY DEF Holds
    <3>3. up[w] = <<>> /\ wpc[w] # "computing" => up'[w] = <<>>
      OBVIOUS
    <3>4. QED
      BY <1>3, <1>4, <3>1, <3>2, <3>3
         DEF SlotOK, Joining, AtRest, Participating, Holds, Connected
  <2>3. QED
    BY <2>1, <2>2
<1>5. ASSUME NEW n \in DOMAIN backlog', backlog'[n] = w PROVE Joining(w)'
  BY <1>3, <1>5, OwnFacts DEF Joining
<1>6. QED
  BY <1>1, <1>2, <1>4, <1>5 DEF OwnOK

\* The worker is killed, or leaves a connection the server has closed.
LEMMA Departs ==
  ASSUME RInv, NEW w \in Workers, UNCHANGED serverVars,
         Crash(w) \/ WriteRefused(w) \/ ReadEof(w)
  PROVE  OwnOK(w)'
<1> USE DEF RInv, IInv, TypeOK, NetTypeOK, WorkerTypeOK, Connected, Continue
<1>1. CASE Crash(w)
  <2>1. /\ wpc[w] \in Connected /\ wpc'[w] = "dead" /\ down'[w] = <<>> /\ backlog' = backlog
        /\ peer'[w] # "open"
    BY <1>1 DEF Crash
  <2>2. Fragment \in UpMsgs
    BY DEF UpMsgs
  <2>3. \/ up' = up
        \/ wpc[w] = "computing" /\ WorkerWrite(w, Fragment)
        \/ up[w] # <<>> /\ up'[w] \in {<<>>, Append(<<>>, Fragment)}
    <3>1. Append(<<>>, Fragment) = <<Fragment>>
      OBVIOUS
    <3>2. QED
      BY <1>1, <3>1 DEF Crash
  <2>4. wpc[w] = "computing" => up[w] = <<>>
    BY OwnFacts DEF LinkOK
  <2>5. \/ up'[w] = up[w] \/ up'[w] = <<>>
        \/ up'[w] = Append(<<>>, Fragment) /\ (up[w] # <<>> \/ wpc[w] = "computing")
    BY <2>3, <2>4 DEF WorkerWrite
  <2>6. Holds(Append(<<>>, Fragment), "fragment") /\ AtMostOne(Append(<<>>, Fragment))
    BY <2>2, FirstMessage DEF Holds, AtMostOne, Fragment
  <2>7. QED
    BY <2>1, <2>5, <2>6, Leaves
<1>2. CASE WriteRefused(w) \/ ReadEof(w)
  <2>1. /\ wpc[w] \in Connected /\ hungup[w] /\ Leave(w, "exited")
        /\ UNCHANGED <<up, down, backlog>>
    BY <1>2 DEF WriteRefused, ReadEof
  <2>2. down[w] = <<>>
    BY <1>2, OwnFacts DEF WriteRefused, ReadEof, LinkOK
  <2>3. wpc'[w] = "exited" /\ peer'[w] # "open"
    BY <2>1 DEF Leave
  <2>4. QED
    BY <2>1, <2>2, <2>3, Leaves
<1>3. QED
  BY <1>1, <1>2

\* MSG_REGISTER is the first message of a connection.
LEMMA RegisterSent ==
  ASSUME RInv, NEW w \in Workers, UNCHANGED serverVars, SendRegister(w)
  PROVE  OwnOK(w)'
<1> USE DEF serverVars, slotVars, selectVars, trainVars
<1>1. /\ wpc[w] = "connected" /\ wpc'[w] = "waiting"
      /\ UNCHANGED <<down, peer, hungup, backlog, wround, wmodel>>
  BY DEF SendRegister, Continue, RInv, IInv, TypeOK, WorkerTypeOK
<1>2. up[w] = <<>> /\ down[w] = <<>>
  BY <1>1, OwnFacts DEF LinkOK
<1>3. up'[w] = <<>> \/ up'[w] = Append(<<>>, RegisterMsg(w))
  BY <1>2 DEF SendRegister, WorkerWrite, RInv, IInv, TypeOK, NetTypeOK
<1>4. /\ AtMostOne(up'[w])
      /\ up'[w] # <<>> => Head(up'[w]) = RegisterMsg(w)
      /\ RegisterMsg(w).type = "register"
  BY <1>3, UpMsgTypes, FirstMessage DEF AtMostOne, RegisterMsg, RInv
<1>5. Active' = Active
  BY DEF Active, Occupied
<1>6. LinkOK(w)'
  <2>1. RegisterMsg(w)' = RegisterMsg(w)
    BY DEF RegisterMsg
  <2>2. QED
    BY <1>1, <1>2, <1>4, <2>1, OwnFacts DEF LinkOK, Holds, AtMostOne, Connected
<1>7. Joining(w)'
  BY <1>1, <1>2, <1>4 DEF Joining, Holds
<1>8. ASSUME NEW i \in Active, who[i] = w
      PROVE  (pc # "exited" => SlotOK(i)') /\ Wanted(i)'
  <2>1. Wanted(i)'
    BY <1>4, <1>8 DEF Wanted, Holds
  <2>2. ASSUME pc # "exited" PROVE SlotOK(i)'
    <3>1. state[i] = 0 /\ ~ gradient_received[i]
      BY <1>1, <1>8, <2>2, OwnFacts DEF SlotOK, AtRest, Participating
    <3>2. QED
      BY <1>7, <1>8, <3>1 DEF SlotOK
  <2>3. QED
    BY <2>1, <2>2
<1>9. QED
  BY <1>1, <1>5, <1>6, <1>7, <1>8 DEF OwnOK

\* MSG_WEIGHTS reaches a participant and makes it compute.
LEMMA WeightsReceived ==
  ASSUME RInv, NEW w \in Workers, UNCHANGED serverVars, ReceiveWeights(w)
  PROVE  OwnOK(w)'
<1> USE DEF serverVars, slotVars, selectVars, trainVars
<1>1. /\ wpc[w] = "waiting" /\ wpc'[w] = "computing"
      /\ Holds(down[w], "weights") /\ down'[w] = Tail(down[w])
      /\ wround'[w] = Head(down[w]).round
      /\ UNCHANGED <<up, peer, hungup, backlog>>
  BY DEF ReceiveWeights, Holds, Continue, RInv, IInv, TypeOK, NetTypeOK, WorkerTypeOK
<1>2. up[w] = <<>> /\ down[w] # <<>> /\ down'[w] = <<>>
  BY <1>1, OwnFacts DEF LinkOK, AtMostOne, Holds
<1>3. Active' = Active
  BY DEF Active, Occupied
<1>4. LinkOK(w)'
  BY <1>1, <1>2, OwnFacts DEF LinkOK, Holds, AtMostOne, Connected
<1>5. ASSUME NEW i \in Active, who[i] = w
      PROVE  (pc # "exited" => SlotOK(i)') /\ Wanted(i)'
  <2>1. Wanted(i)'
    BY <1>1, <1>2, <1>5 DEF Wanted, Holds
  <2>2. ASSUME pc # "exited" PROVE SlotOK(i)'
    <3>1. /\ state[i] = 2 /\ Participating(i, w) /\ Features[w] <= MaxFeatures
          /\ Head(down[w]).round = current_round /\ ~ gradient_received[i]
      BY <1>1, <1>2, <1>5, <2>2, OwnFacts DEF SlotOK, Joining, AtRest, Participating
    <3>2. ~ AwaitsBroadcast(i)
      BY <1>2, <3>1 DEF Participating, AtRest
    <3>3. ~ AwaitsBroadcast(i)'
      BY <3>2 DEF AwaitsBroadcast
    <3>4. QED
      BY <1>1, <1>2, <1>5, <3>1, <3>3 DEF SlotOK, Participating, Holds
  <2>3. QED
    BY <2>1, <2>2
<1>6. \A n \in DOMAIN backlog : backlog[n] # w
  BY <1>2, OwnFacts DEF Joining
<1>7. QED
  BY <1>1, <1>3, <1>4, <1>5, <1>6 DEF OwnOK

\* The gradient is for the current round, and the slot has none.
LEMMA GradientSent ==
  ASSUME RInv, NEW w \in Workers, UNCHANGED serverVars, SendGradient(w)
  PROVE  OwnOK(w)'
<1> USE DEF serverVars, slotVars, selectVars, trainVars
<1> DEFINE m == GradientMsg(w, wround[w], wmodel[w])
<1>1. /\ wpc[w] = "computing" /\ wpc'[w] = "waiting"
      /\ UNCHANGED <<down, peer, hungup, backlog, wround, wmodel>>
  BY DEF SendGradient, Continue, RInv, IInv, TypeOK, WorkerTypeOK
<1>2. up[w] = <<>> /\ down[w] = <<>>
  BY <1>1, OwnFacts DEF LinkOK
<1>3. /\ hungup[w] => up'[w] = <<>>
      /\ ~ hungup[w] => up'[w] = Append(<<>>, m)
  BY <1>2 DEF SendGradient, WorkerWrite, RInv, IInv, TypeOK, NetTypeOK
<1>4. /\ AtMostOne(up'[w])
      /\ up'[w] # <<>> <=> ~ hungup[w]
      /\ up'[w] # <<>> => Head(up'[w]) = m
  BY <1>3, UpMsgTypes, FirstMessage DEF AtMostOne, RInv
<1>5. m.type = "gradient" /\ m.round = wround[w] /\ m.nf = Features[w]
  BY DEF GradientMsg
<1>6. Active' = Active
  BY DEF Active, Occupied
<1>7. LinkOK(w)'
  BY <1>1, <1>2, <1>4, <1>5, OwnFacts DEF LinkOK, Holds, AtMostOne, Connected
<1>8. ASSUME NEW i \in Active, who[i] = w
      PROVE  (pc # "exited" => SlotOK(i)') /\ Wanted(i)'
  <2>1. CASE pc = "exited"
    BY <1>4, <1>8, <2>1, OwnFacts DEF Wanted, Holds
  <2>2. CASE pc # "exited"
    <3>1. state[i] = 2 /\ Participating(i, w) /\ Features[w] <= MaxFeatures /\ ~ hungup[w]
      BY <1>1, <1>8, <2>2, OwnFacts DEF SlotOK, Joining, AtRest
    <3>2. wround[w] = current_round /\ ~ gradient_received[i] /\ ~ AwaitsBroadcast(i)
      BY <1>1, <3>1 DEF Participating, AtRest
    <3>3. ~ AwaitsBroadcast(i)'
      BY <3>2 DEF AwaitsBroadcast
    <3>4. Wanted(i)'
      BY <1>4, <1>5, <1>8, <3>1, <3>2 DEF Wanted, Holds
    <3>5. SlotOK(i)'
      BY <1>1, <1>2, <1>4, <1>5, <1>8, <3>1, <3>2, <3>3 DEF SlotOK, Participating, Holds
    <3>6. QED
      BY <3>4, <3>5
  <2>3. QED
    BY <2>1, <2>2
<1>9. \A n \in DOMAIN backlog : backlog[n] # w
  BY <1>1, OwnFacts DEF Joining
<1>10. QED
  BY <1>1, <1>6, <1>7, <1>8, <1>9 DEF OwnOK

\* MSG_DONE carries the final model.
LEMMA DoneReceived ==
  ASSUME RInv, NEW w \in Workers, UNCHANGED serverVars, ReceiveDone(w)
  PROVE  OwnOK(w)'
<1> USE DEF serverVars, slotVars, selectVars, trainVars
<1>1. /\ wpc[w] = "waiting" /\ Holds(down[w], "done") /\ down'[w] = Tail(down[w])
      /\ UNCHANGED <<up, hungup, backlog>>
  BY DEF ReceiveDone, Holds, RInv, IInv, TypeOK, NetTypeOK
<1>2. /\ up[w] = <<>> /\ down[w] # <<>> /\ down'[w] = <<>> /\ Features[w] <= MaxFeatures
      /\ outcome # "running" /\ Head(down[w]).model = global_weights
  BY <1>1, OwnFacts DEF LinkOK, AtMostOne, Holds
<1>3. /\ peer'[w] # "open"
      /\ \/ wpc'[w] = "done" /\ wmodel'[w] = global_weights
         \/ wpc'[w] = "exited" /\ hungup[w]
  BY <1>2 DEF ReceiveDone, Leave, Continue, RInv, IInv, TypeOK, NetTypeOK, WorkerTypeOK
<1>4. CASE wpc'[w] = "exited" /\ hungup[w]
  BY <1>1, <1>2, <1>3, <1>4, Leaves DEF Connected
<1>5. CASE wpc'[w] = "done" /\ wmodel'[w] = global_weights
  <2>1. Active' = Active
    BY DEF Active, Occupied
  <2>2. LinkOK(w)'
    BY <1>1, <1>2, <1>3, <1>5, OwnFacts DEF LinkOK, Holds, AtMostOne, Connected
  <2>3. ASSUME NEW i \in Active, who[i] = w
        PROVE  (pc # "exited" => SlotOK(i)') /\ Wanted(i)'
    <3>1. Wanted(i)'
      BY <1>1, <1>2, <2>3 DEF Wanted, Holds
    <3>2. ASSUME pc # "exited" PROVE SlotOK(i)'
      <4>1. state[i] = 2 /\ Participating(i, w) /\ Features[w] <= MaxFeatures
        BY <1>2, <2>3, <3>2, OwnFacts DEF SlotOK, Joining, AtRest
      <4>2. ~ AwaitsBroadcast(i)
        BY <1>2, <4>1 DEF Participating, AtRest
      <4>3. ~ AwaitsBroadcast(i)'
        BY <4>2 DEF AwaitsBroadcast
      <4>4. QED
        BY <1>1, <1>2, <1>5, <2>3, <4>1, <4>3 DEF SlotOK, Participating, Holds
    <3>3. QED
      BY <3>1, <3>2
  <2>4. \A n \in DOMAIN backlog : backlog[n] # w
    BY <1>2, OwnFacts DEF Joining
  <2>5. QED
    BY <1>1, <2>1, <2>2, <2>3, <2>4 DEF OwnOK
<1>6. QED
  BY <1>3, <1>4, <1>5

-----------------------------------------------------------------------------
(* RInv is an inductive invariant.                                         *)

\* main starts before anybody has connected.
LEMMA InitRInv == Init => RInv
<1> SUFFICES ASSUME Init PROVE RoundsOK
  BY InitIInv DEF RInv
<1> USE DEF Init, NetInit, ServerInit, WorkerInit
<1>1. Active = {} /\ Training = {}
  BY DEF Active, Occupied, Training
<1>2. LinksOK
  BY DEF LinksOK, LinkOK, AtMostOne, Holds, Connected
<1>3. SlotsOK /\ NoStaleGradient
  BY <1>1 DEF SlotsOK, NoStaleGradient
<1>4. BacklogOK
  BY DEF BacklogOK
<1>5. PhaseOK
  BY <1>1 DEF PhaseOK
<1>6. QED
  BY <1>2, <1>3, <1>4, <1>5 DEF RoundsOK

\* Every step of a worker keeps the rounds.
LEMMA WorkerRounds ==
  ASSUME RInv, NEW w \in Workers, Start(w) \/ WorkerStep(w) \/ Crash(w), UNCHANGED serverVars
  PROVE  RoundsOK'
<1>1. OwnOK(w)'
  BY Starts, Departs, RegisterSent, WeightsReceived, GradientSent, DoneReceived DEF WorkerStep
<1>2. QED
  BY <1>1, OwnEnough

\* A stuttering step changes nothing RInv is about.
LEMMA StutterRInv == RInv /\ UNCHANGED vars => RoundsOK'
<1> SUFFICES ASSUME RInv, UNCHANGED vars PROVE RoundsOK'
  OBVIOUS
<1> USE DEF vars, netVars, serverVars, workerVars, slotVars, selectVars, trainVars, RInv, RoundsOK
<1>1. Active' = Active /\ Training' = Training
  BY DEF Active, Occupied, Training
<1>2. LinksOK'
  BY LinkStays DEF LinksOK
<1>3. SlotsOK' /\ NoStaleGradient'
  <2>1. \A i \in Active : AwaitsBroadcast(i)' <=> AwaitsBroadcast(i)
    BY DEF AwaitsBroadcast
  <2>2. SlotsOK'
    BY <1>1, <2>1, SlotStays DEF SlotsOK
  <2>3. NoStaleGradient'
    BY <1>1 DEF NoStaleGradient
  <2>4. QED
    BY <2>2, <2>3
<1>4. BacklogOK'
  BY DEF BacklogOK, Joining
<1>5. PhaseOK'
  BY <1>1 DEF PhaseOK
<1>6. QED
  BY <1>2, <1>3, <1>4, <1>5

\* RInv is inductive.
LEMMA NextRInv == RInv /\ [Next]_vars => RInv'
<1> SUFFICES ASSUME RInv, [Next]_vars PROVE RoundsOK'
  BY NextIInv DEF RInv
<1>1. CASE (ServerNext \/ ServerCrash) /\ UNCHANGED workerVars
  BY <1>1, ServerRounds
<1>2. ASSUME NEW w \in Workers, Start(w) \/ WorkerStep(w) \/ Crash(w), UNCHANGED serverVars
      PROVE  RoundsOK'
  BY <1>2, WorkerRounds
<1>3. CASE UNCHANGED vars
  BY <1>3, StutterRInv
<1>4. QED
  BY <1>1, <1>2, <1>3 DEF Next

\* RInv is an inductive invariant of the system.
THEOREM RoundInvariance == Spec => []RInv
  BY InitRInv, NextRInv, PTL DEF Spec

-----------------------------------------------------------------------------
(* What follows.                                                           *)

\* A connection carries one message at most in each direction: recv_buf never
\* has to hold two, and no write waits for room.
THEOREM OneMessage == Spec => []OneMessageInFlight
<1>1. RInv => OneMessageInFlight
  <2> SUFFICES ASSUME RInv, NEW w \in Workers PROVE Len(up[w]) <= 1 /\ Len(down[w]) <= 1
    BY DEF OneMessageInFlight
  <2>1. LinkOK(w) /\ up[w] \in Seq(UpMsgs) /\ down[w] \in Seq(DownMsgs)
    BY OwnFacts
  <2>2. QED
    BY <2>1, AtMostOneMessage DEF LinkOK
<1>2. QED
  BY <1>1, RoundInvariance, PTL

\* No gradient of an earlier round, and no second one of the same round, is
\* ever dispatched.
THEOREM GradientsWanted == Spec => []NoStaleGradient
<1>1. RInv => NoStaleGradient
  BY DEF RInv, RoundsOK
<1>2. QED
  BY <1>1, RoundInvariance, PTL

\* The barrier: server and workers go through the rounds in lockstep.
THEOREM Lockstep == Spec => []RoundLockstep
<1>1. RInv => RoundLockstep
  <2> SUFFICES ASSUME RInv, pc \notin {"shutdown", "exited"}, NEW i \in Training
               PROVE  IF AwaitsBroadcast(i) THEN Work(i) = {}
                      ELSE pc # "done" =>
                             /\ Cardinality(Work(i)) <= 1
                             /\ wpc[who[i]] \in Connected => Work(i) # {}
    BY DEF RoundLockstep
  <2> DEFINE w == who[i]
  <2>1. /\ i \in Active /\ SlotOK(i) /\ Wanted(i) /\ Participating(i, w)
        /\ w \in Workers /\ LinkOK(w)
        /\ up[w] \in Seq(UpMsgs) /\ down[w] \in Seq(DownMsgs)
    <3>1. i \in Active /\ state[i] = 2 /\ w \in Workers /\ RInv
      BY SlotFacts DEF Training, RInv
    <3>2. SlotOK(i) /\ Wanted(i)
      BY <3>1, OwnFacts
    <3>3. Participating(i, w)
      BY <3>1, <3>2 DEF SlotOK
    <3>4. LinkOK(w) /\ up[w] \in Seq(UpMsgs) /\ down[w] \in Seq(DownMsgs)
      BY <3>1, OwnFacts
    <3>5. QED
      BY <3>1, <3>2, <3>3, <3>4
  <2>2. /\ WeightsOnTheWay(i) <=> Holds(down[w], "weights") /\ Head(down[w]).round = current_round
        /\ GradientOnTheWay(i) <=> Holds(up[w], "gradient") /\ Head(up[w]).round = current_round
    <3>1. AtMostOne(up[w]) /\ AtMostOne(down[w])
      BY <2>1 DEF LinkOK
    <3>2. /\ up[w] # <<>> => 1 \in DOMAIN up[w] /\ up[w][1] = Head(up[w])
          /\ down[w] # <<>> => 1 \in DOMAIN down[w] /\ down[w][1] = Head(down[w])
      BY <2>1
    <3>3. /\ \A n \in DOMAIN up[w] : up[w] # <<>> /\ up[w][n] = Head(up[w])
          /\ \A n \in DOMAIN down[w] : down[w] # <<>> /\ down[w][n] = Head(down[w])
      BY <2>1, <3>1, AtMostOneMessage
    <3>4. QED
      BY <3>2, <3>3 DEF WeightsOnTheWay, GradientOnTheWay, Holds
  <2>3. CASE AwaitsBroadcast(i)
    BY <2>1, <2>2, <2>3 DEF Participating, AtRest, Work, Computing, Holds
  <2>4. CASE ~ AwaitsBroadcast(i) /\ pc # "done"
    <3>1. outcome = "running"
      BY <2>4 DEF RInv, RoundsOK, PhaseOK
    <3>2. \A p, q \in Work(i) : p = q
      BY <2>1, <2>2 DEF Work, Computing, Participating, LinkOK, Wanted, Holds
    <3>3. Cardinality(Work(i)) <= 1
      <4>1. CASE Work(i) = {}
        BY <4>1, FS_EmptySet
      <4>2. CASE Work(i) # {}
        <5>1. PICK p : Work(i) = {p}
          BY <3>2, <4>2
        <5>2. QED
          BY <5>1, FS_Singleton
      <4>3. QED
        BY <4>1, <4>2
    <3>4. ASSUME w = who[i], wpc[w] \in Connected PROVE Work(i) # {}
      <4>1. \/ down[w] # <<>> \/ wpc[w] = "computing"
            \/ up[w] # <<>> \/ gradient_received[i]
        BY <2>1, <2>4, <3>1, <3>4 DEF Participating
      <4>2. down[w] # <<>> => WeightsOnTheWay(i)
        <5>1. down[w] # <<>> => Head(down[w]) \in DownMsgs
          BY <2>1
        <5>2. down[w] # <<>> => Holds(down[w], "weights")
          BY <2>1, <3>1, <5>1 DEF DownMsgs, LinkOK, Holds
        <5>3. QED
          BY <2>1, <2>2, <5>2 DEF Participating
      <4>3. up[w] # <<>> => GradientOnTheWay(i)
        <5>1. up[w] # <<>> => Head(up[w]) \in UpMsgs
          BY <2>1
        <5>2. up[w] # <<>> => Holds(up[w], "gradient")
          BY <2>1, <3>4, <5>1 DEF UpMsgs, Fragment, Participating, LinkOK, Holds
        <5>3. QED
          BY <2>1, <2>2, <5>2 DEF Wanted
      <4>4. wpc[w] = "computing" => Computing(i)
        BY <2>1, <3>4 DEF Computing, Participating
      <4>5. \/ WeightsOnTheWay(i) \/ Computing(i) \/ GradientOnTheWay(i) \/ gradient_received[i]
        BY <4>1, <4>2, <4>3, <4>4
      <4>6. QED
        BY <4>5, 1 \in 1 .. 4, 2 \in 1 .. 4, 3 \in 1 .. 4, 4 \in 1 .. 4 DEF Work
    <3>5. QED
      BY <2>4, <3>3, <3>4
  <2>5. QED
    BY <2>3, <2>4
<1>2. QED
  BY <1>1, RoundInvariance, PTL

\* Whoever finished, finished with the server's final model.
THEOREM FinalModel == Spec => []FinalModelAgreement
<1>1. RInv => FinalModelAgreement
  BY DEF RInv, RoundsOK, LinksOK, LinkOK, FinalModelAgreement
<1>2. QED
  BY <1>1, RoundInvariance, PTL

\* The fixed arrays of a worker are large enough for every shard it computes on.
THEOREM BuffersSuffice == Spec => []WorkerBuffersSuffice
<1>1. RInv => WorkerBuffersSuffice
  BY DEF RInv, RoundsOK, LinksOK, LinkOK, WorkerBuffersSuffice
<1>2. QED
  BY <1>1, RoundInvariance, PTL

-----------------------------------------------------------------------------
(* The barrier: whom the server waits for, whom it drops, and what a        *)
(* finished round has.                                                     *)

\* From a broadcast to the next select() somebody owes a gradient, or a
\* descriptor that was closed is still in the set: main does not come back to
\* select() with everybody's gradient in, or with nobody left to wait for.
SomebodyOwes ==
  pc \in {"bcast", "select"} /\ weights_broadcast =>
    BadFds # {} \/ \E i \in Training : ~ gradient_received[i]

BInv == RInv /\ SomebodyOwes

-----------------------------------------------------------------------------
(* SomebodyOwes is an invariant.                                           *)

\* It is only about the table and select()'s set.
LEMMA TableUntouched ==
  ASSUME SomebodyOwes, UNCHANGED <<fd, state, gradient_received, allset, maxfd>>,
         weights_broadcast' = weights_broadcast,
         pc' \in {"bcast", "select"} /\ weights_broadcast => pc \in {"bcast", "select"}
  PROVE  SomebodyOwes'
<1>1. Active' = Active /\ Training' = Training /\ OpenFds' = OpenFds /\ BadFds' = BadFds
  BY DEF Active, Occupied, Training, OpenFds, BadFds
<1>2. QED
  BY <1>1 DEF SomebodyOwes

\* A slot that is dropped leaves its descriptor in the set.
LEMMA DroppedStaysInSet ==
  ASSUME RInv, pc # "exited", NEW i \in Active, handle_disconnect(i), UNCHANGED <<allset, maxfd>>
  PROVE  BadFds' # {}
<1>1. /\ fd[i] \in allset /\ fd[i] <= maxfd /\ fd[i] # ListenFd
      /\ \A j \in Active \ {i} : fd[j] # fd[i]
  BY SlotFacts, ConstantFacts DEF RInv, IInv, Consistent, SelectCoversSlots
<1>2. Active' = Active \ {i} /\ \A j \in Active' : fd'[j] = fd[j]
  BY DEF handle_disconnect, Active, Occupied, RInv, IInv, TypeOK, ServerTypeOK
<1>3. fd[i] \notin OpenFds'
  BY <1>1, <1>2 DEF OpenFds
<1>4. fd[i] \in BadFds'
  BY <1>1, <1>3 DEF BadFds
<1>5. QED
  BY <1>4

\* The steps that start, make or end a broadcast, and those that go back to select().
LEMMA ServerOwes ==
  ASSUME BInv, ServerNext \/ ServerCrash
  PROVE  SomebodyOwes'
<1> USE DEF BInv, slotVars, selectVars, trainVars, GoTo, NextSlot
<1>1. CASE \/ Select \/ SelectFails \/ Accept \/ AcceptTableFull \/ AcceptFails \/ NothingToAccept
           \/ ReadSkip \/ ReadIncomplete \/ ReadDisconnect \/ DispatchRegister
           \/ DispatchGradient \/ ReadLoopEnds \/ Abandon \/ DoneSend \/ DoneSkip \/ DoneEnds
           \/ Shutdown \/ ServerCrash
  <2>1. pc' \notin {"bcast", "select"}
    BY <1>1 DEF Select, SelectFails, Accept, AcceptTableFull, AcceptFails, NothingToAccept,
         ReadSkip, ReadIncomplete, ReadDisconnect, ReadingSlot, DispatchRegister,
         DispatchGradient, ReadLoopEnds, Abandon, DoneSend, DoneSkip, DoneEnds, Shutdown,
         ServerCrash, CloseAll
  <2>2. QED
    BY <2>1 DEF SomebodyOwes
<1>2. CASE TrainStart
  <2>1. pc' = "bcast" => ~ weights_broadcast'
    BY <1>2 DEF TrainStart, EnoughWorkers
  <2>2. pc' # "select"
    BY <1>2 DEF TrainStart
  <2>3. QED
    BY <2>1, <2>2 DEF SomebodyOwes
<1>3. CASE BroadcastSend
  <2>1. cursor \in Slots /\ cursor \in Active
    BY <1>3 DEF BroadcastSend, Registered, Active
  <2>2. Active' = Active /\ OpenFds' = OpenFds /\ BadFds' = BadFds
    BY <1>3 DEF BroadcastSend, Active, Occupied, OpenFds, BadFds
  <2>3. state' = [state EXCEPT ![cursor] = 2] /\ gradient_received' = [gradient_received EXCEPT ![cursor] = FALSE]
    BY <1>3 DEF BroadcastSend
  <2>4. cursor \in Training'
    BY <2>1, <2>2, <2>3 DEF Training, RInv, IInv, TypeOK, ServerTypeOK
  <2>5. ~ gradient_received'[cursor]
    BY <2>1, <2>3, Zenon DEF RInv, IInv, TypeOK, ServerTypeOK
  <2>6. QED
    BY <2>4, <2>5 DEF SomebodyOwes
<1>4. CASE BroadcastFails
  BY <1>4, DroppedStaysInSet DEF BroadcastFails, Registered, SomebodyOwes
<1>5. CASE BroadcastSkip
  BY <1>5, TableUntouched DEF BroadcastSkip
<1>6. CASE BroadcastEnds
  <2>1. CASE weights_broadcast
    BY <1>6, <2>1, TableUntouched DEF BroadcastEnds
  <2>2. CASE ~ weights_broadcast
    BY <1>6, <2>2 DEF BroadcastEnds, SomebodyOwes
  <2>3. QED
    BY <2>1, <2>2
<1>7. CASE KeepWaiting
  <2>1. weights_broadcast => \E i \in Training : ~ gradient_received[i]
    BY <1>7 DEF KeepWaiting, AllGone, all_gradients_received
  <2>2. UNCHANGED <<fd, state, gradient_received, weights_broadcast>>
    BY <1>7 DEF KeepWaiting
  <2>3. Training' = Training
    BY <2>2 DEF Training, Active, Occupied
  <2>4. QED
    BY <2>1, <2>2, <2>3 DEF SomebodyOwes
<1>8. CASE Aggregate
  <2>1. CASE pc' = "done"
    BY <2>1 DEF SomebodyOwes
  <2>2. CASE pc' # "done"
    <3>1. PICK b \in BOOLEAN : aggregate_and_update(b) /\ ~ check_termination(b)
      BY <1>8, <2>2 DEF Aggregate
    <3>2. PICK i \in Contributors : num_samples[i] > 0
      BY <3>1 DEF aggregate_and_update, check_termination
    <3>3. i \in Training /\ i \in Slots
      BY DEF Contributors, Training, Active
    <3>4. ~ gradient_received'[i]
      BY <3>1, <3>3, Zenon DEF aggregate_and_update
    <3>5. Training' = Training
      BY <1>8 DEF Aggregate, Training, Active, Occupied
    <3>6. QED
      BY <3>3, <3>4, <3>5 DEF SomebodyOwes
  <2>3. QED
    BY <2>1, <2>2
<1>9. QED
  BY <1>1, <1>2, <1>3, <1>4, <1>5, <1>6, <1>7, <1>8 DEF ServerNext

\* It holds in every state.
THEOREM BarrierInvariance == Spec => []BInv
<1>1. Init => BInv
  BY InitRInv DEF BInv, SomebodyOwes, Init, ServerInit
<1>2. BInv /\ [Next]_vars => BInv'
  <2> SUFFICES ASSUME BInv, [Next]_vars PROVE SomebodyOwes'
    BY NextRInv DEF BInv
  <2>1. CASE ServerNext \/ ServerCrash
    BY <2>1, ServerOwes
  <2>2. CASE UNCHANGED serverVars
    BY <2>2, TableUntouched DEF BInv, serverVars, slotVars, selectVars, trainVars
  <2>3. QED
    BY <2>1, <2>2 DEF Next, vars
<1>3. QED
  BY <1>1, <1>2, PTL DEF Spec

-----------------------------------------------------------------------------
(* What follows.                                                           *)

\* While training runs, main waits in select() only for a live participant:
\* otherwise a descriptor is ready, or a bad one makes select() return.
THEOREM BarrierAlive == Spec => []BarrierNotStuck
<1>1. BInv => BarrierNotStuck
  <2> SUFFICES ASSUME BInv, pc = "select", weights_broadcast, BadFds = {}
               PROVE  \/ Ready # {}
                      \/ \E i \in Training : ~ gradient_received[i] /\ wpc[who[i]] \in Connected
    BY DEF BarrierNotStuck
  <2>1. PICK i \in Training : ~ gradient_received[i]
    BY DEF BInv, SomebodyOwes
  <2>2. ASSUME wpc[who[i]] \notin Connected PROVE fd[i] \in Ready
    <3>1. i \in Active /\ who[i] \in Workers /\ fd[i] \in allset /\ fd[i] <= maxfd
      BY DEF Training, BInv, RInv, IInv, Consistent, SelectCoversSlots
    <3>2. peer[who[i]] # "open"
      BY <2>2, <3>1, OwnFacts DEF BInv, LinkOK
    <3>3. QED
      BY <3>1, <3>2 DEF Ready, OpenFds, Readable
  <2>3. QED
    BY <2>1, <2>2
<1>2. QED
  BY <1>1, BarrierInvariance, PTL

-----------------------------------------------------------------------------
(* Who is let go, and what is left of the round then.                      *)

\* A connected worker that no slot stands for has nothing of a round under way:
\* it has yet to get a slot, or was refused one, or its registration was.
Detached ==
  pc # "exited" =>
    \A w \in Workers :
      wpc[w] \in Connected /\ (\A i \in Active : who[i] # w) => Joining(w)

\* main gives up only with an empty table.
AbandonedOK == outcome = "abandoned" => Active = {}

OInv == RInv /\ Detached /\ AbandonedOK

\* The only ways out of a slot.
LEMMA SlotLeft ==
  ASSUME RInv, ServerNext \/ ServerCrash, NEW i \in Active, i \notin Active' \/ who'[i] # who[i]
  PROVE  /\ i = cursor /\ pc # "exited" /\ handle_disconnect(i)
         /\ ReadDisconnect \/ BroadcastFails \/ DispatchRegister
<1> USE DEF slotVars, selectVars, trainVars
<1>1. i \in Slots /\ fd[i] # NoFd
  BY DEF Active, Occupied
<1>2. fd'[i] # fd[i] \/ who'[i] # who[i]
  BY <1>1 DEF Active, Occupied
<1>3. ~ Accept
  <2>1. ASSUME NEW f \in Fds, NEW j \in Slots, add_worker(j, f, Head(backlog)) PROVE FALSE
    <3>1. j # i
      BY <1>1, <2>1 DEF add_worker, Occupied
    <3>2. fd'[i] = fd[i] /\ who'[i] = who[i]
      BY <1>1, <2>1, <3>1 DEF add_worker, RInv, IInv, TypeOK, ServerTypeOK
    <3>3. QED
      BY <1>2, <3>2
  <2>2. QED
    BY <2>1 DEF Accept
<1>4. ReadDisconnect \/ BroadcastFails \/ DispatchRegister
  BY <1>2, <1>3 DEF ServerNext, ServerCrash, CloseAll, Select, SelectFails, AcceptTableFull,
       AcceptFails, NothingToAccept, ReadSkip, ReadIncomplete, DispatchGradient, ReadLoopEnds,
       TrainStart, BroadcastSend, BroadcastSkip, BroadcastEnds, Abandon, KeepWaiting, Aggregate,
       DoneSend, DoneSkip, DoneEnds, Shutdown
<1>5. handle_disconnect(cursor) /\ pc # "exited"
  BY <1>2, <1>4 DEF ReadDisconnect, BroadcastFails, DispatchRegister, handle_register, ReadingSlot
<1>6. i = cursor
  BY <1>1, <1>2, <1>5 DEF handle_disconnect, RInv, IInv, TypeOK, ServerTypeOK
<1>7. QED
  BY <1>4, <1>5, <1>6

\* A worker loses its slot by dying, or before it takes part.
LEMMA SlotLost ==
  ASSUME RInv, ServerNext \/ ServerCrash, UNCHANGED workerVars,
         NEW i \in Active, i \notin Active' \/ who'[i] # who[i],
         wpc[who[i]] \in Connected
  PROVE  /\ DispatchRegister /\ cursor = i /\ state[i] = 0
         /\ Joining(who[i]) /\ up'[who[i]] = <<>>
<1> DEFINE w == who[i]
<1>1. i = cursor /\ pc # "exited" /\ (ReadDisconnect \/ BroadcastFails \/ DispatchRegister)
  BY SlotLeft
<1>2. w \in Workers /\ SlotOK(i) /\ LinkOK(w)
  <2>1. w \in Workers
    BY <1>1, SlotFacts DEF RInv
  <2>2. QED
    BY <1>1, <2>1, OwnFacts
<1>3. peer[w] = "open"
  BY <1>2 DEF LinkOK
<1>4. DispatchRegister
  BY <1>1, <1>3 DEF ReadDisconnect, ReadFails, BroadcastFails, WriteFails
<1>5. state[i] = 0 /\ up'[w] = <<>> /\ Joining(w)
  BY <1>1, <1>2, <1>4, RegisterFacts DEF SlotOK
<1>6. QED
  BY <1>1, <1>4, <1>5

\* The server has no business with a worker without a slot.
LEMMA NoSlotNoStep ==
  ASSUME RInv, ServerNext \/ ServerCrash, pc' # "exited",
         NEW w \in Workers, \A i \in Active : who[i] # w
  PROVE  up'[w] = up[w] /\ down'[w] = down[w]
<1> USE DEF RInv, IInv, TypeOK, NetTypeOK, netVars
<1>1. ~ Shutdown /\ ~ ServerCrash
  BY DEF Shutdown, ServerCrash, CloseAll, GoTo
<1>2. CASE ReadIncomplete \/ DispatchRegister \/ DispatchGradient
  <2>1. cursor \in Active /\ down' = down
    BY <1>2 DEF ReadIncomplete, DispatchRegister, DispatchGradient, ReadingSlot
  <2>2. who[cursor] # w
    BY <2>1
  <2>3. QED
    BY <1>2, <2>1, <2>2 DEF ReadIncomplete, DispatchRegister, DispatchGradient
<1>3. CASE BroadcastSend \/ DoneSend
  <2>1. cursor \in Active /\ up' = up
    BY <1>3 DEF BroadcastSend, DoneSend, Registered, Training
  <2>2. who[cursor] # w
    BY <2>1
  <2>3. QED
    BY <1>3, <2>1, <2>2 DEF BroadcastSend, DoneSend, Write
<1>4. QED
  BY <1>1, <1>2, <1>3 DEF ServerNext, Select, SelectFails, Accept, AcceptTableFull, AcceptFails,
       NothingToAccept, ReadSkip, ReadDisconnect, ReadLoopEnds, TrainStart, BroadcastFails,
       BroadcastSkip, BroadcastEnds, Abandon, KeepWaiting, Aggregate, DoneSkip, DoneEnds

\* Detached and AbandonedOK are kept by the server.
LEMMA ServerDetached ==
  ASSUME OInv, ServerNext \/ ServerCrash, UNCHANGED workerVars
  PROVE  Detached' /\ AbandonedOK'
<1> USE DEF OInv
<1>1. ASSUME pc' # "exited", NEW w \in Workers, wpc'[w] \in Connected,
             \A i \in Active' : who'[i] # w
      PROVE  Joining(w)'
  <2>1. wpc' = wpc /\ pc # "exited"
    BY <1>1 DEF workerVars, ServerNext, ServerCrash, Select, SelectFails, Accept, AcceptTableFull,
         AcceptFails, NothingToAccept, ReadSkip, ReadIncomplete, ReadDisconnect, ReadingSlot,
         DispatchRegister, DispatchGradient, ReadLoopEnds, TrainStart, BroadcastSend, BroadcastFails,
         BroadcastSkip, BroadcastEnds, Abandon, KeepWaiting, Aggregate, DoneSend, DoneSkip, DoneEnds,
         Shutdown
  <2>2. CASE \A i \in Active : who[i] # w
    <3>1. Joining(w)
      BY <1>1, <2>1, <2>2 DEF Detached
    <3>2. up'[w] = up[w] /\ down'[w] = down[w]
      BY <1>1, <2>2, NoSlotNoStep
    <3>3. QED
      BY <2>1, <3>1, <3>2 DEF Joining
  <2>3. ASSUME NEW i \in Active, who[i] = w PROVE Joining(w)'
    <3>1. i \notin Active' \/ who'[i] # who[i]
      BY <1>1, <2>3
    <3>2. wpc[who[i]] \in Connected
      BY <1>1, <2>1, <2>3
    <3>3. DispatchRegister /\ Joining(w) /\ up'[w] = <<>>
      BY <2>3, <3>1, <3>2, SlotLost
    <3>4. down' = down
      BY <3>3 DEF DispatchRegister
    <3>5. QED
      BY <2>1, <3>3, <3>4 DEF Joining, Holds
  <2>4. QED
    BY <2>2, <2>3
<1>2. AbandonedOK'
  <2> USE DEF AbandonedOK, slotVars, Active, Occupied
  <2>1. CASE outcome' = outcome
    <3>1. outcome = "abandoned" => pc \in {"done", "shutdown", "exited"}
      BY DEF RInv, RoundsOK, PhaseOK
    <3>2. pc \in {"done", "shutdown", "exited"} => fd' = fd
      BY DEF ServerNext, ServerCrash, Select, SelectFails, Accept, AcceptTableFull,
         AcceptFails, NothingToAccept, ReadSkip, ReadIncomplete, ReadDisconnect, ReadingSlot,
         DispatchRegister, DispatchGradient, ReadLoopEnds, TrainStart, BroadcastSend, BroadcastFails,
         BroadcastSkip, BroadcastEnds, Abandon, KeepWaiting, Aggregate, DoneSend, DoneSkip, DoneEnds,
         Shutdown, CloseAll
    <3>3. QED
      BY <2>1, <3>1, <3>2
  <2>2. CASE outcome' # outcome
    <3>1. Abandon \/ outcome' \in {"complete", "select_failed", "killed"}
      BY <2>2 DEF ServerNext, ServerCrash, Select, SelectFails, Accept, AcceptTableFull,
         AcceptFails, NothingToAccept, ReadSkip, ReadIncomplete, ReadDisconnect,
         DispatchRegister, DispatchGradient, ReadLoopEnds, TrainStart, BroadcastSend, BroadcastFails,
         BroadcastSkip, BroadcastEnds, KeepWaiting, Aggregate, DoneSend, DoneSkip, DoneEnds,
         Shutdown
    <3>2. QED
      BY <3>1 DEF Abandon, AllGone
  <2>3. QED
    BY <2>1, <2>2
<1>3. QED
  BY <1>1, <1>2 DEF Detached

\* And by the workers.
LEMMA WorkerDetached ==
  ASSUME OInv, NEW w \in Workers, Start(w) \/ WorkerStep(w) \/ Crash(w), UNCHANGED serverVars
  PROVE  Detached' /\ AbandonedOK'
<1> USE DEF OInv, serverVars, slotVars
<1>1. Active' = Active /\ who' = who /\ pc' = pc
  BY DEF Active, Occupied
<1>2. AbandonedOK'
  BY <1>1 DEF AbandonedOK
<1>3. ASSUME NEW v \in Workers, v # w, wpc'[v] \in Connected, \A i \in Active : who[i] # v, pc # "exited"
      PROVE  Joining(v)'
  <2>1. up'[v] = up[v] /\ down'[v] = down[v] /\ wpc'[v] = wpc[v]
    BY <1>3, Elsewhere
  <2>2. Joining(v)
    BY <1>3, <2>1 DEF Detached
  <2>3. QED
    BY <2>1, <2>2 DEF Joining
<1>4. ASSUME wpc'[w] \in Connected, \A i \in Active : who[i] # w, pc # "exited"
      PROVE  Joining(w)'
  <2>1. CASE Start(w)
    <3>1. /\ wpc[w] = "idle" /\ wpc'[w] = "connected" /\ up' = up /\ down' = down
      BY <1>4, <2>1 DEF Start, Connect, ConnectRefused, Continue, Connected,
           RInv, IInv, TypeOK, WorkerTypeOK
    <3>2. up[w] = <<>> /\ down[w] = <<>>
      BY <3>1, OwnFacts DEF LinkOK
    <3>3. QED
      BY <3>1, <3>2 DEF Joining, Holds
  <2>2. CASE SendRegister(w)
    <3>1. /\ wpc[w] = "connected" /\ wpc'[w] = "waiting" /\ down' = down
      BY <2>2 DEF SendRegister, Continue, RInv, IInv, TypeOK, WorkerTypeOK
    <3>2. up[w] = <<>> /\ down[w] = <<>>
      BY <3>1, OwnFacts DEF LinkOK
    <3>3. up'[w] = <<>> \/ up'[w] = Append(<<>>, RegisterMsg(w))
      BY <2>2, <3>2 DEF SendRegister, WorkerWrite, RInv, IInv, TypeOK, NetTypeOK
    <3>4. up'[w] # <<>> => Head(up'[w]).type = "register"
      BY <3>3, UpMsgTypes, FirstMessage DEF RegisterMsg, RInv
    <3>5. QED
      BY <3>1, <3>2, <3>4 DEF Joining, Holds
  <2>3. CASE ~ Start(w) /\ ~ SendRegister(w)
    <3>1. wpc[w] \in Connected
      BY <2>3 DEF WorkerStep, ReceiveWeights, SendGradient, WriteRefused, ReceiveDone, ReadEof,
           Crash, Connected
    <3>2. Joining(w)
      BY <1>4, <3>1 DEF Detached
    <3>3. ~ ReceiveWeights(w) /\ ~ SendGradient(w) /\ ~ ReceiveDone(w)
      BY <3>2 DEF Joining, ReceiveWeights, SendGradient, ReceiveDone
    <3>4. wpc'[w] \in {"exited", "dead"}
      BY <2>3, <3>3 DEF WorkerStep, WriteRefused, ReadEof, Crash, Leave, Continue,
           RInv, IInv, TypeOK, WorkerTypeOK
    <3>5. QED
      BY <1>4, <3>4 DEF Connected
  <2>4. QED
    BY <2>1, <2>2, <2>3
<1>5. QED
  BY <1>1, <1>2, <1>3, <1>4 DEF Detached

\* OInv is inductive.
LEMMA NextOInv == OInv /\ [Next]_vars => OInv'
<1> SUFFICES ASSUME OInv, [Next]_vars PROVE Detached' /\ AbandonedOK'
  BY NextRInv DEF OInv
<1>1. CASE (ServerNext \/ ServerCrash) /\ UNCHANGED workerVars
  BY <1>1, ServerDetached
<1>2. ASSUME NEW w \in Workers, Start(w) \/ WorkerStep(w) \/ Crash(w), UNCHANGED serverVars
      PROVE  Detached' /\ AbandonedOK'
  BY <1>2, WorkerDetached
<1>3. CASE UNCHANGED vars
  BY <1>3 DEF vars, netVars, serverVars, slotVars, workerVars, OInv, Detached, AbandonedOK,
       Joining, Active, Occupied
<1>4. QED
  BY <1>1, <1>2, <1>3 DEF Next

\* It holds in every state.
THEOREM LettingGo == Spec => []OInv
<1>1. Init => OInv
  <2>1. Init => Detached /\ AbandonedOK
    BY DEF Init, WorkerInit, ServerInit, Detached, AbandonedOK, Connected
  <2>2. QED
    BY <2>1, InitRInv DEF OInv
<1>2. QED
  BY <1>1, NextOInv, PTL DEF Spec

\* The server drops a participant, to go on without its gradient, only after the
\* participant died.  A live one is hung up on only as main ends, because training
\* is complete, select() failed or the server is killed: main does not take it for
\* one of nobody left, and closes its connection for no other one's sake.
THEOREM OnlyDeadDropped == Spec => OnlyDeadParticipantsDropped
<1> DEFINE OnlyDead ==
      \A i \in Training :
        wpc[who[i]] \in Connected =>
          /\ fd'[i] # NoFd
          /\ hungup'[who[i]] =>
               pc' = "exited" /\ outcome' \in {"complete", "select_failed", "killed"}
<1>1. OInv /\ [Next]_vars => [OnlyDead]_vars
  <2> SUFFICES ASSUME OInv, Next, NEW i \in Training, wpc[who[i]] \in Connected
               PROVE  /\ fd'[i] # NoFd
                      /\ hungup'[who[i]] =>
                           pc' = "exited" /\ outcome' \in {"complete", "select_failed", "killed"}
    OBVIOUS
  <2> USE DEF OInv
  <2>1. i \in Active /\ i \in Slots /\ state[i] = 2 /\ fd[i] # NoFd
    BY DEF Training, Active, Occupied
  <2>2. pc = "exited" => outcome \in {"complete", "select_failed", "killed"}
    BY <2>1 DEF AbandonedOK, RInv, RoundsOK, PhaseOK, IInv, TypeOK, ServerTypeOK
  <2>3. pc # "exited" => who[i] \in Workers /\ ~ hungup[who[i]]
    BY <2>1 DEF RInv, IInv, Consistent, SelectCoversSlots
  <2>4. CASE (ServerNext \/ ServerCrash) /\ UNCHANGED workerVars
    <3>1. i \in Active' /\ who'[i] = who[i]
      <4>1. ASSUME i \notin Active' \/ who'[i] # who[i] PROVE state[i] = 0
        BY <2>1, <2>4, <4>1, SlotLost
      <4>2. QED
        BY <2>1, <4>1
    <3>2. fd'[i] # NoFd
      BY <3>1 DEF Active, Occupied
    <3>3. pc # "exited"
      BY <2>4 DEF ServerNext, ServerCrash, Select, SelectFails, Accept, AcceptTableFull,
         AcceptFails, NothingToAccept, ReadSkip, ReadIncomplete, ReadDisconnect, ReadingSlot,
         DispatchRegister, DispatchGradient, ReadLoopEnds, TrainStart, BroadcastSend, BroadcastFails,
         BroadcastSkip, BroadcastEnds, Abandon, KeepWaiting, Aggregate, DoneSend, DoneSkip, DoneEnds,
         Shutdown
    <3>4. CASE AcceptTableFull
      <4>1. Head(backlog) # who[i]
        <5>1. backlog # <<>> /\ Head(backlog) = backlog[1] /\ 1 \in DOMAIN backlog
          BY <3>4 DEF AcceptTableFull, RInv, IInv, Consistent, ReadNeverBlocks, TypeOK, NetTypeOK
        <5>2. QED
          BY <2>1, <3>3, <5>1 DEF RInv, IInv, Consistent, SelectCoversSlots
      <4>2. hungup'[who[i]] = hungup[who[i]]
        BY <2>3, <3>3, <3>4, <4>1 DEF AcceptTableFull, RInv, IInv, TypeOK, NetTypeOK
      <4>3. QED
        BY <2>3, <3>2, <3>3, <4>2
    <3>5. CASE /\ ReadDisconnect \/ BroadcastFails \/ DispatchRegister
               /\ handle_disconnect(cursor)
      <4>1. cursor \in Active
        BY <3>5 DEF ReadDisconnect, BroadcastFails, DispatchRegister, ReadingSlot, Registered
      <4>2. cursor # i
        BY <2>1, <3>2, <3>5 DEF handle_disconnect, RInv, IInv, TypeOK, ServerTypeOK
      <4>3. who[cursor] # who[i]
        BY <2>1, <3>3, <4>1, <4>2 DEF RInv, IInv, Consistent, SelectCoversSlots
      <4>4. hungup'[who[i]] = hungup[who[i]]
        BY <2>3, <3>3, <3>5, <4>3 DEF handle_disconnect, RInv, IInv, TypeOK, NetTypeOK
      <4>5. QED
        BY <2>3, <3>2, <3>3, <4>4
    <3>6. CASE Shutdown \/ ServerCrash
      <4>1. Shutdown => outcome \in {"complete", "select_failed", "killed"}
        BY <2>1 DEF Shutdown, AbandonedOK, RInv, RoundsOK, PhaseOK, IInv, TypeOK, ServerTypeOK
      <4>2. pc' = "exited" /\ outcome' \in {"complete", "select_failed", "killed"}
        BY <3>6, <4>1 DEF Shutdown, ServerCrash, CloseAll, GoTo
      <4>3. QED
        BY <3>2, <4>2
    <3>7. CASE UNCHANGED hungup
      BY <2>3, <3>2, <3>3, <3>7
    <3>8. QED
      <4>1. \/ UNCHANGED hungup \/ AcceptTableFull \/ Shutdown \/ ServerCrash
            \/ /\ ReadDisconnect \/ BroadcastFails \/ DispatchRegister
               /\ handle_disconnect(cursor)
        BY <2>4 DEF ServerNext, Select, SelectFails, Accept, AcceptFails, NothingToAccept,
             ReadSkip, ReadIncomplete, ReadDisconnect, DispatchRegister, handle_register,
             DispatchGradient, ReadLoopEnds, TrainStart, BroadcastSend, BroadcastFails,
             BroadcastSkip, BroadcastEnds, Abandon, KeepWaiting, Aggregate, DoneSend, DoneSkip,
             DoneEnds, netVars
      <4>2. QED
        BY <3>4, <3>5, <3>6, <3>7, <4>1
  <2>5. ASSUME NEW w \in Workers, Start(w) \/ WorkerStep(w) \/ Crash(w), UNCHANGED serverVars
        PROVE  /\ fd'[i] # NoFd
               /\ hungup'[who[i]] =>
                    pc' = "exited" /\ outcome' \in {"complete", "select_failed", "killed"}
    <3>1. UNCHANGED <<fd, pc, outcome>>
      BY <2>5 DEF serverVars, slotVars
    <3>2. hungup' = hungup
      BY <2>5 DEF Start, WorkerStep, Connect, ConnectRefused, netVars,
           SendRegister, ReceiveWeights, SendGradient, WriteRefused, ReceiveDone, ReadEof, Crash
    <3>3. QED
      BY <2>1, <2>2, <2>3, <3>1, <3>2
  <2>6. QED
    BY <2>4, <2>5 DEF Next
<1>2. QED
  BY <1>1, LettingGo, PTL DEF OnlyDeadParticipantsDropped, Spec

\* A round ends with the gradient of every live participant in, and with nothing
\* of it under way anywhere: not for a worker that still waits for a slot, was
\* refused one or was turned away either.
THEOREM NothingLeftBehind == Spec => NoWorkLeftBehind
<1> DEFINE Nothing ==
      current_round' # current_round \/ (outcome' = "complete" /\ outcome = "running")
        => \A w \in Workers :
             wpc[w] \in Connected =>
               /\ wpc[w] # "computing"
               /\ down[w] = <<>>
               /\ \A n \in DOMAIN up[w] : up[w][n].type # "gradient"
<1>1. OInv /\ [Next]_vars => [Nothing]_vars
  <2> SUFFICES ASSUME OInv, Next,
                      current_round' # current_round \/ (outcome' = "complete" /\ outcome = "running"),
                      NEW w \in Workers, wpc[w] \in Connected
               PROVE  /\ wpc[w] # "computing"
                      /\ down[w] = <<>>
                      /\ \A n \in DOMAIN up[w] : up[w][n].type # "gradient"
    OBVIOUS
  <2> USE DEF OInv
  <2>1. Aggregate
    BY DEF Next, ServerNext, ServerCrash, CloseAll, Select, SelectFails, Accept, AcceptTableFull,
           AcceptFails, NothingToAccept, ReadSkip, ReadIncomplete, ReadDisconnect, DispatchRegister,
           DispatchGradient, ReadLoopEnds, TrainStart, BroadcastSend, BroadcastFails, BroadcastSkip,
           BroadcastEnds, Abandon, KeepWaiting, DoneSend, DoneSkip, DoneEnds, Shutdown,
           serverVars, trainVars
  <2>2. /\ pc = "check" /\ outcome = "running"
        /\ \A i \in Training : gradient_received[i]
    BY <2>1 DEF Aggregate, all_gradients_received, RInv, RoundsOK, PhaseOK
  <2>3. Joining(w) \/ AtRest(w)
    <3>1. CASE \A i \in Active : who[i] # w
      BY <2>2, <3>1 DEF Detached
    <3>2. ASSUME NEW i \in Active, who[i] = w PROVE Joining(w) \/ AtRest(w)
      <4>1. SlotOK(i) /\ state[i] \in 0 .. 2
        BY <2>2, <3>2, OwnFacts
      <4>2. state[i] = 2 => AtRest(w)
        BY <2>2, <3>2, GradientIn DEF Training
      <4>3. QED
        BY <3>2, <4>1, <4>2 DEF SlotOK
    <3>3. QED
      BY <3>1, <3>2
  <2>4. wpc[w] # "computing" /\ down[w] = <<>> /\ ~ Holds(up[w], "gradient")
    BY <2>3 DEF Joining, AtRest, Holds
  <2>5. \A n \in DOMAIN up[w] : up[w] # <<>> /\ up[w][n] = Head(up[w])
    <3>1. up[w] \in Seq(UpMsgs) /\ AtMostOne(up[w])
      BY OwnFacts DEF LinkOK
    <3>2. QED
      BY <3>1, AtMostOneMessage
  <2>6. QED
    BY <2>4, <2>5 DEF Holds
<1>2. QED
  BY <1>1, LettingGo, PTL DEF NoWorkLeftBehind, Spec

\* A descriptor stays behind in select()'s set, without a slot, only because a
\* broadcast could not reach a worker that died, or because a worker registered
\* with another number of features.
THEOREM OnlyDroppedForgotten == Spec => OnlyDroppedFdsForgotten
<1> DEFINE Dropped ==
      \A f \in Forgotten' \ Forgotten :
        \E i \in Active :
          /\ fd[i] = f
          /\ \/ pc = "bcast" /\ wpc[who[i]] = "dead"
             \/ pc = "read" /\ up[who[i]] # <<>> /\ Features[who[i]] # num_features
<1>1. RInv /\ [Next]_vars => [Dropped]_vars
  <2> SUFFICES ASSUME RInv, Next, NEW f \in Forgotten' \ Forgotten
               PROVE  \E i \in Active :
                        /\ fd[i] = f
                        /\ \/ pc = "bcast" /\ wpc[who[i]] = "dead"
                           \/ pc = "read" /\ up[who[i]] # <<>> /\ Features[who[i]] # num_features
    OBVIOUS
  <2>1. f \in allset' /\ f \notin OpenFds' /\ f # ListenFd /\ (f \in allset => f \in OpenFds)
    BY DEF Forgotten
  <2>2. PICK i : i = cursor
    OBVIOUS
  <2>3. ASSUME UNCHANGED <<fd, allset>> PROVE FALSE
    BY <2>1, <2>3 DEF OpenFds, Active, Occupied
  <2>4. ~ Accept
    <3>1. ASSUME NEW g \in Fds, NEW j \in Slots, add_worker(j, g, Head(backlog)),
                 allset' = allset \cup {g}
          PROVE  FALSE
      <4>1. /\ j \notin Active /\ Active' = Active \cup {j} /\ fd'[j] = g
            /\ \A k \in Active : fd'[k] = fd[k]
        BY <3>1, ConstantFacts DEF add_worker, Active, Occupied, RInv, IInv, TypeOK, ServerTypeOK
      <4>2. OpenFds' = OpenFds \cup {g}
        BY <4>1 DEF OpenFds
      <4>3. QED
        BY <2>1, <3>1, <4>2
    <3>2. QED
      BY <3>1 DEF Accept
  <2>5. /\ ReadDisconnect \/ BroadcastFails \/ DispatchRegister
        /\ handle_disconnect(i)
    BY <2>2, <2>3, <2>4 DEF Next, ServerNext, ServerCrash, CloseAll, Select, SelectFails,
         AcceptTableFull, AcceptFails, NothingToAccept, ReadSkip, ReadIncomplete, ReadDisconnect,
         DispatchRegister, handle_register, DispatchGradient, ReadLoopEnds, TrainStart, BroadcastSend,
         BroadcastFails, BroadcastSkip, BroadcastEnds, Abandon, KeepWaiting, Aggregate, DoneSend,
         DoneSkip, DoneEnds, Shutdown, serverVars, slotVars, selectVars
  <2>6. i \in Active /\ i \in Slots /\ who[i] \in Workers /\ pc # "exited"
    <3>1. i \in Active /\ pc # "exited"
      BY <2>2, <2>5 DEF ReadDisconnect, BroadcastFails, DispatchRegister, ReadingSlot, Registered
    <3>2. QED
      BY <3>1, SlotFacts DEF RInv
  <2>7. OpenFds \ {fd[i]} \subseteq OpenFds'
    <3>1. Active' = Active \ {i} /\ \A j \in Active' : fd'[j] = fd[j]
      BY <2>5, <2>6 DEF handle_disconnect, Active, Occupied, RInv, IInv, TypeOK, ServerTypeOK
    <3>2. QED
      BY <3>1 DEF OpenFds
  <2>8. ~ ReadDisconnect
    BY <2>1, <2>2, <2>7 DEF ReadDisconnect
  <2>9. fd[i] = f
    BY <2>1, <2>5, <2>7, <2>8 DEF BroadcastFails, DispatchRegister, selectVars
  <2>10. CASE BroadcastFails
    <3>1. wpc[who[i]] \in {"waiting", "dead"} /\ LinkOK(who[i])
      BY <2>2, <2>10, BroadcastFacts DEF AtRest
    <3>2. peer[who[i]] = "rst" /\ pc = "bcast"
      BY <2>2, <2>10 DEF BroadcastFails, WriteFails
    <3>3. wpc[who[i]] = "dead"
      BY <3>1, <3>2 DEF LinkOK, Connected
    <3>4. QED
      BY <2>6, <2>9, <3>2, <3>3
  <2>11. CASE DispatchRegister
    <3> DEFINE m == RegisterMsg(who[i])
    <3>1. handle_register(i, m) /\ up[who[i]] # <<>> /\ pc = "read" /\ ~ (ShapeOK(m) /\ m.ns > 0)
      <4>1. handle_register(i, m) /\ up[who[i]] # <<>> /\ pc = "read"
        BY <2>2, <2>11, RegisterFacts DEF DispatchRegister, ReadingSlot
      <4>2. fd' # fd
        BY <2>5, <2>6, ConstantFacts DEF handle_disconnect, Active, Occupied, RInv, IInv, TypeOK, ServerTypeOK
      <4>3. QED
        BY <4>1, <4>2 DEF handle_register
    <3>2. m.nf = Features[who[i]] /\ m.ns = Samples[who[i]]
      BY DEF RegisterMsg
    <3>3. m.nf \in Nat \ {0} /\ m.ns > 0 /\ num_features \in 1 .. MaxFeatures
      BY <2>6, <3>2, ConstantsAssumption DEF ConstantsAssumption, RInv, IInv, TypeOK, ServerTypeOK
    <3>4. m.nf # num_features
      BY <3>1, <3>3, ConstantFacts DEF ShapeOK
    <3>5. QED
      BY <2>6, <2>9, <3>1, <3>2, <3>4
  <2>12. QED
    BY <2>5, <2>8, <2>10, <2>11
<1>2. QED
  BY <1>1, RoundInvariance, PTL DEF OnlyDroppedFdsForgotten, Spec
=============================================================================
