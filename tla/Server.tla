------------------------------- MODULE Server -------------------------------
(***************************************************************************)
(* The parameter server (server.c): the worker table, the select() loop of *)
(* main and the handlers it calls.  The server is one thread; a step here  *)
(* is the code between two system calls, so worker processes interleave    *)
(* with it wherever the outcome of a system call can depend on them.       *)
(*                                                                         *)
(* Definitions named Mutant_X are X with a bug put in.  Nothing uses them: *)
(* each is substituted for X to see that a property notices.               *)
(***************************************************************************)
EXTENDS Network

VARIABLES
  fd,                 \* per slot: the descriptor, NoFd when the slot is empty
  who,                \* per slot: the connection behind fd (kernel state)
  state,              \* per slot: 0 new, 1 registered, 2 sent weights
  num_samples,        \* per slot: the sample count registered
  partial,            \* per slot: recv_buf holds the start of a message
  gradient_received,  \* per slot: gradient of the current round is in
  gradients,          \* per slot: the model the stored gradient was taken at
  allset, rset, maxfd,  \* select() bookkeeping of main
  num_features, current_round, weights_broadcast,  \* locals of main
  global_weights,     \* the model: updates applied since init_weights
  pc, cursor,         \* where main is, and its loop index
  outcome             \* how main left its loop

slotVars == <<fd, who, state, num_samples, partial, gradient_received, gradients>>
selectVars == <<allset, rset, maxfd>>
trainVars == <<num_features, current_round, weights_broadcast, global_weights>>
serverVars == <<slotVars, selectVars, trainVars, pc, cursor, outcome>>

ServerTypeOK ==
  /\ fd \in [Slots -> Fds \cup {NoFd}]
  /\ who \in [Slots -> Workers \cup {NoWorker}]
  /\ state \in [Slots -> 0 .. 2]
  /\ num_samples \in [Slots -> Nat]
  /\ partial \in [Slots -> BOOLEAN]
  /\ gradient_received \in [Slots -> BOOLEAN]
  /\ gradients \in [Slots -> Models]
  /\ allset \subseteq Fds \cup {ListenFd}
  /\ rset \subseteq Fds \cup {ListenFd}
  /\ maxfd \in Fds \cup {ListenFd}
  /\ num_features \in 1 .. MaxFeatures
  /\ current_round \in 0 .. MaxRounds
  /\ weights_broadcast \in BOOLEAN
  /\ global_weights \in Nat
  /\ pc \in {"select", "accept", "read", "train", "bcast", "check", "done",
             "shutdown", "exited"}
  /\ cursor \in 0 .. MaxWorkers
  /\ outcome \in {"running", "complete", "abandoned", "select_failed", "killed"}

ServerInit ==
  /\ fd = [i \in Slots |-> NoFd]
  /\ who = [i \in Slots |-> NoWorker]
  /\ state = [i \in Slots |-> 0]
  /\ num_samples = [i \in Slots |-> 0]
  /\ partial = [i \in Slots |-> FALSE]
  /\ gradient_received = [i \in Slots |-> FALSE]
  /\ gradients = [i \in Slots |-> 0]
  /\ allset = {ListenFd}
  /\ rset = {}
  /\ maxfd = ListenFd
  /\ num_features = MaxFeatures
  /\ current_round = 0
  /\ weights_broadcast = FALSE
  /\ global_weights = 0
  /\ pc = "select"
  /\ cursor = 0
  /\ outcome = "running"

-----------------------------------------------------------------------------
(* The worker table.                                                       *)

Occupied(i) == fd[i] # NoFd
Active == {i \in Slots : Occupied(i)}
Registered == {i \in Active : state[i] >= 1}
Training == {i \in Active : state[i] = 2}
OpenFds == {fd[i] : i \in Active}

\* The new maxfd, a set with one element; or the table is not looked through.
Mutant_Maxima(S) == {ListenFd}
Maxima(S) == {f \in S : \A g \in S : g <= f}

GoTo(label) == pc' = label /\ cursor' = 0

\* The next iteration of the loop over the slots.
NextSlot == cursor' = cursor + 1 /\ UNCHANGED pc

\* add_worker: the first empty slot takes the connection, every field reset.
add_worker(i, f, w) ==
  /\ ~ Occupied(i)
  /\ \A j \in Slots : j < i => Occupied(j)
  /\ fd' = [fd EXCEPT ![i] = f]
  /\ who' = [who EXCEPT ![i] = w]
  /\ state' = [state EXCEPT ![i] = 0]
  /\ num_samples' = [num_samples EXCEPT ![i] = 0]
  /\ partial' = [partial EXCEPT ![i] = FALSE]
  /\ gradient_received' = [gradient_received EXCEPT ![i] = FALSE]
  /\ gradients' = [gradients EXCEPT ![i] = 0]

\* The descriptor of the slot is closed but kept.
Mutant_handle_disconnect(i) ==
  /\ hungup' = [hungup EXCEPT ![who[i]] = TRUE]
  /\ state' = [state EXCEPT ![i] = 0]
  /\ partial' = [partial EXCEPT ![i] = FALSE]
  /\ gradient_received' = [gradient_received EXCEPT ![i] = FALSE]
  /\ UNCHANGED <<fd, who, num_samples, gradients>>

\* handle_disconnect: close the socket and clear the slot.  allset and maxfd
\* are locals of main and stay as they are.
handle_disconnect(i) ==
  /\ hungup' = [hungup EXCEPT ![who[i]] = TRUE]
  /\ fd' = [fd EXCEPT ![i] = NoFd]
  /\ who' = [who EXCEPT ![i] = NoWorker]
  /\ state' = [state EXCEPT ![i] = 0]
  /\ partial' = [partial EXCEPT ![i] = FALSE]
  /\ gradient_received' = [gradient_received EXCEPT ![i] = FALSE]
  /\ UNCHANGED <<num_samples, gradients>>

-----------------------------------------------------------------------------
(* One iteration of the loop of main, from select() to the last slot read. *)

\* A descriptor select() looks at, that is no longer open.
BadFds == {f \in allset : f <= maxfd} \ (OpenFds \cup {ListenFd})

Ready ==
  {f \in OpenFds \cap allset :
     /\ f <= maxfd
     /\ \E i \in Active : fd[i] = f /\ Readable(who[i])}
  \cup (IF backlog # <<>> THEN {ListenFd} ELSE {})

\* The loops look at the set that was given to select(), not at its result.
Mutant_Select ==
  /\ pc = "select"
  /\ BadFds = {}
  /\ Ready # {}
  /\ rset' = allset
  /\ GoTo("accept")
  /\ UNCHANGED <<netVars, slotVars, allset, maxfd, trainVars, outcome>>

\* select() returns the readable descriptors.  Its ten second timeout and
\* EINTR go back to select() with nothing changed.
Select ==
  /\ pc = "select"
  /\ BadFds = {}
  /\ Ready # {}
  /\ rset' = Ready
  /\ GoTo("accept")
  /\ UNCHANGED <<netVars, slotVars, allset, maxfd, trainVars, outcome>>

\* select() fails with EBADF and main leaves the loop.
SelectFails ==
  /\ pc = "select"
  /\ BadFds # {}
  /\ outcome' = "select_failed"
  /\ GoTo("shutdown")
  /\ UNCHANGED <<netVars, slotVars, selectVars, trainVars>>

\* The listening socket is readable and a slot is free: accept() returns the
\* lowest descriptor not in use.
Accept ==
  /\ pc = "accept"
  /\ ListenFd \in rset
  /\ backlog' = Tail(backlog)
  /\ \E f \in Fds, i \in Slots :
       /\ f \notin OpenFds
       /\ \A g \in Fds : g < f => g \in OpenFds
       /\ add_worker(i, f, Head(backlog))
       /\ allset' = allset \cup {f}
       /\ maxfd' = IF f > maxfd THEN f ELSE maxfd
  /\ GoTo("read")
  /\ UNCHANGED <<up, down, peer, hungup, rset, trainVars, outcome>>

\* FD_SET comes before the search for a slot.
Mutant_AcceptTableFull ==
  /\ pc = "accept"
  /\ ListenFd \in rset
  /\ Active = Slots
  /\ backlog' = Tail(backlog)
  /\ hungup' = [hungup EXCEPT ![Head(backlog)] = TRUE]
  /\ allset' = allset \cup (Fds \ OpenFds)
  /\ GoTo("read")
  /\ UNCHANGED <<up, down, peer, slotVars, rset, maxfd, trainVars, outcome>>

\* No free slot: the connection is closed at once.
AcceptTableFull ==
  /\ pc = "accept"
  /\ ListenFd \in rset
  /\ Active = Slots
  /\ backlog' = Tail(backlog)
  /\ hungup' = [hungup EXCEPT ![Head(backlog)] = TRUE]
  /\ GoTo("read")
  /\ UNCHANGED <<up, down, peer, slotVars, selectVars, trainVars, outcome>>

\* accept() may fail for a connection that was reset while it was pending.
AcceptFails ==
  /\ pc = "accept"
  /\ ListenFd \in rset
  /\ peer[Head(backlog)] = "rst"
  /\ backlog' = Tail(backlog)
  /\ GoTo("read")
  /\ UNCHANGED <<up, down, peer, hungup, slotVars, selectVars, trainVars, outcome>>

NothingToAccept ==
  /\ pc = "accept"
  /\ ListenFd \notin rset
  /\ GoTo("read")
  /\ UNCHANGED <<netVars, slotVars, selectVars, trainVars, outcome>>

\* The slot the reading loop is at was reported readable.
ReadingSlot ==
  /\ pc = "read"
  /\ cursor \in Active
  /\ fd[cursor] \in rset

ReadSkip ==
  /\ pc = "read"
  /\ cursor \in Slots
  /\ ~ ReadingSlot
  /\ NextSlot
  /\ UNCHANGED <<netVars, slotVars, selectVars, trainVars, outcome>>

\* accumulate_read returns 0: the bytes read do not complete a message.  The
\* remainder of a whole message stays unread, that of a fragment never comes.
ReadIncomplete ==
  /\ ReadingSlot
  /\ LET w == who[cursor] IN
       /\ up[w] # <<>>
       /\ \/ /\ Head(up[w]) = Fragment
             /\ up' = [up EXCEPT ![w] = Tail(@)]
          \/ /\ Head(up[w]) # Fragment
             /\ ~ partial[cursor]
             /\ UNCHANGED up
  /\ partial' = [partial EXCEPT ![cursor] = TRUE]
  /\ NextSlot
  /\ UNCHANGED <<down, peer, hungup, backlog, fd, who, state, num_samples,
                 gradient_received, gradients, selectVars, trainVars, outcome>>

\* An incomplete message is taken for a disconnect.
Mutant_ReadFails(i) ==
  IF up[who[i]] = <<>> THEN peer[who[i]] # "open" ELSE ~ partial[i]

\* read() returns 0 or -1.
ReadFails(i) == up[who[i]] = <<>> /\ peer[who[i]] # "open"

\* accumulate_read returns -1 on end of file or error: the slot is cleared
\* and the descriptor leaves the select() set.
ReadDisconnect ==
  /\ ReadingSlot
  /\ ReadFails(cursor)
  /\ handle_disconnect(cursor)
  /\ allset' = allset \ {fd[cursor]}
  /\ IF fd[cursor] = maxfd THEN maxfd' \in Maxima(OpenFds' \cup {ListenFd})
     ELSE UNCHANGED maxfd
  /\ NextSlot
  /\ UNCHANGED <<up, down, peer, backlog, rset, trainVars, outcome>>

\* The feature count is still the initial one, to be learned.
Mutant_Learning == TRUE
Learning == num_features = MaxFeatures

Mutant_ShapeOK(m) == m.nf \in 1 .. MaxFeatures
Mutant_NoUpperBound(m) == m.nf > 0 /\ (Learning \/ m.nf = num_features)
ShapeOK(m) == m.nf \in 1 .. MaxFeatures /\ (Learning \/ m.nf = num_features)

\* handle_register: validate the shape, learn it from a worker that registers
\* while num_features is still MAX_FEATURES, drop the worker on a mismatch.
handle_register(i, m) ==
  /\ num_features' = IF ShapeOK(m) THEN m.nf ELSE num_features
  /\ global_weights' = IF ShapeOK(m) /\ Learning THEN 0 ELSE global_weights
  /\ \/ /\ ShapeOK(m) /\ m.ns > 0
        /\ num_samples' = [num_samples EXCEPT ![i] = m.ns]
        /\ state' = [state EXCEPT ![i] = 1]
        /\ partial' = [partial EXCEPT ![i] = FALSE]
        /\ UNCHANGED <<hungup, fd, who, gradient_received, gradients>>
     \/ /\ ~ (ShapeOK(m) /\ m.ns > 0)
        /\ handle_disconnect(i)

\* handle_gradient: a gradient of another round or of an impossible size is
\* discarded.
handle_gradient(i, m) ==
  IF m.nf \in 1 .. MaxFeatures /\ m.round = current_round
  THEN /\ gradients' = [gradients EXCEPT ![i] = m.model]
       /\ gradient_received' = [gradient_received EXCEPT ![i] = TRUE]
  ELSE UNCHANGED <<gradients, gradient_received>>

\* accumulate_read returns 1 and dispatch_message consumes the message.  The
\* read is taken to end at the message's last byte: bytes of a further message
\* would be the next read's, and OneMessageInFlight shows there are none.
DispatchRegister ==
  /\ ReadingSlot
  /\ LET w == who[cursor] IN
       /\ up[w] # <<>>
       /\ Head(up[w]).type = "register"
       /\ up' = [up EXCEPT ![w] = Tail(@)]
       /\ handle_register(cursor, Head(up[w]))
  /\ NextSlot
  /\ UNCHANGED <<down, peer, backlog, selectVars, current_round,
                 weights_broadcast, outcome>>

DispatchGradient ==
  /\ ReadingSlot
  /\ LET w == who[cursor] IN
       /\ up[w] # <<>>
       /\ Head(up[w]).type = "gradient"
       /\ up' = [up EXCEPT ![w] = Tail(@)]
       /\ handle_gradient(cursor, Head(up[w]))
  /\ partial' = [partial EXCEPT ![cursor] = FALSE]
  /\ NextSlot
  /\ UNCHANGED <<down, peer, hungup, backlog, fd, who, state, num_samples,
                 selectVars, trainVars, outcome>>

ReadLoopEnds ==
  /\ pc = "read"
  /\ cursor = MaxWorkers
  /\ GoTo("train")
  /\ UNCHANGED <<netVars, slotVars, selectVars, trainVars, outcome>>

-----------------------------------------------------------------------------
(* Training orchestration, the rest of the iteration.                      *)

\* More workers than expected, exactly that many, and no check that training
\* has not begun yet.
Mutant_EnoughWorkers == ~ weights_broadcast /\ Cardinality(Registered) > ExpectedWorkers
Mutant_EnoughExactly == ~ weights_broadcast /\ Cardinality(Registered) = ExpectedWorkers
Mutant_EnoughAgain == Cardinality(Registered) >= ExpectedWorkers

EnoughWorkers == ~ weights_broadcast /\ Cardinality(Registered) >= ExpectedWorkers

\* Start training once enough workers are registered.
TrainStart ==
  /\ pc = "train"
  /\ GoTo(IF EnoughWorkers THEN "bcast" ELSE "check")
  /\ UNCHANGED <<netVars, slotVars, selectVars, trainVars, outcome>>

\* send_weights_to_worker succeeds for the slot broadcast_weights is at.
BroadcastSend ==
  /\ pc = "bcast"
  /\ cursor \in Registered
  /\ Write(who[cursor], WeightsMsg(current_round, num_features, global_weights))
  /\ state' = [state EXCEPT ![cursor] = 2]
  /\ gradient_received' = [gradient_received EXCEPT ![cursor] = FALSE]
  /\ NextSlot
  /\ UNCHANGED <<up, hungup, backlog, fd, who, num_samples, partial, gradients,
                 selectVars, trainVars, outcome>>

\* It fails, and broadcast_weights drops the worker.
BroadcastFails ==
  /\ pc = "bcast"
  /\ cursor \in Registered
  /\ WriteFails(who[cursor])
  /\ handle_disconnect(cursor)
  /\ NextSlot
  /\ UNCHANGED <<up, down, peer, backlog, selectVars, trainVars, outcome>>

BroadcastSkip ==
  /\ pc = "bcast"
  /\ cursor \in Slots \ Registered
  /\ NextSlot
  /\ UNCHANGED <<netVars, slotVars, selectVars, trainVars, outcome>>

\* weights_broadcast is never set.
Mutant_BroadcastEnds ==
  /\ pc = "bcast"
  /\ cursor = MaxWorkers
  /\ GoTo(IF weights_broadcast THEN "select" ELSE "check")
  /\ UNCHANGED <<netVars, slotVars, selectVars, trainVars, outcome>>

\* broadcast_weights returns 0.  The first broadcast goes on to the checks of
\* this iteration, a later one was the last thing the iteration did.
BroadcastEnds ==
  /\ pc = "bcast"
  /\ cursor = MaxWorkers
  /\ weights_broadcast' = TRUE
  /\ GoTo(IF weights_broadcast THEN "select" ELSE "check")
  /\ UNCHANGED <<netVars, slotVars, selectVars, num_features, current_round,
                 global_weights, outcome>>

Mutant_AllGone == FALSE
AllGone == weights_broadcast /\ Active = {}

\* Training has begun and no connection is left.
Abandon ==
  /\ pc = "check"
  /\ AllGone
  /\ outcome' = "abandoned"
  /\ GoTo("shutdown")
  /\ UNCHANGED <<netVars, slotVars, selectVars, trainVars>>

\* One gradient is enough; the loop starts at slot 1; registered workers that
\* were sent nothing are waited for.
Mutant_any_gradient == Active # {} /\ \E i \in Training : gradient_received[i]
Mutant_from_slot_1 == Active # {} /\ \A i \in Training \ {0} : gradient_received[i]
Mutant_all_registered == Active # {} /\ \A i \in Registered : gradient_received[i]

all_gradients_received ==
  Active # {} /\ \A i \in Training : gradient_received[i]

KeepWaiting ==
  /\ pc = "check"
  /\ ~ AllGone
  /\ ~ (weights_broadcast /\ all_gradients_received)
  /\ GoTo("select")
  /\ UNCHANGED <<netVars, slotVars, selectVars, trainVars, outcome>>

Contributors == {i \in Training : gradient_received[i]}

\* The model is updated once per gradient.
Mutant_aggregate_and_update(lossBelowThreshold) ==
  /\ global_weights' = global_weights + Cardinality(Contributors)
  /\ Contributors = {} => lossBelowThreshold
  /\ gradient_received' = [i \in Slots |-> gradient_received[i] /\ i \notin Training]

\* aggregate_and_update: one update of the model, the flags reset.  Without
\* samples the average gradient is zero and the loss stays at its 0.0.
aggregate_and_update(lossBelowThreshold) ==
  /\ LET hasSamples == \E i \in Contributors : num_samples[i] > 0 IN
       /\ global_weights' = global_weights + (IF hasSamples THEN 1 ELSE 0)
       /\ ~ hasSamples => lossBelowThreshold
  /\ gradient_received' = [i \in Slots |-> gradient_received[i] /\ i \notin Training]

Mutant_check_termination(lossBelowThreshold) ==
  lossBelowThreshold \/ current_round > MaxRounds

\* check_termination
check_termination(lossBelowThreshold) ==
  lossBelowThreshold \/ current_round >= MaxRounds

Aggregate ==
  /\ pc = "check"
  /\ weights_broadcast
  /\ all_gradients_received
  /\ \E lossBelowThreshold \in BOOLEAN :
       /\ aggregate_and_update(lossBelowThreshold)
       /\ \/ /\ check_termination(lossBelowThreshold)
             /\ outcome' = "complete"
             /\ GoTo("done")
             /\ UNCHANGED current_round
          \/ /\ ~ check_termination(lossBelowThreshold)
             /\ current_round' = current_round + 1
             /\ GoTo("bcast")
             /\ UNCHANGED outcome
  /\ UNCHANGED <<netVars, fd, who, state, num_samples, partial, gradients,
                 selectVars, num_features, weights_broadcast>>

\* broadcast_done gives up at the first write that fails.
Mutant_DoneSend ==
  /\ pc = "done"
  /\ cursor \in Training
  /\ \/ Write(who[cursor], DoneMsg(num_features, global_weights)) /\ cursor' = cursor + 1
     \/ WriteFails(who[cursor]) /\ cursor' = MaxWorkers /\ UNCHANGED <<down, peer>>
  /\ UNCHANGED <<pc, up, hungup, backlog, slotVars, selectVars, trainVars, outcome>>

\* broadcast_done: a write that fails is logged and the loop goes on.
DoneSend ==
  /\ pc = "done"
  /\ cursor \in Training
  /\ \/ Write(who[cursor], DoneMsg(num_features, global_weights))
     \/ WriteFails(who[cursor]) /\ UNCHANGED <<down, peer>>
  /\ NextSlot
  /\ UNCHANGED <<up, hungup, backlog, slotVars, selectVars, trainVars, outcome>>

DoneSkip ==
  /\ pc = "done"
  /\ cursor \in Slots \ Training
  /\ NextSlot
  /\ UNCHANGED <<netVars, slotVars, selectVars, trainVars, outcome>>

DoneEnds ==
  /\ pc = "done"
  /\ cursor = MaxWorkers
  /\ GoTo("shutdown")
  /\ UNCHANGED <<netVars, slotVars, selectVars, trainVars, outcome>>

\* Every socket is closed, by main or by the kernel.  A socket closed with
\* unread input resets its connection, which may destroy what the worker has
\* not read yet.
CloseAll ==
  LET closed == {who[i] : i \in Active} \cup {backlog[n] : n \in DOMAIN backlog}
  IN  /\ hungup' = [w \in Workers |-> hungup[w] \/ w \in closed]
      /\ \E lost \in SUBSET {w \in closed : up[w] # <<>>} :
           down' = [w \in Workers |-> IF w \in lost THEN <<>> ELSE down[w]]
      /\ backlog' = <<>>
      /\ GoTo("exited")
      /\ UNCHANGED <<up, peer, slotVars, selectVars, trainVars>>

Shutdown ==
  /\ pc = "shutdown"
  /\ CloseAll
  /\ UNCHANGED outcome

\* The server process is killed.
ServerCrash ==
  /\ ServerMayDie
  /\ pc # "exited"
  /\ CloseAll
  /\ outcome' = "killed"

ServerNext ==
  \/ Select \/ SelectFails
  \/ Accept \/ AcceptTableFull \/ AcceptFails \/ NothingToAccept
  \/ ReadSkip \/ ReadIncomplete \/ ReadDisconnect
  \/ DispatchRegister \/ DispatchGradient \/ ReadLoopEnds
  \/ TrainStart \/ BroadcastSend \/ BroadcastFails \/ BroadcastSkip \/ BroadcastEnds
  \/ Abandon \/ KeepWaiting \/ Aggregate
  \/ DoneSend \/ DoneSkip \/ DoneEnds \/ Shutdown
=============================================================================
