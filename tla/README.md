# Verification of the distributed training system

A parameter server (`server.c`) trains one model with several worker processes
(`worker.c`) over TCP; each worker reads a shard of the samples (`data.c`),
which a generator may have written (`gen_data.c`).  This directory models that
system in TLA+, checks it with TLC on small instances, and proves with TLAPS,
for every value of the constants, each invariant and action property that the
passing runs check, and that the system and its two message readers implement
their abstract specifications.

## 1. The system

| Component | State it keeps | Operations |
| --- | --- | --- |
| Worker table and `select()` loop (`server.c` main, 414-482; `add_worker`, `handle_disconnect`; `net_utils.c`) | `workers[MAX_WORKERS]` (`fd`, `state`, `num_samples`, `recv_buf`/`recv_len`, `gradients`, `gradient_received`), `allset`, `rset`, `maxfd` | select, accept into a free slot, one `read()` per readable slot, drop a slot |
| Training orchestration (`server.c` main, 484-535; the handlers) | `num_features`, `current_round`, `weights_broadcast`, `global_weights` | register, store a gradient, broadcast weights, barrier, aggregate, decide to stop, broadcast DONE |
| Worker process (`worker.c`) | where `main` is, the round and the array `weights` it received last | connect, register, receive weights, send a gradient, receive DONE, give up |
| Wire protocol (`protocol.h`, `io_utils.c`) | bytes of a message in `recv_buf` | `accumulate_read`, `read_all`, `write_all`, headers |
| Connections (kernel, through `net_utils.c`, `io_utils.c`) | two byte streams per connection, the ends of it, the backlog of `listen()` | connect, accept, read, write, close, reset |
| Model arithmetic (`model.c`; `aggregate_and_update`) | weights, the last loss | gradient of a shard, weighted average, update |
| Data loader (`data.c`) | counts of the first pass, the two arrays, what is allocated | parse a CSV shard in two passes |
| Shard generator (`gen_data.c`) | shard and row | split the samples, write the shard files |

How they interact.  Workers and server share nothing but a connection each.
A worker sends one `MSG_REGISTER`; when `expected_workers` slots are registered
the server sends `MSG_WEIGHTS` to each of them (slot state 2), and a worker
answers each `MSG_WEIGHTS` with one `MSG_GRADIENT` of the same round.  The
round is a barrier: when every slot in state 2 has delivered, the server
averages, then either sends the next round's weights (to workers that joined
meanwhile, too) or `MSG_DONE`.  The server is one thread: it may wait in
`select()` and nowhere else.

What is hard here.  The table, `allset`/`maxfd` and the kernel's descriptors
are three records of the same connections, updated at different places, and
descriptor numbers are reused.  `rset` is a snapshot used while handlers close
and open connections.  Workers die at any time: before, during or after the
write that is meant for them, or in the middle of a message.  Workers join
late.  The barrier must wait for exactly those that were sent this round's
weights.  `MAX_FEATURES` doubles as "no feature count learned yet".  What makes
each part correct:

- table and loop: one slot per connection, no closed descriptor in use, every
  slot watched, no blocking read, only dead workers dropped;
- orchestration: one gradient per participant and round, none stale, none of
  another shape, one update per round, a barrier nobody dead can hold, an end;
- worker: never computes on weights it received in part, ends when the server
  ends, ends with the server's final model;
- protocol: whatever way the bytes are cut into reads, each side sees whole
  messages, once and in order; nobody reads into a full buffer, which would be
  taken for a disconnect; never two messages in one direction, which the
  blocking writes of the broadcast rely on;
- arithmetic: a round is one step of gradient descent on the samples of its
  contributors, however they are spread over the workers;
- loader and generator: every sample is in exactly one shard, is loaded as it is
  written, and no error path leaks.

`PROJECT.json` lists every hazard at its line, with the properties that cover
it; a note says where a property covers less than the whole of it.

## 2. The modules

The system, message by message, and what it implements:

    Protocol  <-  Network  <-  Server  \
                           <-  Worker   >  Training  <-  Refinement  <-  MCTraining (TLC)
                                       /
    SyncTraining  (instantiated by Refinement)
    Training  <-  TrainingProofs  <-  RoundProofs  \
                                       Refinement   >  RefinementProofs (TLAPS)

A connection, byte by byte, at the server's and at the worker's end:

    ByteStream  <-  FrameReader     <-  MCFrameReader (TLC), FrameProofs (TLAPS)
                <-  BlockingReader  <-  MCBlockingReader (TLC), ReaderProofs (TLAPS)
                <-  StreamProofs (TLAPS, used by FrameProofs and ReaderProofs)
    MessageChannel  (instantiated by both readers)

The data and the arithmetic:

    CsvLines  <-  GenData     \
              <-  DataLoader   >  ShardLoading  <-  MCShardLoading (TLC), LoaderProofs (TLAPS)
    ModelArithmetic  <-  MCModelArithmetic (TLC), ArithmeticProofs (TLAPS)

The three groups meet at their interfaces.  `Network` and `Server` take for
granted that a connection carries whole messages in order, that a message
arrives at the handler once, and that the start of a message may sit in a slot
(`partial`): this is what the byte-level modules show.  `Server` counts updates
of the model; `ModelArithmetic` says what an update is.  `Features` and `Samples`
in `Protocol` are what a worker's `load_data` returned.

**Protocol** - the constants of `protocol.h`, what the command lines and shards
decide (`ExpectedWorkers`, `Features`, `Samples`), and the four messages.
A vector of floats is abstracted to the model it belongs to: the number of
updates applied since `init_weights`, or `Mixed` for an array of which only a
prefix was received.  This is what the properties tell apart: whether a
gradient belongs to the model it is applied to, and whether two processes hold
the same model.  Losses become a free choice "below the threshold or not",
except that a round without samples leaves the loss at its initial 0.0, as
`aggregate_and_update` does.

**Network** - the kernel as the code uses it (external): FIFO streams `up` and
`down`, the worker's end `peer` (`none`, `open`, `fin` = closed in order,
`rst` = reset), whether the server closed its end (`hungup`), the `backlog`.
A write of the server to a closed end succeeds and is answered by a reset;
a write to a reset connection fails.  A close with unread input may destroy
what is on its way to the other side.

**Server** - one step is the code between two system calls.  `pc` and `cursor`
say where `main` is and which slot its loop is at:

| `pc` | Actions | Code in `server.c` |
| --- | --- | --- |
| `select` | `Select`, `SelectFails` | 415-431 |
| `accept` | `Accept`, `AcceptTableFull`, `AcceptFails`, `NothingToAccept` | 433-446 |
| `read` | `ReadSkip`, `ReadIncomplete`, `ReadDisconnect`, `DispatchRegister`, `DispatchGradient`, `ReadLoopEnds` | 448-482, with `dispatch_message` and its handlers |
| `train` | `TrainStart` | 484-501 |
| `bcast` | `BroadcastSend`, `BroadcastFails`, `BroadcastSkip`, `BroadcastEnds` | 85-95, called at 493 and 525 |
| `check` | `Abandon`, `KeepWaiting`, `Aggregate` | 503-524 |
| `done` | `DoneSend`, `DoneSkip`, `DoneEnds` | 241-270, 518-522 |
| `shutdown` | `Shutdown` | 537-543 |

`who` is the connection the kernel has behind a slot's descriptor; `fd` is
the number, and `accept()` returns the lowest free one, so numbers are
reused as in reality.  `recv_buf` is reduced to `partial`: `accumulate_read`
may return 0 once per message (`ReadIncomplete`), and the start of a message
whose sender died stays in the slot until the disconnect clears it.
`handle_disconnect` leaves `allset` and `maxfd` alone, as in the code; only
`ReadDisconnect` repairs them.  `ServerCrash` (the process is killed) is not a
step of the program and is outside `ServerNext`.

**Worker** - one process each; `wpc` goes `idle`, `connected`, `waiting`,
`computing`, `waiting`, ..., and ends in `done`, `exited` or `dead`.  A process
opens one connection in its life (there is no reconnect in the code; a
restarted worker is another member of `Workers`).  `Crash` is the end of the
process or of its connection at any point, with all that may then be left in
the streams: everything, a fragment of the last message, or nothing.

**Training** - the composition, `Spec`, the fair specifications and the
properties of the system.

**SyncTraining** - the abstract specification, with no connections, slots or
messages: a round enrols members, collects one gradient of each member that
stays, and updates the model once; when training is over a worker may learn the
final model.  `FairSpec` adds that a round with members is collected, that a
round all members have answered ends, and that a member answers or leaves.

**Refinement** - the mapping.  `SyncPhase` is "enrolling" up to the end of a
broadcast, "collecting" while gradients are awaited, "over" once `main` knows
its outcome; members are the workers in slots of state 2; what they gave is
the model behind their stored gradient.  Registration, a late worker, reads,
slots that change hands and the sending of DONE are stuttering steps.
`ImplementsSync` and `ImplementsFairSync` are checked as properties.

**ByteStream** - a sender that frames messages (`send_header`, then `write_all`
of the payload, each in as many `write()`s as the kernel likes), the bytes
the kernel holds, the end of the connection at any point, and the next
connection after it.  A byte is the message it belongs to and its position
there, so a reader that loses its place is seen at once.

**FrameReader** - one slot of the server: `add_worker`, `accumulate_read` (one
`read()` of any length), `dispatch_message` with the move of the rest to the
front, the loop of `main` that dispatches until no whole message is left, and
`handle_disconnect`, also from within a handler, after which `recv_len` is
negative until the slot is used again.  The sender registers and goes on with
gradients without waiting for weights.  That is more than the workers of this
repository do (`OneMessageInFlight`), but project.tex:469-472 says the loop
and the `memmove` handle it, so they are checked against it.

**BlockingReader** - the worker: `read_all` of a header, then the branch for the
type; with the branches for messages this server never sends (too short for
weights, unknown type, which is drained through a buffer of fixed size).  Each
branch reads the payload the header announces, but for `handle_done`: it does not
look at the header and reads `OwnDone` bytes, 8 and a float for each of the
worker's own features.  `DoneKinds` are the `MSG_DONE` of the different feature
counts.  `Misfits` are those of another size: a shorter one makes the worker wait
for bytes that never come, until the server closes; of a longer one, which this
server never sends, it takes the beginning for the whole.

**MessageChannel** - the abstract specification of both: a FIFO channel of
messages that are delivered whole, once and in order, per connection.  A message
its reader takes for one of another size (`Misfits`, none at the server's end) is
not delivered; the connection is given up at it.

**CsvLines**, **DataLoader** - a file is a sequence of lines, a line a sequence
of commas, numbers, blanks and a newline; a number is the place where it stands,
which is what tells one cell from another.  `Tokens` is where `strtok_r` starts
the pieces of a line and `Token` which of them is its c-th, `FieldStart` is what
the commas mean.  `DataLoader` has one action per
`getline` and per early return of `load_data`, with `held` for what is
allocated and open; each early return names what its own `free` and `fclose` calls
release.  **GenData** is `main` of `gen_data.c` with arguments up to `MaxArg`, and
**ShardLoading** runs `load_data` on one of the shards written, or on any of `Files`.

**ModelArithmetic** - the gradient of each worker and the weighted average and
update of the server, in fractions of `Unit`.  `ArithmeticAssumption` says that
`Unit` is fine enough for each worker's own division to be exact, so no result
depends on rounding.

**MCTraining**, **MCFrameReader**, **MCBlockingReader**, **MCShardLoading**,
**MCModelArithmetic** - the instances for TLC.  **TrainingProofs**,
**RoundProofs**, **RefinementProofs**, **StreamProofs**, **FrameProofs**,
**ReaderProofs**, **LoaderProofs**, **ArithmeticProofs** - the theorems (section 5).

Definitions named `Mutant_X` are `X` with a plausible bug.  The specification
does not use them; each one, put in the place of `X`, makes TLC report the
property that `PROJECT.json` pairs it with.

## 3. The runs

Each run has a `.cfg` of its name.

| Run | Instance | Shows |
| --- | --- | --- |
| `rounds` | 3 equal workers, 2 slots, all may die | the table, the barrier and the model are consistent in every interleaving, and the system implements synchronous training: `TypeOK`, `SelectCoversSlots`, `ReadNeverBlocks`, `OneMessageInFlight`, `RoundLockstep`, `NoStaleGradient`, `GradientsFitModel`, `ModelFollowsRounds`, `BarrierNotStuck`, `FinalModelAgreement`, `OnlyDeadParticipantsDropped`, `NoWorkLeftBehind`, `ImplementsSync` |
| `shapes` | shards of 4, 2 and 1 features with `MaxFeatures` = 3 | rejected registrations and the descriptors they leave behind, and that only they and failed broadcasts do: `SelectCoversSlots`, `OnlyDroppedFdsForgotten`; one shape in the table, the messages and the gradients: `FeatureAgreement`, `GradientsFitModel`, `WeightsComplete`, `WorkerBuffersSuffice` |
| `progress` | 2 workers, 2 rounds, both and the server may die | `ImplementsFairSync`: rounds are collected and end; `TrainingEnds`: training that has begun leads to the exit of every process; `ParticipantsFinish`: who is in the last round gets its `MSG_DONE` or has died |
| `silent` | 3 workers, 2 slots; only the server is fair | `EveryWorkerServed`: a silent worker keeps nobody's connection or message waiting; `TrainingStarts`: nor enough registered workers from starting |
| `frames` | 3 connections of up to 4 messages through one buffer | `ReadHasRoom`, `ImplementsChannel`, `DeliversAll` |
| `worker_frames` | a connection of 3 messages of 7 kinds, 3 of them `MSG_DONE` (as long as `handle_done` reads, shorter, longer) | `WorkerImplementsChannel`, `WorkerDeliversAll`; `WorkerNoticesClose`: the worker comes to its end wherever the stream breaks off |
| `shards` | up to 5 samples and 5 shards, and about 4000 other files | `SplitExactly`, `NothingLeaked`, `LoadsExactlyTables`, `RowsLoadedAsWritten`, `ShardsLoad` |
| `average` | 3 workers, shards of 1 or 2 of 3 samples, 2 rounds | `RoundsAreCentralised` |
| `disconnect_is_fatal` | a worker that dies before a broadcast | violated: `NoFatalDisconnect` |
| `empty_aggregate` | a participant that dies while another connection is open | violated: `AggregationHasContributors` |
| `sentinel_reinit` | a first shard of exactly `MAX_FEATURES` features | violated: `ModelFollowsRounds` |
| `empty_field` | the files of `shards` | violated: `FilledOnSuccess` |

**Bounds of the system.**  Three workers and two slots are the least for which a
slot is taken over, the table is full, a worker is late, and a participant, a
late worker and a dead worker exist together.  `MaxRounds` = 1 gives the two
rounds 0 and 1, so a gradient can be stale, a late worker can join at a later
broadcast, and training ends by the round limit as well as by the loss.
`silent` has one round; what it asks about happens at the start and at each
`select()`.  `MaxFeatures` = 3 leaves room for a legal count, a different one,
the mark itself and one beyond it.  No counter needs another bound:
`current_round` is bounded by the code, `global_weights` by the rounds, the
streams by the protocol (`OneMessageInFlight`).  `rounds` uses the symmetry of
the workers, which are interchangeable there; no liveness run uses symmetry.
`progress` has two workers, which is enough for a member that stays with one
that leaves, and for nobody staying.

**Bounds of the streams.**  `frames`: headers of 3 bytes, so a read can stop
twice inside one; a gradient of the largest size (5) fills the buffer of 8
exactly; two small ones (4 each) fill it, too, so two whole messages and the
start of a third can be in one read; `SocketSpace` = 9 lets more wait than the
buffer takes.  Three connections use the slot in turn, the second with large
gradients, so both a longer and a shorter message follow what another connection
left there.  `worker_frames`: headers of 2 bytes, payloads of 0 to 5
bytes, with 5 bytes taking three turns through a draining buffer of 2; `OwnDone` = 3
with `MSG_DONE` payloads of 1, 3 and 4 bytes; three messages let a message that is
skipped wrongly stand between two others, and a short `MSG_DONE` before others whose
bytes `handle_done` then takes for its own.

**Bounds of the data.**  `shards` has all files of at most two lines of at most
three characters, some of three longer lines (an empty field at the start, in
the middle and at the end, a blank line, too few columns), with and without a
newline at the end of the file; the generator's three arguments are 0 to 5, which has
every case of the division: no remainder, the largest one, fewer samples than
shards.  `average`: `Unit` = 240 and features that are small integers make every
division exact; `IntMax` = 5 puts the overflow of the sample count (three
workers with two samples each) into the instance.

**Deadlock.**  Every run says `CHECK_DEADLOCK FALSE`: the system stops when the
processes have exited, and it is at rest when too few workers were started and
the server waits in `select()`; senders and loaders come to their end.  What a
deadlock check would catch is stated by `BarrierNotStuck` and by the liveness
properties instead.

**Fairness.**  `FairSpec` assumes weak fairness of the server thread and of
each worker process as a whole: nothing else than a step's guard can hold
either of them up, because no step depends on a lock or on a race another
process could keep winning.  Starting a worker, dying and being killed are not
fair.  `ServerFairSpec` assumes the server alone, so that a worker may be
silent for ever.  Such a worker holds the barrier, if it takes part (there is no
timeout that drops it), which is why only `FairSpec` promises that rounds end.
The readers are fair for the process that reads and not for the sender, which
may pause or stop in the middle of a message.  The fairness of `SyncTraining` is
not assumed but shown to follow.

## 4. What the violated runs show

- **A dropped worker can end the run for all** (`disconnect_is_fatal`).
  `handle_disconnect` closes the descriptor, but its callers
  `broadcast_weights` and `handle_register` cannot take it out of `main`'s
  `allset`.  The next `select()` fails with `EBADF` and `main` leaves its loop.
  README.md and project.tex say that only that worker is dropped.  The run shows
  it for a broadcast; in `shapes` the same happens after a rejected
  registration.
- **Training can be declared complete without a gradient** (`empty_aggregate`).
  `all_gradients_received` guards against an empty table, not against a table
  with connections of which none is in state 2.
- **The mark for "not learned" is a legal count** (`sentinel_reinit`).  After a
  worker with `MAX_FEATURES` features the count is still open: a worker with
  fewer is admitted, and every registration initialises the weights again, in
  the middle of training, too.
- **An empty field leaves the label unset** (`empty_field`).  `load_data` counts
  columns by commas and splits with `strtok_r`, which joins empty fields: the
  values of such a row move to the left and `y[row]` stays as `malloc` returned
  it, with 0 returned.  If the empty field is the last, this is so on a line without
  a newline at its end only; otherwise the newline is the token for the label, and
  `strtof` makes 0 of it.  `RowsLoadedAsWritten` is therefore about rows without an
  empty field.

One disagreement with a document shows in a property that holds:

- **A slow worker cannot send a stale gradient** (`rounds`, `NoStaleGradient`).
  project.tex:359-363 says of the branch of `handle_gradient` for another round
  (server.c:150) that it "can happen if a worker was slow and is still sending a
  gradient from a previous round's weights", and project.tex:562-563 again that a
  stale gradient is "likely from a slow worker".  The barrier excludes it: the round
  is not left before every participant has delivered, and nobody is sent weights
  twice in a round.  With these workers the branch is dead, in the run for every
  interleaving of its instance and by `GradientsWanted` for any number of workers;
  only a client that is not `worker.c` could reach it.

Not a contradiction of any document, but good to know:

- with fewer samples than shards `gen_data` writes empty files, which
  `load_data` refuses (`ShardsLoad` allows this case only);
- with more workers expected than `MAX_WORKERS` training never starts: nothing
  bounds the argument, and nothing is promised for it (`TrainingStarts` begins with
  as many registered workers as expected, and says nothing there);
- after the case of `sentinel_reinit` the `MSG_DONE` may be of another size than a
  worker's `handle_done` reads; what the worker then does is in `BlockingReader`,
  not in `Worker`, whose runs with liveness have equal shards;
- the sum of the sample counts is an `int`: `RoundsAreCentralised` takes that it
  does not overflow.

A wording to read with care: README.md says the server aggregates once "every
registered worker" has sent its gradient; a worker that registers during a
round is in state 1, gets its first weights with the next broadcast, and is not
waited for before that.  `BarrierNotStuck` and `RoundLockstep` are about the
slots in state 2, as the code is.


## 5. What is proved

Every invariant and every action property (`[][A]_vars`) that a passing run checks
is a theorem, for every value of the constants that the modules' `ASSUME`s allow.
So is the safety half of each refinement.  Five assumptions are more than typing:

- `LearnableShapes` (`RefinementProofs`): no shard has exactly `MaxFeatures`
  features.  It is a hypothesis of each theorem that needs it and not an `ASSUME`,
  because the code does not guarantee it: `sentinel_reinit` is what happens without.
- `ByteStreamAssumption` of the two readers: a header has a byte at least, and no
  payload is larger than the buffer it is read into, as `protocol.h` and the
  check of `num_features` make it.
- `DoneAssumption` (`BlockingReader`): some kinds of message are `MSG_DONE`, and
  `handle_done` reads at least a byte (it reads 8 and more).
- `ArithmeticAssumption`: the workers are finitely many and the
  divisions by a shard's number of samples are exact.
- `UninitialisedAssumption` (`DataLoader`): what `malloc` leaves in an array is told
  apart from numbers of the file.

Each strengthening was checked with TLC on the run of its module before it was
proved.  One property changed on the way: `ModelFollowsRounds` said that a finished
training has one update more than its last round, which a server killed after the
last update and before its exit refutes; it now covers that state.

**The worker table** (`TrainingProofs`).  `IInv` is `TypeOK` with `Consistent`.

| Theorem | Property | Why `TypeOK` is not enough |
| --- | --- | --- |
| `Invariance` | `IInv` | every proof about the system builds on it |
| `TypeCorrect` | `TypeOK` | |
| `TableConsistent` | `SelectCoversSlots` | needs one owner per descriptor and connection, in the table and the backlog alike, because `accept()` reuses the lowest number; a rejected registration may leave a closed descriptor in `allset`, never keep one out of it |
| `NeverBlocksReading` | `ReadNeverBlocks` | what `select()` reported is readable until it is read: a worker only adds to a stream or resets it (`StaysReadable`), and the server reads only the slot at the cursor (`OnlyCursorRead`) |

**The rounds** (`RoundProofs`).  `RInv` adds `RoundsOK`: for each state of a slot and
each place of a worker in its loop, where the one message of their connection can
be.  Nothing weaker is inductive: that a gradient is not stale depends on the
worker having had one message to answer, which depends on the slot not having been
sent another one before the answer.

| Theorem | Property |
| --- | --- |
| `RoundInvariance` | `RInv` |
| `OneMessage` | `OneMessageInFlight` |
| `GradientsWanted` | `NoStaleGradient` |
| `Lockstep` | `RoundLockstep`: participants are never more than a round apart |
| `FinalModel` | `FinalModelAgreement` |
| `BuffersSuffice` | `WorkerBuffersSuffice` |
| `BarrierInvariance` | `BInv`, which is `RInv` with `SomebodyOwes`: outside `check`, some participant still owes a gradient, or a closed descriptor will make `select()` fail |
| `BarrierAlive` | `BarrierNotStuck`: the loop never waits for gradients that are all in, or for nobody |
| `LettingGo` | `OInv`, which is `RInv` with `Detached` (a connected worker without a slot has nothing of a round under way) and `AbandonedOK` (`main` says that all have disconnected with an empty table only) |
| `OnlyDeadDropped` | `OnlyDeadParticipantsDropped`: a live participant keeps its slot, and its connection until the end of `main` - which a failed broadcast for another worker can bring about, by way of `select()` |
| `NothingLeftBehind` | `NoWorkLeftBehind`: the barrier looks at slots; that no worker anywhere is left with work of the round needs `Detached` and `RoundsOK` |
| `OnlyDroppedForgotten` | `OnlyDroppedFdsForgotten`: a closed descriptor stays in `allset` after a failed broadcast or a rejected registration only |

**The model, and synchronous training** (`RefinementProofs`, under
`LearnableShapes`).  `MInv` adds `ShapesOK`: slots, messages and workers hold one
feature count, and what is under way is about the server's current model.

| Theorem | Property |
| --- | --- |
| `ModelInvariance` | `MInv` |
| `OneShape` | `FeatureAgreement` |
| `WholeWeights` | `WeightsComplete` |
| `FittingGradients` | `GradientsFitModel`: of the model it will be applied to, and of its length |
| `OneUpdatePerRound` | `ModelFollowsRounds` |
| `TrainsSynchronously` | `ImplementsSync`: every step of the system is a step of `SyncTraining` or stutters |

The mapping looks up a member's gradient by `CHOOSE`; `GivenModel` shows that the
choice does not matter.  The steps fall into those that are hidden
(`HiddenSteps`, `RegisterHidden`), those by which a worker leaves, is enrolled or
gives (`LeavingSteps`, `Enrols`, `Gives`), and the end of a round (`Ends`).

**The readers** (`StreamProofs`, `FrameProofs`, `ReaderProofs`).

| Theorem | Property |
| --- | --- |
| `AlwaysRoom` | `ReadHasRoom`: no `read()` of length 0, so a full buffer is never taken for a disconnect |
| `ReadsImplementChannel` | `ImplementsChannel`: the server's slot delivers messages whole, once, in order, per connection |
| `WorkerReadsImplementChannel` | `WorkerImplementsChannel`: the worker's loop too, up to a `MSG_DONE` of another size than `handle_done` reads |

`AlwaysRoom` needs that an incomplete message leaves room (`RoomWhileIncomplete`),
and allows for the negative `recv_len` that a disconnect from within a handler
leaves.  For the channel, `StreamOK` states that all bytes under way - in the reader's
buffer, in the kernel, not yet written - are messages one after the other.  It
is said byte by byte, by what stands around each byte (`Whole`, `InOrder`,
`Distinct`), so that appending a message, cutting off bytes and moving the
rest each follow by arithmetic on indices and no induction on the messages is
needed.  `Written` ties these bytes to the messages the sender has completed.

**Loader and generator** (`LoaderProofs`).

| Theorem | Property |
| --- | --- |
| `LoaderInvariance` | `GenInv /\ LoadInv`: what is counted and what is in the arrays, after each line of each pass |
| `LoadsExactly` | `LoadsExactlyTables`: 0 is returned for tables only, and for each of them if no call fails; no cell is outside the arrays |
| `LoadsAsWritten` | `RowsLoadedAsWritten` |
| `ShardsAreLoaded` | `ShardsLoad`: the loader takes what the generator writes, for any `MaxArg`, with any number of features |
| `SplitsExactly` | `SplitExactly`: for all numbers of samples and shards |
| `NeverLeaks` | `NothingLeaked`: what each return releases covers what each point of `load_data` may hold (`HeldInv`) |

The files are any sequences of any of the lines, of any length.  What does the work
is that the pieces of a line are numbered by how many start before them
(`TokenIs`), the fields by their commas (`FieldIs`), and that these agree
in a line without an empty field (`TokenIsField`).

**The arithmetic** (`ArithmeticProofs`).

| Theorem | Property |
| --- | --- |
| `TrainingIsCentralised` | `RoundsAreCentralised`: whichever workers contribute and however the samples are spread, the round is the step of gradient descent on all of them, while the sum of the counts is an `int` |

It rests on lemmas about sums over finite sets, which the library lacks: a sum
does not depend on the order (`AddsExists`, `AddsUnique`), one summand can
be taken out (`SumWithout`), and a sum over pairs is a sum of sums (`SumPairs`).

Where an argument by induction is needed - counting, numbering, sums - the proofs
take the smallest counterexample (`LeastNumber`, `SmallestSet`), which needs no
theorem with an operator as parameter.

**Only model-checked.**  Liveness: `TrainingEnds`, `ParticipantsFinish`,
`EveryWorkerServed`, `TrainingStarts`, `DeliversAll`, `WorkerDeliversAll`,
`WorkerNoticesClose`, and `ImplementsFairSync` as far as it says more than `ImplementsSync`.  The provers
have no rule for `ENABLED`, which fairness is made of.  The four violated runs are
counterexamples, to which there is nothing to prove.

## 6. What is not modelled, and what is left

Not modelled: the rounding of floats, the real sigmoid and logarithm; address
resolution and socket options; `read_header` and `receive_weights`, which nothing
calls; a payload larger than the worker's buffer, which ends its loop; at the level
of bytes, a reset that destroys bytes not yet read and makes `read()` return -1
(`Network` has it, where a connection carries messages; `accumulate_read` treats -1
like the end of the stream, which `FrameReader` has at every byte); `EINTR` and
the ten-second timeout of `select()`, after which the loop only starts again; a
file that changes between the two passes; the random numbers of the generator;
build files, tests, scripts and the recorded results.

Left to prove:

- `SyncTraining` without `LearnableShapes`, up to the first registration that
  initialises the weights again;
- that `Network` with whole messages is what two readers over byte streams give,
  as one refinement instead of an argument at the interface;
- the safety core of the liveness properties: a measure that every step of the
  server decreases while no worker sends anything.
