---------------------------- MODULE SyncTraining ----------------------------
(***************************************************************************)
(* What the system promises, without connections, slots or messages:       *)
(* synchronous training.  A round enrols workers, collects one gradient of *)
(* every member that stays, and updates the model once.  When training is  *)
(* over a worker may learn the final model.                                *)
(***************************************************************************)
EXTENDS Naturals

CONSTANTS Workers, MaxRounds

VARIABLES
  phase,    \* "enrolling" or "collecting" of a round, or training is "over"
  round,
  model,    \* updates made
  members,  \* the workers that take part in the round
  given,    \* member -> the model its gradient of this round was taken at
  trained   \* worker -> the model it ended with

syncVars == <<phase, round, model, members, given, trained>>

Init ==
  /\ phase = "enrolling"
  /\ round = 0
  /\ model = 0
  /\ members = {}
  /\ given = <<>>
  /\ trained = <<>>

\* A partial function extended to x, and restricted to a set.
With(f, x, v) == [y \in DOMAIN f \cup {x} |-> IF y = x THEN v ELSE f[y]]
Within(f, S) == [y \in DOMAIN f \cap S |-> f[y]]

Enrol(w) ==
  /\ phase = "enrolling"
  /\ w \notin members
  /\ members' = members \cup {w}
  /\ UNCHANGED <<phase, round, model, given, trained>>

Collect ==
  /\ phase = "enrolling"
  /\ phase' = "collecting"
  /\ UNCHANGED <<round, model, members, given, trained>>

Give(w) ==
  /\ phase = "collecting"
  /\ w \in members \ DOMAIN given
  /\ given' = With(given, w, model)
  /\ UNCHANGED <<phase, round, model, members, trained>>

Leave(w) ==
  /\ phase \in {"enrolling", "collecting"}
  /\ w \in members
  /\ members' = members \ {w}
  /\ given' = Within(given, members')
  /\ UNCHANGED <<phase, round, model, trained>>

\* A round without a member left makes no update and is the last one.
EndRound ==
  /\ phase = "collecting"
  /\ DOMAIN given = members
  /\ given' = <<>>
  /\ \/ /\ members # {}
        /\ model' = model + 1
        /\ \/ phase' = "over" /\ UNCHANGED round
           \/ round < MaxRounds /\ round' = round + 1 /\ phase' = "enrolling"
     \/ /\ members = {}
        /\ phase' = "over"
        /\ UNCHANGED <<round, model>>
  /\ UNCHANGED <<members, trained>>

\* The server gives up or is killed.
Stop ==
  /\ phase # "over"
  /\ phase' = "over"
  /\ UNCHANGED <<round, model, members, given, trained>>

Learn(w) ==
  /\ phase = "over"
  /\ w \notin DOMAIN trained
  /\ trained' = With(trained, w, model)
  /\ UNCHANGED <<phase, round, model, members, given>>

Next ==
  \/ Collect \/ EndRound \/ Stop
  \/ \E w \in Workers : Enrol(w) \/ Give(w) \/ Leave(w) \/ Learn(w)

Spec == Init /\ [][Next]_syncVars

\* A member that owes a gradient gives it or leaves.
Answer(w) == w \notin DOMAIN given /\ phase = "collecting" /\ (Give(w) \/ Leave(w))

FairSpec ==
  /\ Spec
  /\ WF_syncVars(members # {} /\ Collect)
  /\ WF_syncVars(EndRound)
  /\ \A w \in Workers : WF_syncVars(Answer(w))
=============================================================================
