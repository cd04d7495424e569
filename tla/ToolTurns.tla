------------------------------ MODULE ToolTurns ------------------------------
(* anthropic/beta_tool_runner.go: a runner of the Anthropic SDK drives a        *)
(* conversation turn by turn; the wrapper asks the cost controls before a turn *)
(* that will call the model and records each turn that did.                    *)
EXTENDS Naturals

CONSTANTS MaxIterations,    \* the runner's own limit on turns
          MaxSteps          \* how often the caller advances it (bound)
ASSUME TurnsAssumption == MaxIterations \in Nat \ {0} /\ MaxSteps \in Nat

VARIABLES talk,      \* the upstream runner: last message's stop, its tool blocks, turns taken, completed
          gate,      \* turnGate: blocked, and whether a request of this turn was requestSent leaving
          turns      \* requests sent and judged, records sent, streams that ended without an event
turnVars == <<talk, gate, turns>>

Stops == {"end_turn", "max_tokens", "pause_turn", "compaction", "tool_use"}
TurnsInit ==
  /\ talk = [stop |-> "none", tool |-> FALSE, taken |-> 0, completed |-> FALSE]
  /\ gate = [blocked |-> FALSE, sent |-> FALSE]
  /\ turns = [steps |-> 0, requests |-> 0, judged |-> 0, records |-> 0, silent |-> 0]

(* The upstream runner's own rule (external), and the wrapper's prediction.    *)
UpstreamCalls(t) ==
  /\ ~t.completed /\ t.taken < MaxIterations
  /\ t.stop = "tool_use" => t.tool
  /\ t.stop \notin {"end_turn", "max_tokens"}
runnerWillCallModel(t) ==
  IF t.completed \/ t.taken >= MaxIterations THEN FALSE
  ELSE t.stop \in {"none", "pause_turn", "compaction"} \/ (t.stop = "tool_use" /\ t.tool)

(* One step upstream: nothing left to do, a tool or a request that could not be *)
(* made, a request that failed, or an answer.                                   *)
Step(sent, err, stop, tool) == [sent |-> sent, err |-> err, stop |-> stop, tool |-> tool]
UpstreamStep(t) ==
  IF ~UpstreamCalls(t) THEN {Step(FALSE, FALSE, "none", FALSE)}
  ELSE {Step(sent, TRUE, "none", FALSE) : sent \in BOOLEAN}
       \cup {Step(TRUE, FALSE, stop, tool) : stop \in Stops, tool \in BOOLEAN}
AfterStep(t, step) ==
  [stop |-> IF step.stop = "none" THEN t.stop ELSE step.stop, tool |-> IF step.stop = "none" THEN t.tool ELSE step.tool,
   taken |-> t.taken + IF UpstreamCalls(t) THEN 1 ELSE 0,
   completed |-> t.completed \/ ~UpstreamCalls(t)]

(* admit: a turn that will call the model is judged now, whatever was decided  *)
(* before; a turn that will not cannot be stopped.                             *)
admit(allowed) == [gate EXCEPT !.blocked = runnerWillCallModel(talk) /\ ~allowed]
(* Mutant: a turn begins with the last one's request still marked.            *)
startTurnMarked(admitted) == admitted

startTurn(admitted) == [admitted EXCEPT !.sent = FALSE]
requestSent(g, step) == [g EXCEPT !.sent = @ \/ step.sent]
Counted(step, record, silent) ==
  [steps |-> turns.steps + 1, requests |-> turns.requests + IF step.sent THEN 1 ELSE 0,
   judged |-> turns.judged + IF step.sent /\ runnerWillCallModel(talk) THEN 1 ELSE 0,
   records |-> turns.records + IF record THEN 1 ELSE 0, silent |-> turns.silent + IF silent THEN 1 ELSE 0]
Blocked == gate' = admit(FALSE) /\ gate'.blocked /\ talk' = talk /\ turns' = [turns EXCEPT !.steps = @ + 1]

(* NextMessage, alone or from RunToCompletion and All. *)
NextMessage ==
  /\ turns.steps < MaxSteps
  /\ \/ Blocked
     \/ \E step \in UpstreamStep(talk) :
          /\ gate' = requestSent(startTurn(admit(TRUE)), step)
          /\ talk' = AfterStep(talk, step)
          /\ turns' = Counted(step, step.stop # "none" \/ (step.err /\ gate'.sent), FALSE)
(* NextStreaming, alone or from AllStreaming: the reader may stop after any    *)
(* event, the stream may break off before or after its first, or end silently. *)
NextStreaming ==
  /\ turns.steps < MaxSteps
  /\ \/ Blocked
     \/ \E step \in UpstreamStep(talk), started, left, broke \in BOOLEAN :
          /\ started \/ left \/ broke => step.sent /\ ~step.err
          /\ left => started
          /\ gate' = requestSent(startTurn(admit(TRUE)), step)
          /\ talk' = AfterStep(talk, IF started /\ ~left /\ ~broke THEN step ELSE Step(step.sent, step.err, "none", FALSE))
          /\ LET failed == (step.err \/ (broke /\ ~left)) /\ gate'.sent IN
             turns' = Counted(step, failed \/ (~step.err /\ started), step.sent /\ ~failed /\ ~started)

TurnsNext == NextMessage \/ NextStreaming
TurnsSpec == TurnsInit /\ [][TurnsNext]_turnVars

(* beta_tool_runner.go: every request the runner sends was judged by the cost  *)
(* controls and is told by one record - a tool that failed before anything was *)
(* sent by none - and a conversation that has ended is never reported blocked. *)
TurnsJudgedAndRecorded ==
  /\ turns.judged = turns.requests
  /\ turns.records + turns.silent = turns.requests
  /\ gate.blocked => UpstreamCalls(talk)
=============================================================================
