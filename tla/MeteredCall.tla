---------------------------- MODULE MeteredCall ----------------------------
(* The vocabulary the provider modules share.  A call meets an environment -   *)
(* what its caller asked, what the cost controls decide, where it fails and    *)
(* what the provider consumed and answered - and comes to a run: the names it  *)
(* was judged under, the requests that left and the usage records it sent.     *)
EXTENDS Naturals, Sequences

Models == {"", "asked", "served"}
(* Where a call fails: before anything left, on the way, with an HTTP status,  *)
(* on an answer it cannot use, in the body of an answer, or not at all.        *)
Failures == {"unsendable", "network", "status", "unusable"}
Seams == Failures \cup {"reply said failed", ""}
Left(env) == IF env.seam = "unsendable" THEN 0 ELSE 1

(* What a call really consumed, all of it disjoint. *)
Amounts == [fresh: Nat, read: Nat, write: Nat, text: Nat, thought: Nat]
Nothing == [fresh |-> 0, read |-> 0, write |-> 0, text |-> 0, thought |-> 0]
(* What a record says of it. *)
Tokens(in, out, total, thought, write, read) ==
  [in |-> in, out |-> out, total |-> total, thought |-> thought, write |-> write, read |-> read]
NoTokens == Tokens(0, 0, 0, 0, 0, 0)

Record(operation, model, tokens) ==
  [what |-> "succeeded", operation |-> operation, model |-> model, tokens |-> tokens, status |-> FALSE]
(* A record with more fields, of which the ones it has already stay.           *)
With(r, more) == [f \in DOMAIN r \cup DOMAIN more |-> IF f \in DOMAIN r THEN r[f] ELSE more[f]]
(* metering/failure.go ApplyFailedCall: what is on the record is kept, and the *)
(* status is the provider's if it answered with one.                           *)
asFailedCall(r, seam) == [r EXCEPT !.what = "failed", !.status = seam = "status"]
asCancelledCall(r) == [r EXCEPT !.what = "cancelled"]

(* enforcement.NewEvalContext, with or without ServedModelMayBeDated. *)
Judged(model, dated) == [model |-> model, dated |-> dated]

Stopped(judged) == [judged |-> judged, requests |-> 0, records |-> <<>>, got |-> "stopped"]
Refused == Stopped({})     \* before the cost controls are asked
(* The shape most calls share: judged, sent, and recorded as what came of it.  *)
Metered(env, judged, failed, succeeded) ==
  IF env.blocked THEN Stopped({judged})
  ELSE [judged |-> {judged}, requests |-> Left(env),
        records |-> <<IF env.seam \in Failures THEN asFailedCall(failed, env.seam) ELSE succeeded>>,
        got |-> IF env.seam \in Failures THEN "error" ELSE "reply"]
=============================================================================
