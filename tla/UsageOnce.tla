----------------------------- MODULE UsageOnce ------------------------------
(* What the metering of long-running work promises: a piece of work a         *)
(* provider may bill is recorded at most once, and the record is true then    *)
(* and for ever after - it tells the end the provider has come to, an end not  *)
(* known, or that there was nothing to bill.                                   *)
CONSTANTS Work, Ends       \* pieces of work, and how one can end

VARIABLES outcome,         \* what the provider has made of each: "none" so far, "running", an end
          recorded         \* the records of each
onceVars == <<outcome, recorded>>

Init == outcome = [w \in Work |-> "none"] /\ recorded = [w \in Work |-> <<>>]
Begin(w) == /\ outcome[w] = "none" /\ recorded[w] = <<>>
            /\ outcome' = [outcome EXCEPT ![w] = "running"] /\ UNCHANGED recorded
Finish(w) == /\ outcome[w] = "running" /\ UNCHANGED recorded
             /\ \E e \in Ends : outcome' = [outcome EXCEPT ![w] = e]
Record(w, what) == /\ recorded[w] = <<>> /\ recorded' = [recorded EXCEPT ![w] = <<what>>]
                   /\ UNCHANGED outcome
True(w) == IF outcome[w] = "none" THEN {"rejected"}
           ELSE {"unfinished"} \cup (Ends \cap {outcome[w]})
Next == \E w \in Work : Begin(w) \/ Finish(w) \/ \E what \in True(w) : Record(w, what)
Spec == Init /\ [][Next]_onceVars
=============================================================================
