-------------------------------- MODULE Outbox --------------------------------
(***************************************************************************)
(* What the sync engine promises about each captured update, whatever the  *)
(* interleaving of captures, syncs, reloads and failures: once a device    *)
(* holds it at rest it stays held until the relay has it, and a delivered  *)
(* update is never taken back.                                             *)
(***************************************************************************)
CONSTANT Update

VARIABLE fate  \* of each update

Init == fate = [u \in Update |-> "unknown"]

\* A device's persistence holds these updates, still to be sent.
Hold(S) ==
    /\ \A u \in S : fate[u] = "unknown"
    /\ fate' = [u \in Update |-> IF u \in S THEN "held" ELSE fate[u]]

\* The relay's log holds these updates.  A device that is open can send an
\* update before its own save is at rest.
Deliver(S) ==
    fate' = [u \in Update |-> IF u \in S THEN "delivered" ELSE fate[u]]

Next == \E S \in SUBSET Update : Hold(S) \/ Deliver(S)

\* What a device holds is never lost, what the relay has is never taken back.
Safety == Init /\ [][Next]_fate

===============================================================================
