----------------------------- MODULE MCTimebase -----------------------------
(* The clock of the simulation and the reports of it, either of which runs   *)
(* while the other rests: they share no variable, and TimebaseReport takes    *)
(* any course of gaps and losses from the clock.                             *)
EXTENDS Timebase, TimebaseReport

VARIABLE part

MCInit == Init /\ ReportInit /\ part \in {"clock", "reports"}

MCNext ==
    /\ \/ part = "clock" /\ Next /\ UNCHANGED reportVars
       \/ part = "reports" /\ ReportNext /\ UNCHANGED vars
    /\ UNCHANGED part

MCSpec == MCInit /\ [][MCNext]_<<vars, reportVars, part>> /\ Fairness

==============================================================================
