------------------------------ MODULE MCEngine ------------------------------
(* Two PIDs, a pair of dynamic reads that share an identifier and a plain   *)
(* read of another ECU; a duty-cycled mode and a silent one.                *)
EXTENDS Engine, TLC

CONSTANTS dyn1, dyn2, plain, pid1, pid2

Order  == <<pid1, pid2, dyn1, plain, dyn2>>
Class  == (pid1 :> "fast" @@ pid2 :> "fast" @@ dyn1 :> "dyn" @@ dyn2 :> "dyn" @@ plain :> "dyn")
Pairs  == (pid1 :> Unset @@ pid2 :> Unset @@ dyn1 :> "ab" @@ dyn2 :> "ab" @@ plain :> Unset)
Rates  == [fast |-> [period |-> 1, stagger |-> FALSE],
           dyn  |-> [period |-> 1, stagger |-> TRUE]]
Same   == [fast |-> 1, dyn |-> 1]
Half   == [fast |-> 1, dyn |-> 2]
Normal == [factor |-> Half, polls |-> TRUE, duty |-> Unset, exempt |-> {}]
Sampling == [factor |-> Same, polls |-> TRUE,
             duty |-> [awake |-> 1, asleep |-> 1], exempt |-> {}]
Off    == [factor |-> Same, polls |-> FALSE, duty |-> Unset, exempt |-> {}]
DriveModes == {Normal, Sampling, Off}
=============================================================================
