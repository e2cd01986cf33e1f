------------------------------- MODULE MCTerrain -------------------------------
(* Terrain with the frames that a second sender may put on the wire.       *)
EXTENDS Terrain

\* A frame that mixes zooms, one that is off the world, out of reach or corrupt.
MCStrays ==
    {[origin |-> 21, runs |-> runs] :
        runs \in {<<[z |-> Coarse, xs |-> {0, 3}, ok |-> TRUE],
                    [z |-> Fine, xs |-> {0, 6}, ok |-> TRUE]>>,
                  <<[z |-> Coarse, xs |-> {1}, ok |-> FALSE],
                    [z |-> Fine, xs |-> {2, 3, 4, 5}, ok |-> TRUE]>>}}
================================================================================
