----------------------------- MODULE MCMemoryBus -----------------------------
(* An instance of MemoryBus for TLC: two handlers with the same client id,  *)
(* one with another, and one without an id.                                 *)
EXTENDS MemoryBus, TLC

CONSTANTS s1, s2, s3, s4, c1, c2

MCClientOf == s1 :> c1 @@ s2 :> c1 @@ s3 :> c2 @@ s4 :> EmptyId

EventSymmetry == Permutations(Events)

(* All handlers have returned and all events are out: nothing is left to do. *)
Finished ==
    /\ \A s \in Streams : pc[s] \in {"done", "rejected"}
    /\ \A e \in Events : bcast[e] = "done"
    /\ UNCHANGED vars

MCSpec == Init /\ [][MemoryNext \/ Finished]_vars
=============================================================================
