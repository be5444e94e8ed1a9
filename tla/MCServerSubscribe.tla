------------------------- MODULE MCServerSubscribe -------------------------
(* Instances of ServerSubscribe for TLC.  One channel slot is enough for a *)
(* channel to be full while another event is in the handler's hands.       *)
EXTENDS ServerSubscribe, TLC

CONSTANTS s1, s2, c1, c2

(* Two clients with an id each.                                            *)
DistinctClientOf == s1 :> c1 @@ s2 :> c2

(* Both handlers are given the same id.                                    *)
SharedClientOf == [s \in Streams |-> c1]

(* All handlers have returned and all events are out: nothing is left to do. *)
Finished ==
    /\ \A s \in Streams : pc[s] = "done"
    /\ \A e \in Events : bcast[e] = "done"
    /\ UNCHANGED vars

MCSpec == Init /\ [][Next \/ Finished]_vars
=============================================================================
