------------------------------ MODULE MCSearch ------------------------------
(* An instance of Search for TLC.  The database and the index file hold    *)
(* what an earlier process left when it shut down: event i0 of user u2,    *)
(* embedded three times, very similar to what is searched for.             *)
EXTENDS Search, TLC

CONSTANTS i0, i1, n1, n2, n3, v1, v2, u1, u2

MCSimilarity == [v \in VectorIds |-> IF v = v2 THEN 1 ELSE 2]

Symmetry == Permutations({n1, n2, n3}) \cup Permutations(Writers)

Earlier == [id |-> i0, user |-> u2]

MCInit ==
    /\ given = [i \in EventIds |-> IF i = i0 THEN Earlier ELSE None]
    /\ events = [i \in EventIds |-> IF i = i0 THEN Row(Earlier) ELSE None]
    /\ vectors = {n1, n2, n3}
    /\ edges = {n1, n2, n3} \X {i0}
    /\ indexFile = {n1, n2, n3}
    /\ hnswIndex = {}
    /\ db = "down"
    /\ starts = 0
    /\ wpc = [t \in Writers |-> "idle"]
    /\ wid = [t \in Writers |-> None]
    /\ wvec = [t \in Writers |-> None]
    /\ rpc = [t \in Readers |-> "idle"]
    /\ rfilter = [t \in Readers |-> None]
    /\ relig = [t \in Readers |-> {}]
    /\ rvecs = [t \in Readers |-> {}]
    /\ rres = [t \in Readers |-> {}]
    /\ SearchInit

(* The process is down for good: the last start has ended.                 *)
Finished == db = "down" /\ starts = MaxStarts /\ UNCHANGED vars

MCSpec == MCInit /\ [][Next \/ Finished]_vars
=============================================================================
