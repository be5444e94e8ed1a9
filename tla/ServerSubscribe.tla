--------------------------- MODULE ServerSubscribe ---------------------------
(***************************************************************************)
(* Subscribe and broadcastEvent of the bus server that `pcas serve` runs   *)
(* (internal/bus/server_subscribe.go).  Registration overwrites whatever   *)
(* the client id was mapped to; cleanup deletes the client id under the    *)
(* write lock and closes the channel after the unlock.                     *)
(***************************************************************************)
EXTENDS SubscriberChannels

CONSTANT ConcurrentReuse  \* may a client id be used again while a handler
                          \* that was given it is still running?

ASSUME ConcurrentReuseAssumption == ConcurrentReuse \in BOOLEAN

(* The input assumption that bus.proto makes of clients ("Unique           *)
(* identifier for the client"), switched off by ConcurrentReuse.  A client *)
(* may always subscribe again once its former handler has returned.        *)
ClientMayCall(s) ==
    \/ ConcurrentReuse
    \/ \A o \in Streams \ {s} :
          ClientOf[o] = ClientOf[s] => pc[o] \in {"idle", "done"}

Subscribe(s) ==
    /\ pc[s] = "idle"
    /\ ClientMayCall(s)
    /\ WriteLockFree
    /\ subscribers' = [subscribers EXCEPT ![ClientOf[s]] = s]
    /\ pc' = [pc EXCEPT ![s] = "loop"]
    /\ UNCHANGED <<closed, channelVars, cancelled, bcastVars>>

(* Mutant: the map is written without the lock.                            *)
UnregisterWithoutLock(s) ==
    /\ pc[s] = "cleanup"
    /\ subscribers' = [subscribers EXCEPT ![ClientOf[s]] = None]
    /\ pc' = [pc EXCEPT ![s] = "close"]
    /\ UNCHANGED <<closed, channelVars, cancelled, bcastVars>>

(* The deferred cleanup, first part: Lock, delete by client id, Unlock.    *)
Unregister(s) ==
    /\ pc[s] = "cleanup"
    /\ WriteLockFree
    /\ subscribers' = [subscribers EXCEPT ![ClientOf[s]] = None]
    /\ pc' = [pc EXCEPT ![s] = "close"]
    /\ UNCHANGED <<closed, channelVars, cancelled, bcastVars>>

(* Second part, outside the lock: close the channel and return.            *)
CloseChan(s) ==
    /\ pc[s] = "close"
    /\ closed' = closed \cup {s}
    /\ pc' = [pc EXCEPT ![s] = "done"]
    /\ UNCHANGED <<subscribers, channelVars, cancelled, bcastVars>>

Next ==
    \/ \E e \in Events : BroadcastStep(e)
    \/ \E s \in Streams : HandlerStep(s)
    \/ \E s \in Streams : Subscribe(s) \/ Unregister(s) \/ CloseChan(s)

Spec == Init /\ [][Next]_vars

Fairness ==
    /\ \A e \in Events : WF_vars(BroadcastStep(e) /\ bcast[e] = "active")
    /\ \A s \in Streams :
          /\ SF_vars(ContextDone(s))
          /\ WF_vars(SendReturns(s))
          /\ SF_vars(Unregister(s))
          /\ WF_vars(CloseChan(s))

FairSpec == Spec /\ Fairness

-----------------------------------------------------------------------------
(* Every handler that is still serving its client is registered: whatever  *)
(* is broadcast from now on is offered to it (broadcastEvent "sends an     *)
(* event to all subscribers").                                             *)
LiveStreamRegistered ==
    \A s \in Streams :
        pc[s] \in {"loop", "send"} => subscribers[ClientOf[s]] = s

(* A client that has one connection left (its other handlers have been     *)
(* cancelled or have returned) is registered through that connection.      *)
(* It is what a client that reconnects needs: its new handler registers    *)
(* while the old one has not yet noticed that the connection is gone.      *)
SoleConnectionRegistered ==
    \A s \in Streams :
        /\ pc[s] \in {"loop", "send"} /\ s \notin cancelled
        /\ \A o \in Streams \ {s} : ClientOf[o] = ClientOf[s] =>
              o \in cancelled \/ pc[o] \in {"idle", "done"}
        => subscribers[ClientOf[s]] = s
=============================================================================
