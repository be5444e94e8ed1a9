------------------------------ MODULE MemoryBus ------------------------------
(***************************************************************************)
(* The stand-alone in-memory bus (internal/bus/memory/bus.go).  It rejects *)
(* an empty client id and one that is already registered, and its cleanup  *)
(* deletes and closes inside one critical section.                         *)
(***************************************************************************)
EXTENDS SubscriberChannels, FiniteSets

CONSTANT EmptyId   \* the client id ""

(* Publish of a non-nil event is the shared broadcast; a nil event is      *)
(* refused before anything is touched.                                     *)
Publish(e) == BroadcastStep(e)

AcceptSubscribe(s) ==
    /\ pc[s] = "idle"
    /\ ClientOf[s] # EmptyId
    /\ WriteLockFree
    /\ subscribers[ClientOf[s]] = None
    /\ subscribers' = [subscribers EXCEPT ![ClientOf[s]] = s]
    /\ pc' = [pc EXCEPT ![s] = "loop"]
    /\ UNCHANGED <<closed, channelVars, cancelled, bcastVars>>

(* Mutant: the clean-up is deferred before the duplicate check.            *)
RejectSubscribeCleaningUp(s) ==
    /\ pc[s] = "idle"
    /\ WriteLockFree
    /\ ClientOf[s] = EmptyId \/ subscribers[ClientOf[s]] # None
    /\ subscribers' = [subscribers EXCEPT ![ClientOf[s]] = None]
    /\ pc' = [pc EXCEPT ![s] = "rejected"]
    /\ UNCHANGED <<closed, channelVars, cancelled, bcastVars>>

(* InvalidArgument, or AlreadyExists once the lock is held: the handler    *)
(* returns before it registers its clean-up, so the registry is untouched. *)
RejectSubscribe(s) ==
    /\ pc[s] = "idle"
    /\ \/ ClientOf[s] = EmptyId
       \/ WriteLockFree /\ subscribers[ClientOf[s]] # None
    /\ pc' = [pc EXCEPT ![s] = "rejected"]
    /\ UNCHANGED <<registryVars, channelVars, cancelled, bcastVars>>

(* Mutant: the map is written without the lock.                            *)
UnsubscribeWithoutLock(s) ==
    /\ pc[s] = "cleanup"
    /\ subscribers' = [subscribers EXCEPT ![ClientOf[s]] = None]
    /\ closed' = closed \cup {s}
    /\ pc' = [pc EXCEPT ![s] = "done"]
    /\ UNCHANGED <<channelVars, cancelled, bcastVars>>

(* The deferred clean-up: Lock, delete, close, Unlock.                     *)
Unsubscribe(s) ==
    /\ pc[s] = "cleanup"
    /\ WriteLockFree
    /\ subscribers' = [subscribers EXCEPT ![ClientOf[s]] = None]
    /\ closed' = closed \cup {s}
    /\ pc' = [pc EXCEPT ![s] = "done"]
    /\ UNCHANGED <<channelVars, cancelled, bcastVars>>

GetSubscriberCount == Cardinality({c \in Clients : subscribers[c] # None})

MemoryNext ==
    \/ \E e \in Events : Publish(e)
    \/ \E s \in Streams : HandlerStep(s)
    \/ \E s \in Streams : AcceptSubscribe(s) \/ RejectSubscribe(s) \/ Unsubscribe(s)

MemorySpec == Init /\ [][MemoryNext]_vars

-----------------------------------------------------------------------------
(* The registry is exactly the running handlers: each is registered under  *)
(* its own client id, no entry outlives its handler, and GetSubscriberCount *)
(* is their number.  A rejected duplicate must not disturb the handler     *)
(* that owns the id.                                                       *)
RegistryIsLiveStreams ==
    /\ \A s \in Live : subscribers[ClientOf[s]] = s
    /\ \A c \in Clients : subscribers[c] # None =>
          subscribers[c] \in Live /\ ClientOf[subscribers[c]] = c
    /\ GetSubscriberCount = Cardinality(Live)
=============================================================================
