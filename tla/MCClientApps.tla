---------------------------- MODULE MCClientApps ----------------------------
(* Instances of ClientApps for TLC: one client, which is either of the two *)
(* applications or `pcasctl emit`, with a Publish call of its own, and     *)
(* other clients that publish.  Clients meet only in the bus.              *)
EXTENDS ClientApps

CONSTANTS client, own

AnyKind  == [Streams -> {"logger", "hello", "emit"}]
EmitOnly == [Streams -> {"emit"}]

MCCallerOf == [p \in Events |-> IF p = own THEN client ELSE None]
=============================================================================
