--------------------------- MODULE EventDelivery ---------------------------
(***************************************************************************)
(* What a PCAS bus promises its subscribers, with no client ids, locks or  *)
(* channels: a broadcast is offered once to every stream that is open when *)
(* it starts; an offer is dropped only when Cap events are waiting for     *)
(* that stream's client, and at most Cap + 1 ever wait (Cap in the channel *)
(* and the one being sent); what is waiting is delivered in order until    *)
(* the stream ends, and nothing is offered to a stream that has ended.     *)
(***************************************************************************)
EXTENDS Naturals, Sequences

CONSTANTS Streams, Events, Cap

VARIABLES
    state,      \* stream -> "never", "open" or "ended"
    mailbox,    \* stream -> accepted and not yet delivered
    delivered,  \* stream -> delivered, in order
    phase,      \* event -> "new", "active" or "done"
    audience    \* event -> open streams it has still to be offered to

dvars == <<state, mailbox, delivered, phase, audience>>

Open == {s \in Streams : state[s] = "open"}

DInit ==
    /\ state = [s \in Streams |-> "never"]
    /\ mailbox = [s \in Streams |-> <<>>]
    /\ delivered = [s \in Streams |-> <<>>]
    /\ phase = [e \in Events |-> "new"]
    /\ audience = [e \in Events |-> {}]

Join(s) ==
    /\ state[s] = "never"
    /\ state' = [state EXCEPT ![s] = "open"]
    /\ UNCHANGED <<mailbox, delivered, phase, audience>>

(* What is left in the mailbox of a stream that ends is lost.              *)
Leave(s) ==
    /\ state[s] = "open"
    /\ state' = [state EXCEPT ![s] = "ended"]
    /\ audience' = [e \in Events |-> audience[e] \ {s}]
    /\ mailbox' = [mailbox EXCEPT ![s] = <<>>]
    /\ UNCHANGED <<delivered, phase>>

Start(e) ==
    /\ phase[e] = "new"
    /\ phase' = [phase EXCEPT ![e] = "active"]
    /\ audience' = [audience EXCEPT ![e] = Open]
    /\ UNCHANGED <<state, mailbox, delivered>>

Offer(e, s) ==
    /\ phase[e] = "active"
    /\ s \in audience[e]
    /\ audience' = [audience EXCEPT ![e] = @ \ {s}]
    /\ \/ /\ Len(mailbox[s]) <= Cap
          /\ mailbox' = [mailbox EXCEPT ![s] = Append(@, e)]
       \/ /\ Len(mailbox[s]) >= Cap
          /\ mailbox' = mailbox
    /\ UNCHANGED <<state, delivered, phase>>

Finish(e) ==
    /\ phase[e] = "active"
    /\ audience[e] = {}
    /\ phase' = [phase EXCEPT ![e] = "done"]
    /\ UNCHANGED <<state, mailbox, delivered, audience>>

Deliver(s) ==
    /\ state[s] = "open"
    /\ mailbox[s] # <<>>
    /\ delivered' = [delivered EXCEPT ![s] = Append(@, Head(mailbox[s]))]
    /\ mailbox' = [mailbox EXCEPT ![s] = Tail(@)]
    /\ UNCHANGED <<state, phase, audience>>

DNext ==
    \/ \E s \in Streams : Join(s) \/ Leave(s) \/ Deliver(s)
    \/ \E e \in Events : Start(e) \/ Finish(e) \/ \E s \in Streams : Offer(e, s)

DSpec == DInit /\ [][DNext]_dvars
=============================================================================
