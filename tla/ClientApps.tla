----------------------------- MODULE ClientApps -----------------------------
(***************************************************************************)
(* The programs at the other end of the bus: applications built on the Go  *)
(* SDK (pkg/sdk/go, with examples/logger-dapp and examples/hello-dapp) and *)
(* `pcasctl emit` (cmd/pcasctl/cmd/emit.go).  The server is what           *)
(* EventDelivery promises: ServerSubscribe implements it.  Here it also    *)
(* takes Publish calls, of which only the response is broadcast.           *)
(*                                                                         *)
(* A client is one process with one Subscribe call and one goroutine that  *)
(* receives from it, and it names its stream.  An element of Events is one  *)
(* Publish call and names the response it is answered with.                *)
(***************************************************************************)
EXTENDS EventDelivery, Functions

CONSTANTS
    Kinds,       \* what the clients, the Streams, may be: functions from
                 \* client to "logger", "hello" or "emit"
    CallerOf,    \* Publish call -> the client that makes it, or None for
                 \* one that is not modelled
    Answered,    \* the calls whose event type the policy gives a provider
    None         \* no event, no call

ASSUME ClientAssumption ==
    /\ Kinds \subseteq [Streams -> {"logger", "hello", "emit"}]
    /\ CallerOf \in [Events -> Streams \cup {None}]
    /\ Answered \subseteq Events
    /\ None \notin Events \cup Streams

VARIABLES
    kind,       \* client -> which program it is; never changes
    main,       \* client -> where its main goroutine is
    receiver,   \* client -> its receiving goroutine: "none", "dial", "recv",
                \* "hand" (offering an event on the SDK's channel), "ended"
    hand,       \* client -> the event being offered, or None
    taken,      \* client -> how many events stream.Recv has returned
    shown,      \* client -> the events it has printed, in order
    call,       \* client -> its Subscribe call: "none", "open", "broken"
    cancelled,  \* clients whose context is done, or whose process has ended
    pub,        \* Publish call -> "new", "sent", "ok", "error"
    awaited,    \* client -> the Publish call it is waiting for, or None
    established,\* history: clients that went on because subReady was closed
                \* with a stream in hand
    refused     \* history: <<event, client>>, offers a full channel dropped

processes == <<kind, main, receiver, hand, taken, shown, call, cancelled, awaited,
               established>>
vars == <<dvars, processes, pub, refused>>

IsApp(c) == kind[c] # "emit"

Init ==
    /\ DInit
    /\ kind \in Kinds
    /\ main = [c \in Streams |-> "start"]
    /\ receiver = [c \in Streams |-> "none"]
    /\ hand = [c \in Streams |-> None]
    /\ taken = [c \in Streams |-> 0]
    /\ shown = [c \in Streams |-> <<>>]
    /\ call = [c \in Streams |-> "none"]
    /\ cancelled = {}
    /\ pub = [p \in Events |-> "new"]
    /\ awaited = [c \in Streams |-> None]
    /\ established = {}
    /\ refused = {}

At(c, from, to) == main[c] = from /\ main' = [main EXCEPT ![c] = to]

(* The main function returns: deferred cancel and conn.Close, and with the *)
(* process its goroutines are gone.                                        *)
Exit(c) ==
    /\ main' = [main EXCEPT ![c] = "exited"]
    /\ receiver' = [receiver EXCEPT ![c] = "ended"]
    /\ hand' = [hand EXCEPT ![c] = None]
    /\ cancelled' = cancelled \cup {c}
    /\ awaited' = [awaited EXCEPT ![c] = None]
    /\ UNCHANGED <<kind, taken, shown, call, established>>

-----------------------------------------------------------------------------
(* The server, between the gRPC calls and the bus.                         *)

(* The Subscribe handler runs and registers, some time after the client's  *)
(* call has returned a stream.                                             *)
Register(c) ==
    /\ call[c] # "none"
    /\ Join(c)
    /\ UNCHANGED <<processes, pub, refused>>

(* A handler returns once its client is gone or the stream is broken.      *)
Unregister(c) ==
    /\ c \in cancelled \/ call[c] = "broken"
    /\ Leave(c)
    /\ UNCHANGED <<processes, pub, refused>>

SendEvent(c) == Deliver(c) /\ UNCHANGED <<processes, pub, refused>>

(* The connection, or the server, goes away under an open stream.          *)
StreamBreaks(c) ==
    /\ call[c] = "open"
    /\ call' = [call EXCEPT ![c] = "broken"]
    /\ UNCHANGED <<dvars, kind, main, receiver, hand, taken, shown, cancelled,
                   awaited, pub, refused, established>>

(* Another client publishes something.                                     *)
OthersPublish(p) ==
    /\ CallerOf[p] = None /\ pub[p] = "new"
    /\ pub' = [pub EXCEPT ![p] = "sent"]
    /\ UNCHANGED <<dvars, processes, refused>>

(* Publish without a rule for the event type: stored and acknowledged.     *)
Acknowledge(p) ==
    /\ pub[p] = "sent" /\ p \notin Answered
    /\ pub' = [pub EXCEPT ![p] = "ok"]
    /\ UNCHANGED <<dvars, processes, refused>>

(* Publish fails before its broadcast: no such provider, a provider error. *)
PublishFails(p) ==
    /\ pub[p] = "sent" /\ phase[p] = "new"
    /\ pub' = [pub EXCEPT ![p] = "error"]
    /\ UNCHANGED <<dvars, processes, refused>>

(* Publish of an event with a provider: its response, and nothing else, is *)
(* broadcast, and then the call returns.                                   *)
BroadcastBegins(p) ==
    /\ pub[p] = "sent" /\ p \in Answered
    /\ Start(p)
    /\ UNCHANGED <<processes, pub, refused>>

BroadcastOffers(p, c) ==
    /\ Offer(p, c)
    /\ refused' = IF mailbox' = mailbox THEN refused \cup {<<p, c>>}
                                        ELSE refused
    /\ UNCHANGED <<processes, pub>>

BroadcastEnds(p) ==
    /\ Finish(p)
    /\ pub' = [pub EXCEPT ![p] = "ok"]
    /\ UNCHANGED <<processes, refused>>

ServePublish(p) ==
    \/ Acknowledge(p) \/ PublishFails(p) \/ BroadcastBegins(p) \/ BroadcastEnds(p)
    \/ \E c \in Streams : BroadcastOffers(p, c)

-----------------------------------------------------------------------------
(* Receiving.  The SDK's goroutine hands every event over an unbuffered    *)
(* channel; that of pcasctl prints it.                                     *)

Recv(c) ==
    /\ receiver[c] = "recv"
    /\ taken[c] < Len(delivered[c])
    /\ taken' = [taken EXCEPT ![c] = @ + 1]
    /\ LET event == delivered[c][taken'[c]] IN
         IF IsApp(c)
           THEN /\ hand' = [hand EXCEPT ![c] = event]
                /\ receiver' = [receiver EXCEPT ![c] = "hand"]
                /\ UNCHANGED shown
           ELSE /\ shown' = [shown EXCEPT ![c] = Append(@, event)]
                /\ UNCHANGED <<receiver, hand>>
    /\ UNCHANGED <<dvars, kind, main, call, cancelled, awaited, pub, refused,
                   established>>

(* Recv returns an error when the context is done or the stream has ended; *)
(* what is on its way may then be lost.  The goroutine returns, and in the *)
(* SDK closes the channel.                                                 *)
RecvFails(c) ==
    /\ receiver[c] = "recv"
    /\ c \in cancelled \/ call[c] = "broken"
    /\ receiver' = [receiver EXCEPT ![c] = "ended"]
    /\ UNCHANGED <<dvars, kind, main, hand, taken, shown, call, cancelled,
                   awaited, pub, refused, established>>

(* Mutant: the goroutine hands over one event and does not loop.           *)
HandOverOnce(c) ==
    /\ receiver[c] = "hand" /\ main[c] = "listen"
    /\ shown' = [shown EXCEPT ![c] = Append(@, hand[c])]
    /\ hand' = [hand EXCEPT ![c] = None]
    /\ receiver' = [receiver EXCEPT ![c] = "none"]
    /\ UNCHANGED <<dvars, kind, main, taken, call, cancelled, awaited, pub,
                   refused, established>>

(* The application's loop takes the event and prints it.                   *)
HandOver(c) ==
    /\ receiver[c] = "hand" /\ main[c] = "listen"
    /\ shown' = [shown EXCEPT ![c] = Append(@, hand[c])]
    /\ hand' = [hand EXCEPT ![c] = None]
    /\ receiver' = [receiver EXCEPT ![c] = "recv"]
    /\ UNCHANGED <<dvars, kind, main, taken, call, cancelled, awaited, pub,
                   refused, established>>

(* Mutant: a default case drops the event when nobody is waiting for it.   *)
GiveUpHandingDefault(c) ==
    /\ receiver[c] = "hand"
    /\ hand' = [hand EXCEPT ![c] = None]
    /\ receiver' = [receiver EXCEPT ![c] = IF c \in cancelled THEN "ended" ELSE "recv"]
    /\ UNCHANGED <<dvars, kind, main, taken, shown, call, cancelled, awaited,
                   pub, refused, established>>

(* The other case of the goroutine's select: the context is done.          *)
GiveUpHanding(c) ==
    /\ receiver[c] = "hand" /\ c \in cancelled
    /\ hand' = [hand EXCEPT ![c] = None]
    /\ receiver' = [receiver EXCEPT ![c] = "ended"]
    /\ UNCHANGED <<dvars, kind, main, taken, shown, call, cancelled, awaited,
                   pub, refused, established>>

-----------------------------------------------------------------------------
(* Applications on the SDK.                                                *)

(* NewClient and Client.Subscribe; the goroutine starts with the stream.   *)
AppSubscribes(c) ==
    /\ IsApp(c) /\ c \notin cancelled
    /\ At(c, "start", "listen")
    /\ call' = [call EXCEPT ![c] = "open"]
    /\ receiver' = [receiver EXCEPT ![c] = "recv"]
    /\ UNCHANGED <<dvars, kind, hand, taken, shown, cancelled, awaited, pub,
                   refused, established>>

(* log.Fatalf when there is no stream.                                     *)
AppSubscribeFails(c) ==
    /\ IsApp(c) /\ main[c] = "start"
    /\ Exit(c)
    /\ UNCHANGED <<dvars, pub, refused>>

(* Ctrl-C: the signal goroutine cancels the context.                       *)
Interrupt(c) ==
    /\ IsApp(c) /\ main[c] \in {"start", "listen"} /\ c \notin cancelled
    /\ cancelled' = cancelled \cup {c}
    /\ UNCHANGED <<dvars, kind, main, receiver, hand, taken, shown, call,
                   awaited, pub, refused, established>>

(* The loop ends when the channel is closed (the range loop of logger-dapp, *)
(* the nil event of hello-dapp); hello-dapp also looks at the context.     *)
AppReturns(c) ==
    /\ main[c] = "listen"
    /\ receiver[c] = "ended" \/ (kind[c] = "hello" /\ c \in cancelled)
    /\ Exit(c)
    /\ UNCHANGED <<dvars, pub, refused>>

(* A tick of logger-dapp: Emit, which waits for the Publish call.  With a  *)
(* done context the call fails before it is sent and nothing happens.      *)
Heartbeat(c, p) ==
    /\ kind[c] = "logger" /\ main[c] = "listen" /\ c \notin cancelled
    /\ awaited[c] = None
    /\ CallerOf[p] = c /\ pub[p] = "new"
    /\ pub' = [pub EXCEPT ![p] = "sent"]
    /\ awaited' = [awaited EXCEPT ![c] = p]
    /\ UNCHANGED <<dvars, kind, main, receiver, hand, taken, shown, call,
                   cancelled, refused, established>>

(* Emit returns; an error is logged and the next tick is waited for.       *)
HeartbeatReturns(c) ==
    /\ kind[c] = "logger" /\ awaited[c] # None
    /\ pub[awaited[c]] \in {"ok", "error"} \/ c \in cancelled
    /\ awaited' = [awaited EXCEPT ![c] = None]
    /\ UNCHANGED <<dvars, kind, main, receiver, hand, taken, shown, call,
                   cancelled, pub, refused, established>>

-----------------------------------------------------------------------------
(* pcasctl emit.                                                           *)

StartSubscriber(c) ==
    /\ ~IsApp(c) /\ At(c, "start", "wait")
    /\ receiver' = [receiver EXCEPT ![c] = "dial"]
    /\ UNCHANGED <<dvars, kind, hand, taken, shown, call, cancelled, awaited,
                   pub, refused, established>>

(* subscribeToEvents: client.Subscribe returns a stream or an error, and   *)
(* subReady is closed either way.                                          *)
SubscribeReturns(c) ==
    /\ receiver[c] = "dial"
    /\ \/ /\ receiver' = [receiver EXCEPT ![c] = "recv"]
          /\ call' = [call EXCEPT ![c] = "open"]
       \/ /\ receiver' = [receiver EXCEPT ![c] = "ended"]
          /\ UNCHANGED call
    /\ UNCHANGED <<dvars, kind, main, hand, taken, shown, cancelled, awaited,
                   pub, refused, established>>

(* Mutant: no limit to the wait.                                           *)
ProceedWhenReady(c) ==
    /\ receiver[c] # "dial"
    /\ At(c, "wait", "publish")
    /\ established' = established \cup (IF receiver[c] = "recv" THEN {c} ELSE {})
    /\ UNCHANGED <<dvars, kind, receiver, hand, taken, shown, call, cancelled,
                   awaited, pub, refused>>

(* subReady, or two seconds without it.                                    *)
Proceed(c) ==
    /\ At(c, "wait", "publish")
    /\ established' = established \cup (IF receiver[c] = "recv" THEN {c} ELSE {})
    /\ UNCHANGED <<dvars, kind, receiver, hand, taken, shown, call, cancelled,
                   awaited, pub, refused>>

EmitPublishes(c, p) ==
    /\ CallerOf[p] = c /\ pub[p] = "new"
    /\ At(c, "publish", "publishing")
    /\ pub' = [pub EXCEPT ![p] = "sent"]
    /\ awaited' = [awaited EXCEPT ![c] = p]
    /\ UNCHANGED <<dvars, kind, receiver, hand, taken, shown, call, cancelled,
                   refused, established>>

(* The call succeeds: wait three seconds for responses.                    *)
EmitSucceeds(c) ==
    /\ awaited[c] # None /\ pub[awaited[c]] = "ok"
    /\ At(c, "publishing", "linger")
    /\ awaited' = [awaited EXCEPT ![c] = None]
    /\ UNCHANGED <<dvars, kind, receiver, hand, taken, shown, call, cancelled,
                   pub, refused, established>>

(* Bad --data, a call that fails or is not answered in 30 seconds, and the *)
(* end of the three seconds.                                               *)
EmitReturns(c) ==
    /\ main[c] \in {"publish", "publishing", "linger"}
    /\ Exit(c)
    /\ UNCHANGED <<dvars, pub, refused>>

EmitStep(c) ==
    \/ StartSubscriber(c) \/ Proceed(c) \/ EmitSucceeds(c) \/ EmitReturns(c)
    \/ \E p \in Events : EmitPublishes(c, p)

ReceiverStep(c) == Recv(c) \/ RecvFails(c) \/ HandOver(c) \/ GiveUpHanding(c)

Next ==
    \/ \E c \in Streams :
         \/ Register(c) \/ Unregister(c) \/ SendEvent(c) \/ StreamBreaks(c)
         \/ ReceiverStep(c) \/ SubscribeReturns(c) \/ EmitStep(c)
         \/ AppSubscribes(c) \/ AppSubscribeFails(c) \/ Interrupt(c) \/ AppReturns(c)
         \/ HeartbeatReturns(c) \/ \E p \in Events : Heartbeat(c, p)
    \/ \E p \in Events : OthersPublish(p) \/ ServePublish(p)

(* The scheduler runs every goroutine that can run and timers fire.  A     *)
(* handler's Send goes on as long as its client receives.  Nothing is      *)
(* assumed of signals, failures and of the calls that subscribe.           *)
Fairness ==
    /\ \A c \in Streams : /\ WF_vars(ReceiverStep(c)) /\ WF_vars(EmitStep(c))
                          /\ WF_vars(AppReturns(c)) /\ WF_vars(SendEvent(c))
                          /\ WF_vars(c \in cancelled /\ AppSubscribeFails(c))
    /\ \A p \in Events : WF_vars(ServePublish(p))

ClientSpec == Init /\ [][Next]_vars /\ Fairness

-----------------------------------------------------------------------------
(* A client prints what its stream delivers, in that order and without     *)
(* gaps; only a goroutine that has ended can have an event left over.      *)
ShownIsDelivered ==
    \A c \in Streams :
        LET received == SubSeq(delivered[c], 1, taken[c])
            left     == IF hand[c] = None THEN <<>> ELSE <<hand[c]>> IN
        IF receiver[c] # "ended" THEN received = shown[c] \o left
        ELSE received = shown[c] \/ \E e \in Events : received = Append(shown[c], e)

(* An event that the server offers to a client's stream is printed by that *)
(* client, through the channel of the bus, the transport and the SDK's     *)
(* channel, unless the channel was full or the client or its stream ended. *)
(* A client that the server has not registered yet is not offered it.      *)
OfferedIsShown ==
    \A c \in Streams, e \in Events :
        c \in audience[e] ~> \/ e \in Range(shown[c]) \/ <<e, c>> \in refused
                             \/ c \in cancelled \/ call[c] = "broken"

(* `pcasctl emit` always ends, even when its subscription is never set up  *)
(* or its call is never answered; an application ends after Ctrl-C and     *)
(* when its stream breaks.                                                 *)
ClientsEnd ==
    \A c \in Streams :
        (~IsApp(c) \/ c \in cancelled \/ call[c] = "broken") ~> main[c] = "exited"

(* `pcasctl emit` says "Subscription established, emitting event..." only   *)
(* when the server will offer it the response: unless the client or its    *)
(* stream has ended, the response is on its way to the client, has reached *)
(* it, or found its channel full.                                          *)
EstablishedHearsResponse ==
    \A p \in Events :
        LET c == CallerOf[p] IN
        c # None /\ c \in established \ cancelled /\ call[c] = "open" /\ phase[p] # "new" =>
            \/ c \in audience[p] \/ <<p, c>> \in refused
            \/ p \in Range(delivered[c] \o mailbox[c])
=============================================================================
