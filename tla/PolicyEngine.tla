---------------------------- MODULE PolicyEngine ----------------------------
(***************************************************************************)
(* The policy engine (internal/policy/engine.go): an ordered list of rules *)
(* that route an event to a provider by its type.                          *)
(***************************************************************************)
EXTENDS Naturals, Sequences, FiniteSetsExt

CONSTANTS
    EventTypes,  \* event types that occur
    NoType,      \* the empty string as a type of an event or a rule
    NoProvider   \* the empty string as a provider

(* A rule: the type of its own condition, those of its any_of list, and    *)
(* its provider.  What an any_of condition may nest is never looked at.    *)
Rule(providers) ==
    [event_type : EventTypes \cup {NoType},
     any_of : SUBSET (EventTypes \cup {NoType}),
     provider : providers \cup {NoProvider}]

(* An own condition without a type matches nothing; an any_of condition    *)
(* without one matches an event without one.                               *)
Matches(rule, type) ==
    \/ rule.event_type # NoType /\ rule.event_type = type
    \/ type \in rule.any_of

(* The first rule that matches decides.                                    *)
SelectProvider(rules, type) ==
    LET hits == {i \in DOMAIN rules : Matches(rules[i], type)} IN
    IF hits = {} THEN NoProvider ELSE rules[Min(hits)].provider
=============================================================================
