------------------------------ MODULE MCAnswer ------------------------------
(* An instance of Answer for TLC: a call for alice's event e1 and one       *)
(* without user and data.  Of alice's other events e2 and e4 fit into the   *)
(* limit together, e3 fits alone.  By the first text e3 is the best and e4  *)
(* irrelevant, by the others e4 and e2 tie.  The policy has a rule that an  *)
(* earlier one hides, and one whose provider was not initialised.           *)
EXTENDS Answer, TLC

CONSTANTS a, b, k1, k2, k3, e1, e2, e3, e4, e5, alice,
          prompt, local, note, lost, openai, ollama, mock, absent

MCCalls == {a, b}
MCKeys == {k1, k2, k3}
MCEventIds == {e1, e2, e3, e4, e5}
MCUserOf == e5 :> NoUser @@ [e \in MCEventIds \ {e5} |-> alice]
MCEventOf == a :> e1 @@ b :> e5
MCNilData == {b}
MCSize == e1 :> 1 @@ e2 :> 2 @@ e3 :> 3 @@ e4 :> 1 @@ e5 :> 1
MCScore ==
    [k \in MCKeys |->
       IF k = k1 THEN e1 :> 4 @@ e2 :> 2 @@ e3 :> 3 @@ e4 :> 1 @@ e5 :> 4
                 ELSE e1 :> 4 @@ e2 :> 3 @@ e3 :> 2 @@ e4 :> 3 @@ e5 :> 4]

MCRule(type, others, name) == [event_type |-> type, any_of |-> others, provider |-> name]
MCRules ==
    << MCRule(prompt, {}, openai), MCRule(NoType, {note, prompt}, mock),
       MCRule(local, {}, ollama), MCRule(lost, {}, absent) >>
MCProviders == openai :> "openai" @@ ollama :> "ollama" @@ mock :> "mock"
MCInputs == { {"prompt", "model"}, {}, {"prompt", "messages", "model", "stream"} }
=============================================================================
