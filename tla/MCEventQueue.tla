---------------------------- MODULE MCEventQueue ----------------------------
(* A small instance of EventQueue: a chat session with forwarded messages  *)
(* and a session whose events are handled one by one.                      *)
EXTENDS EventQueue, TLC

CONSTANTS e1, e2, e3, e4, w1, w2, chat, mail, MaxErrors, MaxExpiries, MaxCrashes

MCSessionOf == [e \in Events |-> IF e \in {e1, e2} THEN chat ELSE mail]
\* The workers are alike; e1 and e2 are alike, e3 and e4 are alike.
Alike == {f @@ g @@ h : f \in Permutations({e1, e2}), g \in Permutations({e3, e4}),
                        h \in Permutations(Workers)}

MCLimit == [k \in FaultKinds |->
    CASE k = "error" -> MaxErrors [] k = "expiry" -> MaxExpiries [] OTHER -> MaxCrashes]
=============================================================================
