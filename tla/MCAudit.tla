------------------------------ MODULE MCAudit ------------------------------
(* A catalogue, listings and results of tasks for TLC.                     *)
EXTENDS Audit

(* Two priority models, and five others in three families: the best one,   *)
(* a second of its family, one that ties with a third family's, and one    *)
(* that is no chat model.                                                  *)
Trait(tokens, family, place) == [tokens |-> tokens, family |-> family, place |-> place]
MCTraits ==
    [p1 |-> Trait({"reasoning", "chat"}, 1, 1),
     p2 |-> Trait({"coding", "brand"}, 2, 2),
     big |-> Trait({"reasoning", "coding", "chat", "brand"}, 3, 3),
     twin |-> Trait({"reasoning", "coding", "brand"}, 3, 4),
     quick |-> Trait({"coding", "fast", "small"}, 4, 5),
     plain |-> Trait({"coding", "fast", "small"}, 5, 6),
     embed |-> Trait({"utility", "reasoning", "coding", "chat"}, 6, 7)]
MCPriority == <<"p1", "p2">>
MCRegistry == {"p1", "p2"}
MCAvoided == {"plain"}
MCListings == {<<>>, <<"big", "embed", "p1", "quick", "twin">>,
               <<"embed", "p2", "plain", "plain", "quick">>}

All(category) == Features[category]
Perfectly(latency) == [i \in 1..3 |-> Answered(Categories[i], All(Categories[i]), latency)]
Quick     == Perfectly(2)
Steady    == Perfectly(5)
Hasty     == <<Answered("simple", {"sentence", "alone"}, 1),
               Answered("coding", {"function"}, 1), Answered("reasoning", {"seven"}, 1)>>
Talkative == <<Answered("simple", {"sentence"}, 9),
               Answered("coding", Features.coding, 9), Answered("reasoning", {"format"}, 9)>>
Throttled == [i \in 1..3 |-> Failed(Categories[i], "rate_limit", 1)]
Unreached == <<Failed("simple", "network_error", 3), Failed("coding", "empty_response", 3),
               Answered("reasoning", {"format"}, 3)>>
Broken    == [i \in 1..3 |-> Raised(Categories[i])]
MCShowings == <<{Quick, Steady, Hasty, Talkative, Throttled, Unreached, Broken}, {Quick}>>
=============================================================================
