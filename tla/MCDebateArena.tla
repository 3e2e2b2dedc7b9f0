---------------------------- MODULE MCDebateArena ----------------------------
(* Instances of DebateArena for TLC: tiers of buslib/debate.py with the      *)
(* critics of their primary agent (RA stands in for SA, which does not run). *)
EXTENDS DebateArena

Tier(critics, final, light, rounds) ==
  [critics |-> critics, final |-> final, light |-> light, rounds |-> rounds]

Research       == Tier(<<"CE", "QA">>, "QA", FALSE, 3)
Seo            == Tier(<<"CE", "QA">>, "QA", TRUE, 2)
Infrastructure == Tier(<<"RE">>, "RE", FALSE, 3)
Simple         == Tier(<<"CE", "QA">>, "QA", FALSE, 0)

AllTiers     == {Research, Seo, Infrastructure, Simple}
ResearchOnly == {Research}

CriticAgents == {"CE", "QA", "RE"}
ReviewAgents == {"QA", "RE"}
===============================================================================
