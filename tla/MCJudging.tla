----------------------------- MODULE MCJudging -----------------------------
(* Three pairs of which one is of equal quality, two votes per append; a   *)
(* pass by a panel with an unreliable member or by a noisy judge, and then *)
(* one in fixed order, which finds whatever the first left behind.         *)
EXTENDS Judging

Sharp == Oracle(FALSE, FALSE, FALSE)
Noisy == Oracle(TRUE, TRUE, TRUE)
Panel == Ensemble(<<Sharp, Llm, Sharp>>)

MCTexts == {"grounded", "thin", "vague"}
MCPool == [t \in MCTexts |-> IF t = "vague" THEN "bad" ELSE "good"]
MCScore == [t \in MCTexts |-> CASE t = "grounded" -> 3 [] t = "thin" -> 2 [] t = "vague" -> 0]

MCShown == <<<<"grounded", "vague">>, <<"vague", "thin">>, <<"thin", "grounded">>>>

Pass(id, judge, randomize) == [id |-> id, judge |-> judge, randomize |-> randomize]
MCPlans ==
  {<<Pass("randomized", j, TRUE), Pass("fixed-order", Reward(1), FALSE)>> : j \in {Panel, Noisy}}

MCQuestions == {"q1", "q2"}
MCReply ==
  [q \in MCQuestions |-> IF q = "q1" THEN [m1 |-> "grounded", m2 |-> "vague"]
                         ELSE [m1 |-> "thin", m2 |-> "grounded"]]
MCJurors == {Sharp, Noisy, Llm, Panel, Reward(1), Reward(3)}
=============================================================================
