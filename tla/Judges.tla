------------------------------ MODULE Judges ------------------------------
(***************************************************************************)
(* The pairwise judges of src/coalmine/judging and the comparison that     *)
(* hides from them which configuration answered.  A judge is a record, a   *)
(* response a member of Texts; a judge's answer in position space is one   *)
(* of the set JudgeAnswers gives, or Raised where the judge raises.        *)
(***************************************************************************)
EXTENDS Integers, Sequences, FiniteSets

CONSTANTS
  Texts,
  PoolOf,   \* the pool each text came from, "good" or "bad"
  Score     \* what the reward model makes of it

ASSUME TextsAssumption == PoolOf \in [Texts -> {"good", "bad"}] /\ Score \in [Texts -> Int]

First == "first"
Second == "second"
Tie == "tie"
Raised == "raised"

(* NoisyOracleJudge: a tie, the first shown, or an accurate pick.          *)
Oracle(ties, biased, errs) == [kind |-> "oracle", ties |-> ties, biased |-> biased, errs |-> errs]

OracleAnswers(j, first, second) ==
  LET better == IF PoolOf[first] = "good" THEN First ELSE Second
      other == IF better = First THEN Second ELSE First
  IN (IF j.ties THEN {Tie} ELSE {}) \cup (IF j.biased THEN {First} ELSE {})
     \cup (IF PoolOf[first] = PoolOf[second] \/ j.errs THEN {better, other} ELSE {better})

(* RewardModelJudge: the higher score wins unless the two are too close.   *)
Reward(margin) == [kind |-> "reward", margin |-> margin]

Far(x, y, margin) == x - y > margin

RewardAnswer(j, first, second) ==
  CASE Far(Score[first], Score[second], j.margin) -> First
    [] Far(Score[second], Score[first], j.margin) -> Second
    [] OTHER -> Tie

(* LLMJudge: what the model replies, and what becomes of it: a reply cut   *)
(* off, without text or outside the schema raises JudgeError.              *)
Replies == {"1", "2", "tie", "cut off", "no text", "unparseable"}
Llm == [kind |-> "llm"]

LlmAnswer(reply) ==
  CASE reply = "1" -> First [] reply = "2" -> Second [] reply = "tie" -> Tie [] OTHER -> Raised

MemberAnswers(j, first, second) ==
  CASE j.kind = "oracle" -> OracleAnswers(j, first, second)
    [] j.kind = "reward" -> {RewardAnswer(j, first, second)}
    [] j.kind = "llm"    -> {LlmAnswer(r) : r \in Replies}

(* EnsembleJudge: the answer of most members, which a tied vote has not.   *)
Ensemble(members) == [kind |-> "ensemble", members |-> members]

BugMajorityBar(k) == k \div 2
MajorityBar(k) == k \div 2 + 1

Majority(answers) ==
  LET votes(v) == Cardinality({i \in DOMAIN answers : answers[i] = v}) IN
    CASE \E i \in DOMAIN answers : answers[i] = Raised   -> Raised
      [] /\ \A i \in DOMAIN answers : answers[i] # Raised
         /\ votes(First) >= MajorityBar(Len(answers))     -> First
      [] /\ \A i \in DOMAIN answers : answers[i] # Raised
         /\ votes(First) < MajorityBar(Len(answers))
         /\ votes(Second) >= MajorityBar(Len(answers))    -> Second
      [] OTHER -> Tie

JudgeAnswers(j, first, second) ==
  IF j.kind # "ensemble" THEN MemberAnswers(j, first, second)
  ELSE {Majority(answers) : answers \in
          {f \in [1 .. Len(j.members) -> {First, Second, Tie, Raised}] :
             \A i \in DOMAIN f : f[i] \in MemberAnswers(j.members[i], first, second)}}

(* compare_randomized: whoever is shown first, the winner is a             *)
(* configuration; the faulty one forgets who was.                          *)
BugWinner(answer, swap) ==
  CASE answer = Tie -> "tie" [] answer = First -> "a" [] OTHER -> "b"
Winner(answer, swap) ==
  CASE answer = Tie -> "tie"
    [] answer = First -> IF swap THEN "b" ELSE "a"
    [] answer = Second -> IF swap THEN "a" ELSE "b"
    [] OTHER -> Raised

Compare(j, a, b, swap) ==
  {[winner |-> Winner(v, swap), first_shown |-> IF swap THEN "b" ELSE "a"] :
     v \in JudgeAnswers(j, IF swap THEN b ELSE a, IF swap THEN a ELSE b)}

-----------------------------------------------------------------------------
(* Judges that go by the texts alone, or an ensemble of which most members *)
(* are one and the same such judge, and what they must say of a pair.      *)

ByContent(j, a, b) ==
  \/ j.kind = "reward"
  \/ j.kind = "oracle" /\ ~j.ties /\ ~j.biased /\ ~j.errs /\ PoolOf[a] # PoolOf[b]

Reliable(j, a, b) ==
  IF j.kind # "ensemble" THEN ByContent(j, a, b)
  ELSE /\ ByContent(j.members[1], a, b)
       /\ 2 * Cardinality({i \in DOMAIN j.members : j.members[i] = j.members[1]}) > Len(j.members)

Prefers(j, a, b) ==
  LET one == IF j.kind = "ensemble" THEN j.members[1] ELSE j IN
    CASE one.kind = "oracle" -> IF PoolOf[a] = "good" THEN "a" ELSE "b"
      [] one.kind = "reward" /\ Score[a] > Score[b] + one.margin -> "a"
      [] one.kind = "reward" /\ Score[b] > Score[a] + one.margin -> "b"
      [] OTHER -> "tie"
=============================================================================
