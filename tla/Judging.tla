------------------------------ MODULE Judging ------------------------------
(***************************************************************************)
(* What the scripts do with the judges of module Judges.  A script judges  *)
(* a recorded run in one or more passes (src/coalmine/judging/pipeline.py),*)
(* calibrates a judge on synthetic anchors (anchors.py), or studies the    *)
(* reward model on anchors built from human votes (mtbench.py).            *)
(***************************************************************************)
EXTENDS Judges

CONSTANTS
  RunSize,     \* requests of the recorded run
  Shown,       \* Shown[i]: the texts of champion and challenger
  AppendSize,  \* verdicts per append
  Plans,       \* sequences of passes [id, judge, randomize], ids distinct
  Questions,
  Reply,       \* Reply[q][m]: the text of model m, "m1" or "m2"
  MaxVotes,    \* bound: human votes
  Margin,      \* the tie margin of the judge of the study
  Items,       \* number of synthetic anchors
  Good, Bad,   \* their texts
  Jurors       \* judges to calibrate

ASSUME JudgingSizes == RunSize \in Nat /\ AppendSize \in Nat \ {0}
ASSUME PlansAssumption ==
  \A s \in Plans : /\ s \in Seq({s[i] : i \in DOMAIN s})
                   /\ \A i, j \in DOMAIN s : s[i].id = s[j].id => i = j
ASSUME RepliesAssumption == Reply \in [Questions -> [{"m1", "m2"} -> Texts]] /\ Margin \in Nat

VARIABLES
  script,       \* "judge", "calibrate" or "study"
  plan,         \* the passes to come
  shadowed,     \* the requests with a challenger response in the log
  verdictRows,  \* the verdict rows of the log
  job,          \* the pass under way
  finished,     \* the passes that are over
  juror, labels, cal,   \* the judge to calibrate, its anchors, its calibration
  channel,              \* what it made of equal pairs and of good against bad
  votes, tally          \* human votes, and what consensus_anchors counted

pipeline == <<plan, shadowed, verdictRows, job, finished>>
calibration == <<juror, labels, cal, channel>>
study == <<votes, tally>>
judgingVars == <<script, pipeline, calibration, study>>

Idle == [busy |-> FALSE]

-----------------------------------------------------------------------------
(* Judging passes.                                                         *)

Traffic == 2 + 2 * RunSize + Cardinality(shadowed)   \* rows of the run itself, from 0

(* max_seq() + 1; the faulty one starts at the last row there is.          *)
LastSeq == Traffic - 1 + Cardinality(verdictRows)
BugNextSeq == LastSeq
NextSeq == CHOOSE s \in Traffic .. LastSeq + 1 :
             (\A r \in verdictRows : r.seq < s) /\ (s = Traffic \/ \E r \in verdictRows : r.seq = s - 1)

InOrder(S) == CHOOSE s \in [1 .. Cardinality(S) -> S] : \A i, j \in DOMAIN s : i < j => s[i] < s[j]

(* judge_run reads the log, joins the responses by request and samples     *)
(* the pairs with a coin of its own judge id.                              *)
StartPass(sample) ==
  /\ ~job.busy /\ plan # <<>>
  /\ job' = [busy |-> TRUE, pass |-> Head(plan), sample |-> sample, todo |-> InOrder(sample),
             seq |-> NextSeq, batch |-> <<>>, verdicts |-> <<>>]
  /\ plan' = Tail(plan)
  /\ UNCHANGED <<shadowed, verdictRows, finished>>

(* append_many ignores a row whose sequence number is taken.               *)
AppendMany(batch) ==
  verdictRows \cup
    {batch[i] : i \in {k \in DOMAIN batch :
                        batch[k].seq >= Traffic /\ \A r \in verdictRows : r.seq # batch[k].seq}}

JudgeNext(swap) ==
  /\ job.busy /\ job.todo # <<>> /\ (swap => job.pass.randomize)
  /\ \E c \in Compare(job.pass.judge, Shown[Head(job.todo)][1], Shown[Head(job.todo)][2], swap) :
       /\ c.winner # Raised
       /\ LET v == [index |-> Head(job.todo), judge_id |-> job.pass.id,
                    winner |-> c.winner, first_shown |-> c.first_shown]
              batch == Append(job.batch, [seq |-> job.seq, body |-> v])
              full == Len(batch) >= AppendSize
          IN /\ verdictRows' = IF full THEN AppendMany(batch) ELSE verdictRows
             /\ job' = [job EXCEPT !.todo = Tail(@), !.seq = @ + 1,
                                   !.verdicts = Append(@, v),
                                   !.batch = IF full THEN <<>> ELSE batch]
  /\ UNCHANGED <<plan, shadowed, finished>>

Over(raised) ==
  [id |-> job.pass.id, sample |-> job.sample, verdicts |-> job.verdicts,
   raised |-> raised, judge |-> job.pass.judge]

(* The judge raises, and the pass with it: its open batch is lost.         *)
JudgeRaises ==
  /\ job.busy /\ job.todo # <<>>
  /\ \E c \in Compare(job.pass.judge, Shown[Head(job.todo)][1], Shown[Head(job.todo)][2], FALSE) :
       c.winner = Raised
  /\ finished' = Append(finished, Over(TRUE))
  /\ job' = Idle
  /\ UNCHANGED <<plan, shadowed, verdictRows>>

EndPass ==
  /\ job.busy /\ job.todo = <<>>
  /\ verdictRows' = AppendMany(job.batch)
  /\ finished' = Append(finished, Over(FALSE))
  /\ job' = Idle
  /\ UNCHANGED <<plan, shadowed>>

Pipeline ==
  /\ script = "judge"
  /\ \/ \E sample \in SUBSET shadowed : StartPass(sample)
     \/ \E swap \in BOOLEAN : JudgeNext(swap)
     \/ JudgeRaises
     \/ EndPass
  /\ UNCHANGED <<script, calibration, study>>

-----------------------------------------------------------------------------
(* Calibration: synthetic anchors, the good text on the side of the label, *)
(* judged in any presentation; ties do not count.  The channel of a panel  *)
(* is measured the same way, on pairs of equal quality too.                *)

Anchor(label) ==
  CASE label = "a" -> <<Good, Bad>> [] label = "b" -> <<Bad, Good>> [] OTHER -> <<Good, Good>>

NewCal == [at |-> 0, correct |-> 0, decisive |-> 0, raised |-> FALSE]
NewChannel == [correct |-> 0, decisive |-> 0, b_wins |-> 0, eq_decisive |-> 0]

(* _measure_channel: the good text as a against the bad one, or itself.    *)
MeasureChannel(label, winner) ==
  LET one(p) == IF p THEN 1 ELSE 0
      settled == winner \in {"a", "b"}
  IN [correct     |-> channel.correct + one(label = "a" /\ winner = "a"),
      decisive    |-> channel.decisive + one(label = "a" /\ settled),
      b_wins      |-> channel.b_wins + one(label = "=" /\ winner = "b"),
      eq_decisive |-> channel.eq_decisive + one(label = "=" /\ settled)]

CalibrateNext(swap) ==
  /\ script = "calibrate" /\ cal.at < Items /\ ~cal.raised
  /\ LET label == labels[cal.at + 1] IN
       \E c \in Compare(juror, Anchor(label)[1], Anchor(label)[2], swap) :
         /\ cal' = [at |-> cal.at + 1, raised |-> c.winner = Raised,
                    decisive |-> cal.decisive + (IF label # "=" /\ c.winner \in {"a", "b"}
                                                 THEN 1 ELSE 0),
                    correct |-> cal.correct + (IF c.winner = label THEN 1 ELSE 0)]
         /\ channel' = MeasureChannel(label, c.winner)
  /\ UNCHANGED <<script, pipeline, juror, labels, study>>

-----------------------------------------------------------------------------
(* Anchors from human votes.  Two models answered each question, and a row *)
(* names them in either order.                                             *)

Vote == [question : Questions, flipped : BOOLEAN, winner : {"model_a", "model_b", "tie"}]

Entry(q) == IF q \in DOMAIN tally THEN tally[q]
            ELSE [a |-> 0, b |-> 0, tie |-> 0, texts |-> <<>>]

(* Which of the two, in canonical order, the row votes for.                *)
BugCanonical(row) == IF row.winner = "model_a" THEN "a" ELSE "b"
Canonical(row) == IF (row.winner = "model_a") # row.flipped THEN "a" ELSE "b"

RowTexts(row) ==
  LET a == Reply[row.question][IF row.flipped THEN "m2" ELSE "m1"]
      b == Reply[row.question][IF row.flipped THEN "m1" ELSE "m2"]
  IN IF row.flipped THEN <<b, a>> ELSE <<a, b>>

CountVote(row) ==
  LET e == Entry(row.question)
      f == IF e.texts = <<>> THEN [e EXCEPT !.texts = RowTexts(row)] ELSE e
      counted == CASE row.winner = "tie" -> [f EXCEPT !.tie = @ + 1]
                   [] row.winner # "tie" /\ Canonical(row) = "a" -> [f EXCEPT !.a = @ + 1]
                   [] OTHER -> [f EXCEPT !.b = @ + 1]
  IN /\ script = "study" /\ Len(votes) < MaxVotes
     /\ votes' = Append(votes, row)
     /\ tally' = [q \in DOMAIN tally \cup {row.question} |->
                    IF q = row.question THEN counted ELSE tally[q]]
     /\ UNCHANGED <<script, pipeline, calibration>>

Anchors ==
  {[question |-> q, a |-> tally[q].texts[1], b |-> tally[q].texts[2],
    label |-> IF tally[q].a > tally[q].b THEN "a" ELSE "b"] :
     q \in {p \in DOMAIN tally : tally[p].a # tally[p].b}}

(* The study judges every anchor a first, then b first; whatever is not    *)
(* "first" counts for the other, a tie too.                                *)
Judged(x) == RewardAnswer(Reward(Margin), x.a, x.b)
Predicted(x) == IF Judged(x) = First THEN "a" ELSE "b"
SwappedPredicted(x) == IF RewardAnswer(Reward(Margin), x.b, x.a) = First THEN "b" ELSE "a"

-----------------------------------------------------------------------------
JudgingInit ==
  /\ script \in {"judge", "calibrate", "study"}
  /\ verdictRows = {} /\ job = Idle /\ finished = <<>>
  /\ cal = NewCal /\ channel = NewChannel /\ votes = <<>> /\ tally = <<>>
  /\ IF script = "judge" THEN plan \in Plans /\ shadowed \in SUBSET (1 .. RunSize)
     ELSE plan = <<>> /\ shadowed = {}
  /\ IF script = "calibrate" THEN juror \in Jurors /\ labels \in [1 .. Items -> {"a", "b", "="}]
     ELSE juror = Llm /\ labels = <<>>

JudgingNext ==
  \/ Pipeline
  \/ \E swap \in BOOLEAN : CalibrateNext(swap)
  \/ \E row \in Vote : CountVote(row)

JudgingSpec == JudgingInit /\ [][JudgingNext]_judgingVars

-----------------------------------------------------------------------------
(* What the scripts read back of a pass: its verdicts by request, the      *)
(* decisive ones as the stream the tests are fed, and how many of them     *)
(* went to the response shown first (src/coalmine/judging/metrics.py).     *)

RowsOf(id) == {r \in verdictRows : r.body.judge_id = id}

VerdictsOf(id) ==
  LET at == InOrder({r.body.index : r \in RowsOf(id)})
  IN [i \in DOMAIN at |-> (CHOOSE r \in RowsOf(id) : r.body.index = at[i]).body]

Decisive(verdicts) == SelectSeq(verdicts, LAMBDA v : v.winner # "tie")

ChallengerWins(verdicts) ==
  LET d == Decisive(verdicts) IN [i \in DOMAIN d |-> d[i].winner = "b"]

FirstWins(verdicts) ==
  LET d == Decisive(verdicts) IN Cardinality({i \in DOMAIN d : d[i].winner = d[i].first_shown})

-----------------------------------------------------------------------------

(* The log holds of every pass what the pass judged: all of it, in request *)
(* order, when it returned; whole batches of it when the judge raised; and *)
(* the passes follow each other and the traffic without a gap or an        *)
(* overlap (src/coalmine/judging/pipeline.py: "appends verdict_recorded    *)
(* events to the SAME run's stream").                                      *)
JudgedExactly ==
  /\ {r.seq : r \in verdictRows} = Traffic .. LastSeq
  /\ \A p \in DOMAIN finished :
       LET f == finished[p]
           n == Len(f.verdicts)
           kept == IF f.raised THEN n - (n % AppendSize) ELSE n
       IN /\ VerdictsOf(f.id) = SubSeq(f.verdicts, 1, kept)
          /\ \A r, s \in RowsOf(f.id) : r.seq < s.seq => r.body.index < s.body.index
          /\ \A i, j \in 1 .. n : i < j => f.verdicts[i].index < f.verdicts[j].index
          /\ ~f.raised => {f.verdicts[i].index : i \in 1 .. n} = f.sample

(* A judge that goes by the texts, or an ensemble of which most do, finds  *)
(* the same winner whichever response it was shown first, in the log of a  *)
(* run, in the streams the metrics take from it and on the anchors:        *)
(* position bias is noise and no shift (src/coalmine/judging/judges.py,    *)
(* "position bias adds noise but no mean shift"), a majority absorbs a     *)
(* member that answers anything (src/coalmine/judging/ensemble.py), and a  *)
(* judge of any kind treats two equals alike, so that wins among equals    *)
(* measure its coin (src/coalmine/experiments/ensemble_detection.py:43).   *)
ContentWins ==
  /\ \A p \in DOMAIN finished :
       LET f == finished[p]
           v == VerdictsOf(f.id)
           pair(i) == Shown[v[i].index]
           wins == ChallengerWins(v)
           prefers == [i \in DOMAIN v |-> Prefers(f.judge, pair(i)[1], pair(i)[2])]
           reliable(i) == Reliable(f.judge, pair(i)[1], pair(i)[2])
       IN /\ \A i \in DOMAIN v : reliable(i) => v[i].winner = prefers[i]
          /\ (\A i \in DOMAIN v : reliable(i)) =>
            /\ Len(wins) = Cardinality({i \in DOMAIN v : prefers[i] # "tie"})
            /\ Cardinality({k \in DOMAIN wins : wins[k]}) =
                 Cardinality({i \in DOMAIN v : prefers[i] = "b"})
            /\ FirstWins(v) = Cardinality({i \in DOMAIN v : prefers[i] = v[i].first_shown})
  /\ Reliable(juror, Good, Bad) /\ ~cal.raised =>
       LET unequal == Cardinality({i \in 1 .. cal.at : labels[i] # "="})
           measured == Cardinality({i \in 1 .. cal.at : labels[i] = "a"})
       IN
         /\ cal.decisive = (IF Prefers(juror, Good, Bad) = "tie" THEN 0 ELSE unequal)
         /\ cal.correct = (IF Prefers(juror, Good, Bad) = "a" THEN unequal ELSE 0)
         /\ channel.correct = (IF Prefers(juror, Good, Bad) = "a" THEN measured ELSE 0)
  /\ Reliable(juror, Good, Good) => channel.eq_decisive = 0
  /\ LET other == [a |-> "b", b |-> "a", tie |-> "tie", raised |-> Raised] IN
       Compare(juror, Good, Good, TRUE) =
         {[winner |-> other[c.winner], first_shown |-> other[c.first_shown]] :
            c \in Compare(juror, Good, Good, FALSE)}

(* The votes for a model, whichever way round they present it.             *)
Backed(q, m) ==
  Cardinality({i \in DOMAIN votes : /\ votes[i].question = q
                                    /\ votes[i].winner # "tie"
                                    /\ m = IF (votes[i].winner = "model_a") = votes[i].flipped
                                           THEN "m2" ELSE "m1"})

(* An anchor is a question with a majority of human votes, its labelled    *)
(* text the reply of the model most humans preferred, however the votes    *)
(* presented the two (src/coalmine/judging/mtbench.py:27); and the reward  *)
(* model's swap check fails on its ties and nowhere else                   *)
(* (src/coalmine/experiments/reward_judge_study.py:82).                    *)
AnchorsMeasure ==
  /\ {x.question : x \in Anchors} = {q \in Questions : Backed(q, "m1") # Backed(q, "m2")}
  /\ \A x \in Anchors :
       /\ (IF x.label = "a" THEN x.a ELSE x.b) =
            Reply[x.question][IF Backed(x.question, "m1") > Backed(x.question, "m2")
                              THEN "m1" ELSE "m2"]
       /\ Predicted(x) = SwappedPredicted(x) <=> Judged(x) # Tie
=============================================================================
