SPECIFICATION JudgingSpec
CHECK_DEADLOCK FALSE
CONSTANTS
  Texts <- MCTexts
  PoolOf <- MCPool
  Score <- MCScore
  RunSize = 3
  Shown <- MCShown
  AppendSize = 2
  Plans <- MCPlans
  Questions <- MCQuestions
  Reply <- MCReply
  MaxVotes = 4
  Margin = 1
  Items = 3
  Good = "grounded"
  Bad = "vague"
  Jurors <- MCJurors
INVARIANTS JudgedExactly ContentWins AnchorsMeasure
