SPECIFICATION FeedSpec
CONSTANTS
  Matters = {y1}
  Severities = {"low", "normal", "urgent"}
  FeedTurns = {h1}
  FeedRounds = {r1}
  Situations = {low}
  Calm = Calm
  SlaHours = 1
  BucketHours = 2
  RepeatHours = 2
  MaxNamed = 2
  MaxQuiet = 3
PROPERTIES SeverityOnlyRises
CHECK_DEADLOCK FALSE
