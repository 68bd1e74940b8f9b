SPECIFICATION JobSpec
CONSTANTS
  c1 = c1
  c2 = c2
  c3 = c3
  good = good
  bad = bad
  Garbage = Garbage
  Conns = {c1, c2, c3}
  Texts = {good, bad}
  GoodTexts = {good}
  MaxRestarts = 1
INVARIANTS JobTypeOK IssuedIsKnown PollTellsTruth OwnTextUnlessLate
PROPERTY JobsEnd
CHECK_DEADLOCK FALSE
