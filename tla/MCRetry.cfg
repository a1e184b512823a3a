SPECIFICATION HelpersSpec
CONSTANTS
  Texts = {empty, boom}
  EmptyText = empty
  Budgets <- MCBudgets
  NoError = NoError
  Exceeded = Exceeded
  BadRegexp = BadRegexp
  NoAnswer = NoAnswer
  TimedCalls = {c1, c2}
  Outcomes = {ok, failed}
  TimedOut = TimedOut
  Nothing = Nothing
  Tests = {t1, t2}
  MaxDone = 2
INVARIANTS HelpersTypeOK AnswerIsEarned AnswerIsTrue QuietAfterDone
PROPERTIES LoopKeepsContract NobodyIsStuck
CHECK_DEADLOCK FALSE
