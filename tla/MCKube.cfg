SPECIFICATION KubeSpec
CONSTANTS
  Editors = {t1, t2}
  Copiers = {t2}
  MaxEdits = 3
  Contexts <- MCContexts
  Users = {"sa"}
  HomeConfig <- MCHome
  NoFile = NoFile
  Texts = {empty, done, notyet}
  EmptyText = empty
  Budgets <- MCBudgets
  NoError = NoError
  Exceeded = Exceeded
  BadRegexp = BadRegexp
  NoAnswer = NoAnswer
  Done = done
  NotYet = notyet
  Nodes = {n1, n2}
INVARIANTS KubeTypeOK ConfigIsSound OwnEditsLast WaitIsHonest SecondReadingFinds
CHECK_DEADLOCK FALSE
