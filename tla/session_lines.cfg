SPECIFICATION JLSpec
CONSTANTS
  Appenders = {a1, a2}
  Journals = {session, policies}
  Locked = {policies}
  Long = {}
  MaxLines = 4
  MaxCrashes = 2
  MaxFailures = 1
  FileLimit = 6
  Nowhere = Nowhere
INVARIANT SessionKeepsLines
CHECK_DEADLOCK FALSE
