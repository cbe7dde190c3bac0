SPECIFICATION StalledClientSpec
CONSTANTS
  h1 = h1
  h2 = h2
  h3 = h3
  id1 = id1
  id2 = id2
  Handlers = {h1, h2, h3}
  Models = {m1}
  Generations = {1}
  Ids = {id1, id2}
  IdsOf <- OwnIds
  MaxConnections = 2
  MaxRounds = 1
  None = None
PROPERTY HandlersReturn
CHECK_DEADLOCK FALSE
