SPECIFICATION FairSpec
CONSTANTS
  client = client
  uploader = uploader
  midHandler = midHandler
  periodic = periodic
  Receiver = {client, midHandler}
  Groups = 2
  Order <- MCOrder
  Untimed = {midHandler}
  Ending = {}
  Restartable = {}
  MaxLives = 1
PROPERTY ShutdownCompletes
CHECK_DEADLOCK FALSE
