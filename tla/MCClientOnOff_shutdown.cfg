SPECIFICATION FairSpec
CONSTANTS
  client = client
  uploader = uploader
  midHandler = midHandler
  periodic = periodic
  Receiver = {client, midHandler, periodic}
  Groups = 2
  Order <- MCOrder
  Untimed = {midHandler}
  Ending = {periodic}
  Restartable = {periodic}
  MaxLives = 2
INVARIANTS TypeOK OrderKept CompleteMeansEnded ShutdownInv
PROPERTIES Completes StopsInOrder
CHECK_DEADLOCK FALSE
