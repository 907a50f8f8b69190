SPECIFICATION Spec
CONSTANTS
  Alice = Alice
  Bob = Bob
  News = News
  Clients = {Alice, Bob}
  Channels = {News}
  Menu <- Menus
  BatchMax = 2
  MaxRequests <- Requests
  NoClient = NoClient
CHECK_DEADLOCK FALSE
INVARIANTS AnsweredOnceInOrder QueuedRunsOnCommit SubscriptionsAgree ShutdownReachesClients
