SPECIFICATION Spec
CONSTANTS
  l1 = l1
  l2 = l2
  r1 = r1
  r2 = r2
  Addrs <- MCAddrs
  None = None
  AuthMethods = {"none", "password"}
  MaxConnections = 2
  SendBufferSize = 1
  MaxAnswers = 1
INVARIANTS IndexesAgree PacketsIntact FirstPacketHasRoom SocksOrTimer SocksReleased AnswerFromItsRemote
PROPERTIES ImplementsTable
