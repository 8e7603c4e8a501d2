SPECIFICATION Spec
CONSTANTS
  AuthMethods = {"none", "password"}
  TcpWnd = 4
  SndBuf = 4
  RecvBufSize = 5
INVARIANTS HalvesFreedOnce WindowMatchesBuffer NoStall AbortReported
PROPERTIES ClientDataFlushed ReplyFlushed
