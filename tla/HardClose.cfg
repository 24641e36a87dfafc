CONSTANTS
  client = client  server = server
  Endpoint = {client, server}
  Peer <- MCPeer
  MaxSent = 3
  f1 = f1  f2 = f2  c1 = c1  c2 = c2  a1 = a1  a2 = a2
  Factory = {f1, f2}
  Client = {c1, c2}
  Acceptor = {a1, a2}
  Port = {0}
  MaxBinds = 2
  MaxConnects = 2
  near = near  far = far
  End = {near, far}
  OtherEnd <- MCOtherEnd
  Connecting = near
  MaxBytes <- MCMaxBytes
  Room = 2
  MaxSize = 2
SPECIFICATION AllSpec
INVARIANT HardCloseReported
CHECK_DEADLOCK FALSE
