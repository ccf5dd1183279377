SPECIFICATION FairSpec
CONSTANTS
  Udp4 = {u1, u2}
  Udp6 = {v1}
  Tcp4 = {}
  Tcp6 = {}
  From <- OwnAddress
  NoAddr = NoAddr
  Nobody = Nobody
  MaxFd = 5
  QueueCap = 2
  Payloads = {"good", "bad", "empty"}
  Closeable = {"TCP"}
  Receivable = {"TCP"}
\* The process may exit or be killed.
CHECK_DEADLOCK FALSE
PROPERTIES Udp4Served Udp6Served
