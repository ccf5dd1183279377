SPECIFICATION Spec
CONSTANTS
  Udp4 = {u1, u2}
  Udp6 = {v1}
  Tcp4 = {t1}
  Tcp6 = {}
  From <- OwnAddress
  NoAddr = NoAddr
  Nobody = Nobody
  MaxFd = 5
  QueueCap = 1
  Payloads = {"good", "bad"}
  Closeable = {"TCP", "UDP"}
  Receivable = {"TCP"}
\* The process may exit or be killed.
CHECK_DEADLOCK FALSE
INVARIANTS SentToAddressee
