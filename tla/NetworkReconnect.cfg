SPECIFICATION Spec
CONSTANTS
  Udp4 = {u1}
  Udp6 = {v1}
  Tcp4 = {t1, t2}
  Tcp6 = {}
  From <- OneAddress
  NoAddr = NoAddr
  Nobody = Nobody
  MaxFd = 6
  QueueCap = 1
  Payloads = {"good", "bad"}
  Closeable = {"TCP", "UDP"}
  Receivable = {"TCP"}
SYMMETRY Symmetry
\* The process may exit or be killed.
CHECK_DEADLOCK FALSE
PROPERTIES ImplementsDirectory
