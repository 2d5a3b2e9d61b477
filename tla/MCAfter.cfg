SPECIFICATION Spec
CONSTANTS
  Parts = {"timeout"}
  Corner = FALSE
  a1 = a1
  a2 = a2
  a3 = a3
  c1 = c1
  c2 = c2
  Main = Main
  Core = Core
  Conn = {1, 2}
  NoConn = 0
  Worker = {1, 2}
  HTTP_POOL_QUEUE_CAP = 1
PROPERTY AfterFires
CHECK_DEADLOCK FALSE
