SPECIFICATION Spec
CONSTANTS
  Users = {"o", "m"}
  Owner = "o"
  QueueCap = 1
  Tasks = {t1, t2}
  MaxEvents = 3
SYMMETRY Symmetry
INVARIANTS SocketsPermitted NoSilentInvitation NoChangeForgotten
CHECK_DEADLOCK FALSE
