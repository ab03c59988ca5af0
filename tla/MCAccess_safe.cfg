SPECIFICATION AccessSpec
CONSTANTS
  Users = {u1, u2, u3}
  MaxRoles = 2
INVARIANTS PortalUsersAreLinked ConsoleAgrees
CHECK_DEADLOCK FALSE
