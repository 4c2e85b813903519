SPECIFICATION ProcessesSpec
CONSTANTS
  None = None
  Servers = {v1, v2}
  Sessions = {s1, s2}
  Uses = {u1}
  MaxSessions = 1
CHECK_DEADLOCK FALSE
INVARIANTS ShellInv HttpInv
PROPERTIES DescriptorGoes StatusSettles SessionsEnd
