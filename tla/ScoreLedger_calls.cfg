SPECIFICATION Spec
CONSTANTS
  Users = {u1}
  Requests = {q1, q2}
  Sessions = {s1}
  Resets = {r1, r2}
  System = System
  Holder <- MCHolder
  Amounts = {1, 2}
  Nets <- MCNets
  Times = {0, 1}
  Gap = 1
  Base = 1
  Slots = {a, b, c}
  Idle = Idle
  MaxCalls = 4
SYMMETRY Symmetry
INVARIANT RunningBalance
INVARIANT ResetWipes
PROPERTY KeepsBook
CHECK_DEADLOCK FALSE
