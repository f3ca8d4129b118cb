\* A second connection, and no descriptor for it.
CONSTANTS
  Limits = {2}
  MaxOther = 0
  MaxArrive = 2
  Errors = {}
SPECIFICATION Spec
INVARIANT NoStrandedConnection
