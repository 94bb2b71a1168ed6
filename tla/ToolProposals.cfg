\* One proposal of each way to execute, two requests at once, one mishap.
SPECIFICATION Spec
CONSTANTS
  Handlers = {h1, h2}
  Commands = {c1}
  Invalid = {}
  Advisory = {v1}
  AutoRouted = {a1}
  Requested = {c1}
  MaxMishaps = 1
SYMMETRY HandlerSymmetry
INVARIANTS
  NothingUnapproved
  CalmSessionHolds
