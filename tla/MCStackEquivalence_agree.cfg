SPECIFICATION Spec
CONSTANTS
  None = None
  q1 = q1
  Facts <- MCFacts
  Bodies <- MCBodies
INVARIANTS
  AdmitsExactlyTheOperational
  
