SPECIFICATION Spec
CONSTANTS
  h1 = h1
  h2 = h2
  None = None
  Broken = Broken
  Handlers = {h1, h2}
  Workspace = "w"
  Argvs <- MCArgvs
  Policies <- MCPolicies
  MaxWrites = 3
SYMMETRY Symmetry
INVARIANTS
  DecisionEarned
