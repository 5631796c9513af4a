SPECIFICATION Spec
CONSTANTS
  n1 = n1  n2 = n2
  e1 = e1  e2 = e2
  k1 = k1
  m1 = m1  m2 = m2
  None = None
  Nodes <- MCNodes
  Envs <- MCEnvs
  Conns <- MCConns
  EnvOf <- OneEnv
  Key <- TwoMachines
  For <- ForFirst
INVARIANTS
  TypeOK
PROPERTIES
  QuietWhenUnchanged
  CommitsAreExact
  BindingKept
