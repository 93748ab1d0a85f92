SPECIFICATION Spec
CONSTANTS
  k1 = k1
  k2 = k2
  k3 = k3
  NoKey = NoKey
  Key <- Keys
INVARIANT EnvCanBeDropped
