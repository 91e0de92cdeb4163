SPECIFICATION Spec
CONSTANTS
  Address = {a0, a1, a2}
  ZeroAddress = a0
  Nullifier = {n1}
  ZeroHash = zeroHash
  Nonce = {r1}
  Measurement = {m1}
  Tier = {0}
  Validity = {1}
  MaxUint64 = 3
  MaxTime = 2
  Deployer = a1
  Manager = {f1, f2}
  FIRST_PUBLIC_EXTENSION_ID = 65536
  MaxExtensions = 2
INVARIANTS
  TypeOK
  InstructionsAreAnchored
PROPERTIES
  RoutedAnchorsAreDispatched
SYMMETRY Symmetry
