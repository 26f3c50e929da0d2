SPECIFICATION Spec
CONSTANTS
  None = None
  Base = 4
  Width = 2
  IDLen = 1
  Signature <- BBc1
  Versions = {1, 3}
  Nets = {1, 2, 3}
  IDs <- SomeIDs
  Net = 1
  Fee = 2
  Dust = 1
  Truncated = {4}
  Fundings <- SomeFundings
  Anchors <- SomeAnchors
  UintMod = 16
  BTCTestnet4 = 2
  MaxTx = 4
  MaxHeight = 2
INVARIANTS
  TypeOK
  RoundTrip
  NothingOverlooked
  ConfsMeanMined
  AnswersAsCLI
  ErrorMeansUnsent
  ChangeIsFound
PROPERTIES
  ImplementsCLI
