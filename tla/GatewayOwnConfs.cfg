SPECIFICATION Spec
CONSTANTS
  None = None
  Tasks = {t1, t2}
  Requests <- OneOnly
  Names = {}
  Notes = {}
  GwNet = 3
  CliNet = 3
  BTCTestnet4 = 4
  UintMod = 16
  Fee = 2
  Dust = 1
  Truncated = {6}
  Funds <- Rich
  InWallet <- FirstInWallet
  MaxTx = 4
  MaxHeight = 1
  MaxFaults = 0
  IDLen = 1
INVARIANTS
  ConfsOfOwnTx
