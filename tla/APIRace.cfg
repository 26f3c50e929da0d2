SPECIFICATION APISpec
CONSTANTS
  None = None
  Tasks = {t1, t2}
  Requests <- AskedOnly
  Names = {}
  Notes = {}
  GwNet = 3
  CliNet = 3
  BTCTestnet4 = 4
  UintMod = 16
  Fee = 2
  Dust = 1
  Truncated = {6}
  Funds <- Rich
  InWallet <- FirstInWallet
  MaxTx = 4
  MaxHeight = 0
  MaxFaults = 0
  IDLen = 2
  Reads = {TRUE}
INVARIANTS
  OnePostSucceeds
