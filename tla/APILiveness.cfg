SPECIFICATION APIFairSpec
CONSTANTS
  None = None
  Tasks = {t1, t2}
  Requests <- AskedOnly
  Names = {}
  Notes = {"note"}
  GwNet = 3
  CliNet = 3
  BTCTestnet4 = 4
  UintMod = 16
  Fee = 2
  Dust = 1
  Truncated = {6}
  Funds <- Rich
  InWallet <- FirstInWallet
  MaxTx = 3
  MaxHeight = 0
  MaxFaults = 1
  IDLen = 2
  Reads = {TRUE, FALSE}
PROPERTIES
  RequestsAnswered
  CallsReturn
