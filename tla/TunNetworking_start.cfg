\* Every document and every option; any command may fail; sessions one after another.
CONSTANTS
  None = None
  Tun = "tun"
  OnLink = "lan"
  Gateways = {"eth"}
  Width = 3
  DnsLists <- MCDnsLists
  Modes <- MCModes
  Tables <- MCTables
  Documents <- MCDocuments
  BypassLists <- MCBypassLists
  Addresses <- MCAddresses

SPECIFICATION TunSpec

INVARIANTS
  EditsExact
  NoLoop
  RoutesUndone
