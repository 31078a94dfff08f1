\* Clients that die anywhere, and an FSP that may stop or be late anywhere.
CONSTANT
  MaxCommands <- MCMaxCommands
SPECIFICATION FairSpec
INVARIANTS
  FreshOpen
PROPERTIES
  RpcSpec
  CallReturns
