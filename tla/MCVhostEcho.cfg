CONSTANT Num = 3
SPECIFICATION FairSpec
INVARIANTS
  TypeOK
  WaitingIsKicked
  EchoesInOrder
  BatchEchoed
PROPERTIES
  TxServed
  ClientGetsStuck
