CONSTANTS
  Port = {"Ethernet0", "Ethernet4", "EthernetBP0"}
  Unnamed = {"EthernetBP0"}
  MaxChanges = 2
SPECIFICATION Spec
INVARIANTS
  TypeOK
  AnswerIsReal
  ListingComplete
  ExactAnswer
