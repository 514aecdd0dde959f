SPECIFICATION Spec
CONSTANTS
  Key <- MCKey
  Wallet <- MCWallet
  System = 1
  Token = 3
  TokenAccount <- MCTokenAccount
  Instruction <- MCInstruction
  MaxInstructions = 3
  ByteValues = 3
  GroupValues = 2
INVARIANTS
  IndicesResolve
  RolesIffOrdered
  TransferMarksTheProgram
  AcceptedIffAlone
  WireRoundTrip
