SPECIFICATION Spec
CONSTANTS
  Null = Null
  Bad = Bad
  ReadError = ReadError
  None = None
  NoResponse = NoResponse
  NoFault = NoFault
  Market = "market"
  Profile = "profile"
  Scale = 1
  AdmissionScale = 1
  IcNames = {"ic"}
  RefOrder <- MCRefOrder
  Targets = {"b", "x"}
  ChunkSize = 3
  Rounds = 2
  MaxFaults = 1
  Minimums <- MCMinimums
INVARIANTS AnswersBelongToSnapshot
PROPERTIES SoundIsReported WrongFieldNoticed ChangeIsTold
