SPECIFICATION LibrarySpec
CONSTANTS
  Keys = {k1}
  SeqSpace = 8
  Window = 3
  HistoryBits = 5
  MaxTooOld = 2
  AbsNumbers <- MCAbsNumbers
  AvlNodes = {1, 2, 3, 4, 5, 6, 7, 8, 9, 10, 11, 12}
  AvlUses <- MCAvlUses
  ByteBits = 2
  AfBytes <- MCAfBytes
  AclPrefixes <- MCAclPrefixes
  MaxNumber = 3
  MaxEntries = 3
  IsoNumbers <- MCIsoNumbers
  Scalings = {1, 10, 100, 1000}
  Blocks = {1, 2, 3}
  BaseSize = 5
  Align = 4
  Extensions <- MCExtensions
  MinFree = 1
  MaxEvents = 9
  WireBits = 3
  DlepBuilds <- MCDlepBuilds
  DlepKeys <- MCDlepKeys
  DlepSettings <- MCDlepSettings
  DlepIps <- MCDlepIps
  DlepStreams <- MCDlepStreams
  DlepBudgets <- MCDlepBudgets
  ReaderConsumers <- MCConsumers
  ReaderPackets <- MCPackets
  WriterProviders <- MCProviders
  WriterTlvtypes <- MCTlvtypes
  ReaderBudgets <- MCReaderBudgets
  AddrLen = 3
  TlvTypes = {1, 2}
  ExtTypes <- MCExt
  Ifs <- MCIfs
  Uni <- MCUni
  PacketSize = 60
  MsgSize = 40
  Sizes = {20, 57, 58}
  Contents <- MCContents
  Budgets <- MCMuxBudgets
INVARIANTS WindowExact AnswersRight BaseExact DlepExact CallsPaired DropExact MessagesHeld MessagesRead MessagesSent
CHECK_DEADLOCK FALSE
