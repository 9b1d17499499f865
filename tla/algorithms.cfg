\* The pure functions on every input of bounded size.
SPECIFICATION Spec
CONSTANTS
  ByteValues = 2
  U16 = 2
  U32 = 2
  U64 = 2
  BlockSize = 6
  LengthSize = 4
  BitsPerByte = 1
  kInitialHash <- MCInitialHash
  compress <- MCcompress
  Dollar = 2
  Alphabet <- MCAlphabet
  Alnum <- MCAlnum
  NameMin = 1
  NameMax = 2
  RoomMax = 4
  ChatMax = 4
  kHistoryLimit = 5
  MaxHistory = 20
  IntMax = 127
  Records <- MCRecords
  Histories <- MCHistories
  NameLists <- MCNameLists
  ByteStrings <- MCByteStrings
  Names <- MCNames
  Texts <- MCTexts
  Lines <- MCLines
  Fields <- MCFields
  Commands <- MCCommands
  Salts <- MCSalts
  Passwords <- MCPasswords
INVARIANTS RecordsRoundTrip DecodingIsSound PaddingIsSound PasswordMatchesItself OneKeyPerPair LabelNamesOther RoomsAreNoThreads RoomNameLeadsBack HistoryIsOwn CommandsAreUnderstood CredentialsArrive
