SPECIFICATION Spec
CONSTANTS
  Hellos <- AllHellos
INVARIANTS ParsesWhatWasMeant CutMessagesRefused GarbledListsShortened GREASEFiltered JA4IgnoresOrder ExtensionsAsSent PeetprintIgnoresOrder FingerprintRecaptured ProfileLacksCompression
CHECK_DEADLOCK FALSE
