CONSTANTS
    a = a  b = b  nobody = nobody  none = none  connection = connection
    m1 = m1  m2 = m2  n1 = n1  n2 = n2  o1 = o1  o2 = o2  f1 = f1  c1 = c1
    p1 = p1  p2 = p2  k1 = k1  k2 = k2
    Identities <- MCIdentities
    Allowed <- MCAllowed
    Nobody = nobody
    Attempts <- First
    Sessions <- Second
    Browsers <- Third
    MaxPending = 1
    AttemptLife = 1
    IdleWindow = 1
    Absolute = 2
    MaxTime = 1
    MaxBack = 1
    Items <- First
    Keys <- Second
    Texts <- Third
    Sources <- MCSources
    Importers <- MCImporters
    Entries <- MCEntries
    None = none
    MaxItemRev = 2
    MaxImports = 2
    MaxEdits = 2
    Commands <- First
    Paths <- Second
    Server = connection
    Nothing = none
    MaxData = 2
    Jobs <- First
    KeepLatest = 1
    Lines <- MCLines
    Drafts <- MCDrafts
    Title = a
    Warned = b
    UsedTools <- MCTools
    MaxVersions = 3
    MaxHunks = 2
    Tabs <- First
    Offered <- MCOffered
    MaxMacros = 1
    MaxReplacement = 3
    MaxArguments = 1
    MaxSettings = 2
    NoteIds = {1, 2}
    People <- MCPeople
    OwnerOf <- MCOwner
    CitedKeys <- MCCited
    Bodies <- MCTexts
    MaxDepth = 3
    BackupTime = 2
SPECIFICATION LibraryClockSpec
INVARIANT LibraryReads
SYMMETRY Symmetric
