\* Lengths below 3, two rows, tables made, filled, dropped and reopened; names and
\* paths of up to three tokens; one mistake in a statement; texts of up to four
\* characters; rows in both directions, complete and cut at every character.  Each
\* machine ends when it has read its text.
SPECIFICATION FormatsSpec
CONSTANTS
    LenLimit = 3
    SlotSize = 8
    ColTypes <- RowTypes
    Unique <- RowUnique
    BitsPerByte = 2
    NumberSize = 2
    Numbers <- RowNumbers
    Strings <- RowStrings
    Null = Null
    MaxRows = 2
    Names <- DefNames
    ColumnLists <- DefLists
    DefSlot = 23
    Roots = {2, 5}
    MaxTableId = 4
    MaxRowid = 2
    Slash = "/"
    EscapedSlash = "%2F"
    Api = "api"
    Tables = "tables"
    Rows = "rows"
    Param = ":"
    Schema = "schema"
    ExportJson = "export.json"
    ExportMd = "export.md"
    Query = "query"
    PathNames <- MCPathNames
    Ids = {row1}
    MaxSlips = 1
    Letters <- MCLetters
    DigitChars = {"1"}
    SpaceChars = {" "}
    Others <- MCOthers
    Upper <- Capitals
    Keywords <- MCKeywords
    TooLarge <- MCTooLarge
    MaxLen = 4
    Precision = 2
    MaxSent = 2
INVARIANTS
    ReadsAsWritten
    ReloadIsServed
    RequestsReachTheirHandler
    ReadAsMeant
    NothingPassedOver
    ReadBack
    AnswerIsRow
    RowIsSubmitted
    CutIsRefused
CHECK_DEADLOCK FALSE
