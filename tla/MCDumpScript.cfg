SPECIFICATION FairDumpSpec
CONSTANTS
    Row <- Rows4
    Table <- Tables3
    Columns <- ColumnsOf
    NoTable = "d"
    TableOf <- TableOf4
    FK <- Keys
    Child <- ChildOf
    Parent <- ParentOf
    Database <- AllDatabases
    Written <- FewDatabases
    Config <- Configs
    MaxWrites = 1
    TableOrder <- Order
    SeqOrder <- Sequences2
    Uses <- UsesOf
    Rewritten <- Moved
CHECK_DEADLOCK FALSE
INVARIANTS
    SelectionClosed
    SelectionMinimal
    OutputIsWhole
    SequencesArePast
PROPERTY DumpEnds
