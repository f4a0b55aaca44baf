SPECIFICATION ConsoleSpec
CONSTANTS
    x = x
    y = y
    Fields <- MCPair
    Values <- MCValues
    PageLimit = 1
    MaxRows = 2
    MaxTyped = 1
    MaxSaves = 1
    MaxElsewhere = 1
    UserLimit = 2
    MaxAccounts = 3
    MaxChanges = 2
    MaxForeign = 1
    Handlers <- MCPair
    MaxPayments = 1
    Contexts = {c1, c2}
    HomeSections <- MCPair
    SalesSections <- MCPair
    ExportKinds <- MCPair
    ReadLimit = 1
    MaxBatches = 3
    MaxSales = 2
    Nowhere = Nowhere
SYMMETRY Symmetry
CHECK_DEADLOCK FALSE
INVARIANTS
    ConsoleTypeOK
    PagesTellTheTruth
    FiguresMatchTheirContext
PROPERTIES
    PatchIsDeliberate
    RoleChangesAsConfirmed
    GateNeedsFreshList
    StatusChangesAsConfirmed
    NoOlderFigures
