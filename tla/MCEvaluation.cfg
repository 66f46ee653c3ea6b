\* Every component over its small inputs; datasets of three cases and one client, five requests.
CONSTANTS
    None = None
    Null = Null
    Clients = {c1}
    CaseIds = {k1, k2, k3}
    Bodies = {x, y}
    DatasetIds = {"ds_e1", "ds1", "ds2"}
    InlineId <- DerivedIds
    Offered = {"upload", "append", "freeze", "die"}
    Shared = FALSE
    Serial = TRUE
    MaxCalls = 5
SPECIFICATION SuiteSpec
INVARIANTS
    StoredIsComputed
PROPERTIES
    DatasetsStayTrue
    FiguresAreRight
CHECK_DEADLOCK FALSE
