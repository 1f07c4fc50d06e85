SPECIFICATION Spec
CONSTANTS
    aapl = aapl
    ibm = ibm
    nobody = nobody
    Contracts = {aapl, ibm}
    AllContracts <- MCAllContracts
    Unknown = {nobody}
    Bars = {"1d", "1h"}
    Selections <- MCSelections
    HistoryLimit = 3
    NoFile = NoFile
    NoManifest = NoManifest
    TornManifest = TornManifest
    MaxRows = 2
    MaxGathers = 2
INVARIANTS
    TypeOK
    ManifestTellsTheFiles
    ReplayIsTheGather
    TapesAreUnmixed
