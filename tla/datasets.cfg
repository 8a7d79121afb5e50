SPECIFICATION Spec
CONSTANTS
    Datasets = {"d1", "d2"}
    Identities = {"a", "b", "p", "x"}
    Media = {"p"}
    Contents = {"c1", "c2", "c3", "e1", "forged"}
    Package <- MCPackage
    None = None
    Calls = {k1, k2}
    Definitions = {"d1", "d2"}
    Bundled = "c1"
    Artifacts <- MCArtifacts
    Keys <- MCKeys
    LicencePolicy <- MCLicences
    SourcePolicy <- MCSources
    MaxEntries = 6
    Catalogs <- MCCatalogs
    Published = {"c1", "c2", "c3", "e1"}
    MaxGenerations = 3
    MaxUpsets = 2
SYMMETRY Symmetry
VIEW View
CHECK_DEADLOCK FALSE
INVARIANTS RebuildPossible LifecycleTraced MediaServed OnlyPublished
PROPERTY OthersKept
