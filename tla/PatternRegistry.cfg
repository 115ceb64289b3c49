\* Every subset of five packages installed, in any order, then up to four calls.
CONSTANTS
    sap = sap
    legacy = legacy
    clumsy = clumsy
    empty = empty
    abstract = abstract
    CorePatterns <- TwoBuiltins
    Ids <- SomeIds
    Providers <- Packages
    Offers <- PackageOffers
    EntryPoints <- Installations
    Core = Core
    MaxCalls = 4
SPECIFICATION Spec
INVARIANTS
    TypeOK
    RoutedToDeclarer
    ListedProvideAll
    OrderIndependent
PROPERTIES
    NeverRerouted
CHECK_DEADLOCK FALSE
