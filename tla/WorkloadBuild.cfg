\* Every example contract and its departures, one assignment, late registration.
CONSTANTS
    company = company
    rival = rival
    Ids <- AllIds
    Providers <- TwoProviders
    Offers <- CompanyOffers
    EntryPoints <- Installations
    Core = Core
    MaxCalls = 1
    NumberedIds <- Numbered
    Documents <- Varied
    Assignments <- Reassignments
    MaxAssignments = 1
    Nothing = Nothing
SPECIFICATION Spec
INVARIANTS
    TypeOK
    BuiltContractsHold
    NoDanglingReads
    FailedBuildFeedsNoSilver
    BuiltFlowsAreAdmitted
    QuarantineSplits
    LoadedContractsAreKeyed
    BuiltByDeclarer
CHECK_DEADLOCK FALSE
