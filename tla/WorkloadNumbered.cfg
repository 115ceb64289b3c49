\* A package that registers a pattern called P15.
CONSTANTS
    company = company
    rival = rival
    Ids <- AllIds
    Providers <- TwoProviders
    Offers <- CompanyOffers
    EntryPoints <- Installations
    Core = Core
    MaxCalls = 1
    NumberedIds <- Numbered
    Documents <- Varied
    Assignments <- Reassignments
    MaxAssignments = 0
    Nothing = Nothing
SPECIFICATION Spec
INVARIANTS
    RegisteredPatternsUsable
CHECK_DEADLOCK FALSE
