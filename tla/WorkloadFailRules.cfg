\* The example contracts as they are.
CONSTANTS
    company = company
    rival = rival
    Ids <- AllIds
    Providers <- TwoProviders
    Offers <- CompanyOffers
    EntryPoints <- Installations
    Core = Core
    MaxCalls = 0
    NumberedIds <- Numbered
    Documents <- Examples
    Assignments <- Reassignments
    MaxAssignments = 0
    Nothing = Nothing
SPECIFICATION Spec
INVARIANTS
    FailRulesEnforced
CHECK_DEADLOCK FALSE
