\* An SCD2 contract whose ordering is advisory.
CONSTANTS
    company = company
    rival = rival
    Ids <- AllIds
    Providers <- TwoProviders
    Offers <- CompanyOffers
    EntryPoints <- Installations
    Core = Core
    MaxCalls = 0
    NumberedIds <- Numbered
    Documents <- Varied
    Assignments <- Reassignments
    MaxAssignments = 0
    Nothing = Nothing
SPECIFICATION Spec
INVARIANTS
    Scd2IsAuthoritative
CHECK_DEADLOCK FALSE
