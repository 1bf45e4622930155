CONSTANTS
    Address <- FewAddresses
    None = 0
    Window = 3
    MaxId = 3
    MaxPlain = 2
    Avoided <- AvoidedFunctions
    Unfollowed <- UnfollowedOutcomes
SPECIFICATION Spec
INVARIANTS DeadUseReported LegalUseSilent SameResources ContentsDescribed FilesDescribed
CHECK_DEADLOCK FALSE
