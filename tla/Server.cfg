\* 382 programs, two sessions, one call in flight.
SPECIFICATION ProgramSpec
CONSTANTS
    Modules <- MCModules
    Descriptors <- MCDescriptors
    Threads <- MCThreads
    Plans <- MCPlans
    Objects <- MCObjects
    Fits <- Accepts
    Resolves <- WellFounded
    Gone = Gone
    NoAlias = NoAlias
    Summaries = {"summary"}
    Templates = {"template"}
    Reserved = {"reserved"}
    Unknown = {"unknown"}
    Misnamed = {"Misnamed"}
    MaxRefDepth = 7
    Sessions = {s1, s2}
    Web = Web
    NoSession = NoSession
    Calls = {k1}
SYMMETRY Symmetry
INVARIANTS
    RemembersItsClient
    StructuredOnlyIfNegotiated
    ShownSchemaIsHonoured
    ListedToolAnswers
    ToolMapFollowsRegistry
    NothingVanishes
    ContractKept
    StrictExportIsFaithful
    InlineIsUnfolding
CHECK_DEADLOCK FALSE
