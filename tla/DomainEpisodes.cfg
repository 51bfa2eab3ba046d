CONSTANTS
    Case <- AllCases
    EpisodeOpens <- DomainOpens
    EpisodeStart <- DomainStart
    EpisodeTexts <- DomainTexts
    EpisodeTools <- DomainTools
    ExecuteTool <- DomainExecute
    AssessEvents <- DomainAssess
    Decision <- AgentDecides
    Unsafe <- AllUnsafe
    ForbiddenKey <- AllForbiddenKeys
    Listing <- AllListings
    StepLimit = 5
    RepairLimit = 1
    HashLimit = 6
    MaxRestarts = 1
    Faults <- FaultsOf
    None = None
    Strip <- SameText
    Slug <- SameText
    LongName = {}
    AllowedNote <- ContactNotes
    PromptNote = "asked"
    BodyHas <- MobileBodyHas
    ReplyAllowed <- MobileReplyAllowed
    BlankMessage = {}
    LongMessage = {}
    TargetScope = "all_unique"
    ItemQuery <- WorkspaceQueryFor
    TitleAllowed <- WorkspaceTitleAllowed
    CommentAllowed <- WorkspaceCommentAllowed
    BlankItem = {}
    LongItem = {}
    NegatedContact = {}
    NegatedMessage = {}
    NegatedItem = {}
SPECIFICATION AnySpec
CHECK_DEADLOCK FALSE
INVARIANTS HistoryExplainsState VerdictsAreEarned ReplayReproduces ChangesAreLegitimate DemonstrationsAreTrue InstructedAgentsSucceed
PROPERTIES EpisodesConclude
