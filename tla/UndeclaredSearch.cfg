CONSTANTS
    Case <- MissingCases
    EpisodeOpens <- DomainOpens
    EpisodeStart <- DomainStart
    EpisodeTexts <- DomainTexts
    EpisodeTools <- DomainTools
    ExecuteTool <- DomainExecute
    AssessEvents <- DomainAssess
    Decision <- CarelessDecides
    Unsafe <- AllUnsafe
    ForbiddenKey <- AllForbiddenKeys
    Listing <- AllListings
    StepLimit = 5
    RepairLimit = 1
    HashLimit = 6
    MaxRestarts = 1
    Faults <- FaultsOf
    None = None
    Strip <- SameText
    Slug <- SameText
    LongName = {}
    AllowedNote <- ContactNotes
    PromptNote = "asked"
    BodyHas <- MobileBodyHas
    ReplyAllowed <- MobileReplyAllowed
    BlankMessage = {}
    LongMessage = {}
    TargetScope = "all_unique"
    ItemQuery <- WorkspaceQueryFor
    TitleAllowed <- WorkspaceTitleAllowed
    CommentAllowed <- WorkspaceCommentAllowed
    BlankItem = {}
    LongItem = {}
    NegatedContact = {}
    NegatedMessage = {}
    NegatedItem = {}
SPECIFICATION Spec
CHECK_DEADLOCK FALSE
INVARIANT StructuralKeysAreExecuted
