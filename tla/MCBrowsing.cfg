CONSTANTS
    r1 = r1
    r2 = r2
    word = word
    Empty = Empty
    Nobody = Nobody
    Requests <- MCRequests
    Bids <- MCBids
    SampleBids <- MCSampleBids
    Column <- MCColumn
    Texts <- MCTexts
    Mentions <- MCMentions
    Backend = "auto"
    PageSize = 2
    Operations <- MCOperations
    NumberLike <- MCNumberLike
    Limit = 3
    Asked <- MCAsked
    Filters <- MCFilters
    Searches <- MCSearches
    Responses <- MCResponses
    Tables <- MCTables
    Synced <- MCSynced
    MaxSyncs = 1
    MaxChanged = 2
SPECIFICATION Spec
SYMMETRY RequestSymmetry
INVARIANTS
    TypeOK
    PagesMakeTheExport
    NoticesAreListedOnce
    
    FavoritesAreListed
    TablesShowTheirPage
    TableTogglesCancel
    SearchShowsNewest
    SearchKeepsBest
CHECK_DEADLOCK FALSE
