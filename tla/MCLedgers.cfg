CONSTANTS
    MaxReceipts = 6
    Plans <- TestPlans
    MaxSpikes = 3
    MaxClaims = 1
    Lexicon = {"a", "b"}
    Meanings = {"m", "n"}
    MaxEntries = 3
    Parts = {1}
    BuildPackages = {"p", "q"}
    Roots = {"x"}
    SubTasks = {"s"}
    Intents = {"i", "j"}
    MaxPlacements = 3
    MaxBriefs = 3
    Titles = {"T"}
    Texts <- TestTexts
    Quotes <- TestQuotes
    MaxSources = 1
    MaxExtracts = 1
SPECIFICATION Spec
INVARIANT SpikesConclude
INVARIANT RefutationContests
INVARIANT AssentIsGiven
INVARIANT BroadeningsLogged
INVARIANT BriefsChain
INVARIANT QuotesVerified
PROPERTY VerdictsStand
CONSTRAINT OneLedger
CHECK_DEADLOCK FALSE
