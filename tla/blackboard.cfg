SPECIFICATION Spec
CONSTANTS
    Upper = Upper
    Lower = Lower
    Regions <- SeamRegions
    Rank <- SeamRank
    Adjudicator = Adjudicator
    Resolver = Resolver
    Sources <- SeamSources
    Ops = {"drop", "keep"}
    Raised = {"candidate"}
    Asked = {"defer"}
    Seeds <- SeamSeeds
    Pages = {1}
    Chains <- SeamChains
    Unsound <- DropOfSeam
    MaxRounds = 3
    MaxExpansions = 2
    MaxContextPages = 1
    MaxPosted = 3
INVARIANTS
    TypeOK
    OneOwner
    DecisionsAreHeard
    ContestsAreSeen
    RoundsArePaid
SYMMETRY Alike
CHECK_DEADLOCK FALSE
