SPECIFICATION FairSpec
CONSTANTS
    c1 = c1
    Campaign = {c1}
    Post = {p1}
    CampaignOf <- OneCampaign
    Dimension = {metrics}
    Recurring = {daily}
    Default = daily
    Manual = Manual
    Unset = Unset
    NoSchedule = NoSchedule
    NoCampaign = NoCampaign
    Handler = {h1, h2}
    MayFail = TRUE
INVARIANTS InStepAtRest DraftNeverScheduled
PROPERTIES LawfulTransitions EventuallyInStep
