SPECIFICATION Spec
CONSTANTS
    c1 = c1
    Campaign = {c1}
    Post = {p1}
    CampaignOf <- OneCampaign
    Dimension = {metrics, comments}
    Recurring = {daily, hourly}
    Default = daily
    Manual = Manual
    Unset = Unset
    NoSchedule = NoSchedule
    NoCampaign = NoCampaign
    Handler = {h1}
    MayFail = TRUE
INVARIANTS TypeOK InStepAtRest
