CONSTANTS
    None = None
    rover = rover
    drone = drone
    city = city
    acme = acme
    low = low
    ill = ill
    t1 = t1
    Device = {rover, drone}
    OrgOf <- MCOrgOf
    Payload <- MCPayload
    Status = {"online", "offline", "decommissioned"}
    Runner = {t1}
    Rule = {low, ill}
    RuleRow <- MCRuleRow
    MaxWrites = 3
    MaxFaults = 1
SPECIFICATION FairSpec
INVARIANTS TypeOK ScoresExplained AlertsCaused
PROPERTIES ScoreSettles AilingAlerted
