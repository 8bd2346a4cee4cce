SPECIFICATION Spec
CONSTANTS
    i1 = i1  w1 = w1  r1 = r1  r2 = r2  r3 = r3
    acme = acme  other = other  k1 = k1
    old = old  new = new  lead1 = lead1  lead2 = lead2
    Instances = {i1}
    Ticks = {t1, t2}
    Hooks = {h1}
    Down = {"close"}
    Nothing = Nothing
    MaxTroubles = 1
    Events = {e1}
    Tests = {test1}
    Webhooks = {w1}
    Attempts = 2
    MaxMishaps = 1
    Requests = {r1, r2, r3}
    Company <- MCCompany
    Path <- MCPath
    Key <- MCKey
    Missing = Missing
    MaxLapses = 1
    Importers = {old, new}
    Process <- MCProcess
    Sheet <- MCSheet
    MaxRows = 2
    SheetLeads = {lead1, lead2}
    LeadOf <- MCLeadOf
    Person <- MCPerson
    Known = {lead1}
    Protected = TRUE
    Unread = Unread
    MaxTentativas = 2
    MaxUpsets = 1
INVARIANTS HealthTypeOK OneAlertPerOutage AlertHadTwoLooks SilenceOncePerCooldown
INVARIANTS RepeatsExplained SettledIsOnRecord SecondRunOverlaps ReplaysItsOwn
INVARIANTS RowEntersOnce OneLeadPerPerson
PROPERTIES HandwrittenStays RowsSettle OutageAlerted FalseAlarmHeals QueuedSettles
CHECK_DEADLOCK FALSE
