SPECIFICATION FairSpec
CONSTANTS
  co = co
  c1 = c1
  c2 = c2
  t1 = t1
  t2 = t2
  lead1 = lead1
  lead2 = lead2
  w1 = w1
  w2 = w2
  m1 = m1
  Nobody = Nobody
  Tenants = {co}
  Campaigns = {c1}
  Targets = {t1}
  Leads = {lead1}
  Ticks = {w1}
  Manuals = {}
  TenantOf <- MCTenantOf
  CampaignOf <- MCCampaignOf
  LeadOf <- MCLeadOf
  DailyLimit <- MCAmpleLimit
  Throttle <- MCThrottle
  TenantHours <- MCTenantHours
  CampaignHours <- MCCampaignHours
  TenantLimit = 2
  MinGap = 1
  StaleAfter = 1
  DayLength = 2
  MaxNow = 4
  LastReserve = 1
  MaxRetries = 1
  Managed = {c1}
  Speakers = {lead1}
  MaxCrashes = 1
PROPERTIES
  ClaimsResolve
  ExhaustedCloses
CHECK_DEADLOCK FALSE
