SPECIFICATION Spec
CONSTANTS
  co = co
  c1 = c1
  c2 = c2
  t1 = t1
  t2 = t2
  lead1 = lead1
  lead2 = lead2
  w1 = w1
  w2 = w2
  m1 = m1
  Nobody = Nobody
  Tenants = {co}
  Campaigns = {c1}
  Targets = {t1}
  Leads = {lead1}
  Ticks = {w1}
  Manuals = {m1}
  TenantOf <- MCTenantOf
  CampaignOf <- MCCampaignOf
  LeadOf <- MCLeadOf
  DailyLimit <- MCDailyLimit
  Throttle <- MCThrottle
  TenantHours <- MCTenantHours
  CampaignHours <- MCCampaignHours
  TenantLimit = 2
  MinGap = 1
  StaleAfter = 0
  DayLength = 2
  MaxNow = 3
  LastReserve = 2
  MaxRetries = 1
  Managed = {c1}
  Speakers = {lead1}
  MaxCrashes = 1
INVARIANTS
  TypeOK
  DeliveriesPaid
  QuotaPerDay
  ClaimIsOwned
  ReplyMetricHonest
PROPERTIES
  KeepsPromise
  CanceledIsFinal
CHECK_DEADLOCK FALSE
