SPECIFICATION Spec
CONSTANTS
    u1 = u1  u2 = u2  l1 = l1  j1 = j1  j2 = j2
    Users = {u1, u2}
    Managers = {u1}
    Leads = {l1}
    Numbers = {1, 2}
    Jobs = {j1, j2}
    Sessions = {h1}
    Nobody = Nobody
    Scenarios <- MCScenarios
    Sectored = {1}
    Listing <- MCListing
    Operations = {"claim", "reassign", "return", "sector", "bulk", "form", "stage", "owner", "delete", "active"}
    Automated = TRUE
    Attempts = 2
    MaxOperations = 2
INVARIANTS TypeOK CloudHoldsTheReturned RoundRobinFair HandoverSticks
PROPERTY ConversationIsSteady
