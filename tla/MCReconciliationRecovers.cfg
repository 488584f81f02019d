SPECIFICATION FairSyncSpec
CONSTANTS
  Scopes = {hub}
  NoSnapshot = NoSnapshot
  Torn = Torn
  MaxVersion = 2
  MaxUpsets = 1
PROPERTY ReconciliationRecovers
