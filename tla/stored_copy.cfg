SPECIFICATION Spec
CONSTANTS
  Clients = {c1}
  BatchClients = {c1}
  HandCopied = {}
  Ticks = {t1}
  Nobody = Nobody
CHECK_DEADLOCK FALSE
PROPERTIES
  IntactCopyStored
