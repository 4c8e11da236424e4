SPECIFICATION MCSpec
CONSTANTS
  Clients = {c1, c2}
  BatchClients = {c1}
  HandCopied = {c1}
  Ticks = {t1, t2}
  MailRuns = {r1, r2, r3}
  Tasks = {r1, r2, r3}
  MaxContexts = 2
  Types = {y1, y2}
  Callers = {a1, a2}
  Cooldown = 3
  Window = 1
  Cap = 1
  MaxNow = 3
  MaxRecords = 2
  Imports = {r1, r2}
  ApiImports = {r1}
  Promotions = {p1, p2, p3}
  Smokes = {r1}
  Probes = {r2}
  Bundles = {r3}
  Captures = {k1}
  Screenshots = {k1}
  MaxTakes = 2
  Sweeps = {w1, w2}
  Registers = {g1}
  Disables = {d1, d2}
  Texts = {x1, x2}
  Reminders = {m1}
  OkCases = {j1}
  FailCases = {j2}
  Others = {j3}
  Logins = {l1}
  Handlers = {h1}
  Timeout = 2
  Slice = 1
  Pause = 3
  Nobody = Nobody
  c1 = c1
  t2 = t2
  r1 = r1
  r2 = r2
  r3 = r3
  x2 = x2
  j1 = j1
  j2 = j2
  j3 = j3
  l1 = l1
CHECK_DEADLOCK FALSE
INVARIANTS
  TypeOK
  ExclusiveDownload
  OutcomeTruthful
  MailOnce
  OpenBounded
  ClosedMeansGone
  CredentialsMatch
  FilesMatchRows
  AuditTrue
  ApprovedMeansTyped
  StopsInTime
PROPERTIES
  TickAllOrNothing
  TickEnds
  AlertsSpaced
  AcknowledgedIsNewest
  DisableHolds
  PassOnlyBeforeCompletion
  ValidationEnds
