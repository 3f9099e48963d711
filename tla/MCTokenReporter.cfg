SPECIFICATION FairReporterSpec
CONSTANTS
  MaxReports = 3
  MaxOffline = 2
  MaxConnects = 2
  Outcomes = {"ok", "refused", "unheard"}
  SendsToken = TRUE
  StoreMayFail = TRUE
INVARIANTS
  ReportsKept
PROPERTY
  ReportsSettle
