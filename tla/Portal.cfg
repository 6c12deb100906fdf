\* One address to scan, one upload; two flows over a little more than two lives of a row.
SPECIFICATION MCSpec
CONSTANTS
  Targets = {t}
  Uploads = {u}
  ReportsMax = 1
  MaxThreads = 2
  Flows = {f, g}
  ReportSpan = 1
  RowLife = 2
  FlowHorizon = 5
INVARIANTS JobsAreTracked
PROPERTIES LeavingIsListed PinnedStay JobsSettle
