SPECIFICATION FactsSpec
CONSTANTS
  Attempts = {a1, a2}
  Sources = {"real_failure", "system_timeout_synthesized"}
  WaitWindow = 2
  LateSignals = TRUE
  MaxTime = 3
  MaxReports = 2
PROPERTY TerminalStands
