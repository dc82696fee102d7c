CONSTANTS
  Handler = {h1, h2}
  Idle = Idle
  MaxClicks = 5
  MaxFailures = 1
SPECIFICATION FairSpec
INVARIANTS OneTimer ScreenMatchesSession RowsOfTheirTab
PROPERTIES LoggedOutFallsSilent DashboardPolled
CHECK_DEADLOCK FALSE
