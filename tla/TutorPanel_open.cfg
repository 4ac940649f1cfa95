\* Ten minutes and sixty seconds, in units of time.
SPECIFICATION PanelSpec
CONSTANTS
  Threshold = 2
  Stage2Offset = 1
PROPERTIES NoNagging HelpWhenOpen BackWhenHealthy InputReturns
