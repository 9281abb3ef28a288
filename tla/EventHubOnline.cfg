CONSTANTS
  MaxSubscribers = 3
  MaxEvents = 3
  DispatchFromMain = FALSE
  Commands = {"stream save", "stream save, printed", "strategy test-online"}
  Trades = {2}
SPECIFICATION RecordingSpec
INVARIANTS RecordingTypeOK BusyIffInFlight ReplayIsRecorded TimerLosesNothing RecordedIsTested NobodyUsesDestroyed
PROPERTIES NoCallbackAfterShutdown ImplementsBus
