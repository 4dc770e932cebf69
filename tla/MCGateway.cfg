SPECIFICATION Spec
CONSTANTS
  Server = {"grpc", "http"}
  MaxSignals = 2
  MaxCalls = 2
INVARIANTS Inv ExitTruthful
PROPERTIES SignalCaught ShutsDown
