SPECIFICATION FairSpec
CONSTANTS
  Control = control
  Tasks = {control, reader, writer}
  Engines = {e1, e2}
  NoEngine = NoEngine
INVARIANTS
  EngineAlive
  SecureWhenTold
PROPERTIES
  TlsWhenEngaged
  EndsInTime
