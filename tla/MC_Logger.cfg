SPECIFICATION LoggerSpec
CONSTANTS
  system_server = system_server
  app = app
  logcat = logcat
  Writer <- MCWriter
  Reader <- MCReader
  Size = 8
  MaxPayload = 2
INVARIANTS
  SleepersWoken
PROPERTY
  QueueUntilTorn
SYMMETRY WriterSymmetry
CONSTRAINT NotTorn
