\* One connection, a thread that emits, other clients that send messages.
CONSTANTS
  Threads = {t}
  Main = m
  Clients = {c}
  IdleEvents = {"player", "message"}
  Events = {"IDLE"}
  Lines <- Commands
  MaxOutput = 2
  MaxList = 2
  MaxMessages = 1
SPECIFICATION Spec
INVARIANTS NoLostWakeup AssertionsHold OutputIsScheduled OneResponse
PROPERTIES WaitersAreTold ExpiredIsRemoved
