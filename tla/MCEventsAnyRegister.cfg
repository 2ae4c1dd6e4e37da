SPECIFICATION Spec
CONSTANTS
  Null = Null
  N = 2
  Subs = {}
  Rounds = 1
  Threads = {t, u}
  Starter = t
  Modes = {"any"}
  MaxNotify = 1
  MaxAgain = 0
CHECK_DEADLOCK FALSE
INVARIANT RegistrationReadsLiveAwaiter
