\* Refusals of the channel by callback: pause, requeue, reconnection, time.
SPECIFICATION Spec
CONSTANTS
  m1 = m1  m2 = m2  h1 = h1  h2 = h2
  Msgs = {m1}
  Handlers = {h1, h2}
  category <- OneFree
  Fates = {"delivered", "ratelimit", "conta", "mensagem"}
  MaxAttempts = 2
  PauseRateLimit = 3
  PauseAccount = 4
  MaxHandling = 1
  Price = 2
  InitialBalance = 3
  InitialQuota = 1
  Credit = 1
  NoOne = NoOne
  Reports = {"sent", "delivered", "failed"}
  MaxSends = 3
  MaxRetries = 1
  MaxCredits = 0
  MaxCount = 0
  Others = {"clock", "customer", "account"}
INVARIANTS RequeueIsSafe RefusalIsFree
