\* Concurrent and repeated callbacks of two billed messages, purchases and errors.
SPECIFICATION Spec
CONSTANTS
  m1 = m1  m2 = m2  h1 = h1  h2 = h2
  Msgs = {m1, m2}
  Handlers = {h1, h2}
  category <- OneOfEach
  Fates = {"delivered"}
  MaxAttempts = 2
  PauseRateLimit = 3
  PauseAccount = 3
  MaxHandling = 1
  Price = 2
  InitialBalance = 1
  InitialQuota = 1
  Credit = 1
  NoOne = NoOne
  Reports = {"delivered", "read"}
  MaxSends = 1
  MaxRetries = 0
  MaxCredits = 1
  MaxCount = 1
  Others = {}
INVARIANTS LedgerReconciles ChargedOncePerSend QuotaNotOverdrawn BilledIffDebited
SYMMETRY HandlerSymmetry
