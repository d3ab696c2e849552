SPECIFICATION Spec
CONSTANTS
  t1 = t1  t2 = t2  s = s  i1 = i1  i2 = i2  host = host  v = v  line = line  k1 = k1  k2 = k2
  NoServer = NoServer  NoEntry = NoEntry  NoPair = NoPair  NoCommand = NoCommand
  TornKey = TornKey
  Runs = {t1, t2}
  Commands <- TwoTerminals
  Aliases = {s}
  Instances = {i1, i2}
  Names = {host}
  Values = {v}
  Lines = {line}
  MaxHooks = 1
  MaxCommands = 6
  KeyPairs = {k1, k2}
SYMMETRY Alike
INVARIANTS CredentialsInStep TrustKept TokensListed
PROPERTY HooksKept
CHECK_DEADLOCK FALSE
