\* Two keys that can be stored, replaced, forgotten, issued and revoked at any
\* moment, and none in the environment.
CONSTANTS
  Keys = {k1, k2}
  NoKey = NoKey
  EnvKey = NoKey
  KeyMiss = 2
SPECIFICATION FairSpec
INVARIANTS TypeOK AsksSparingly
PROPERTIES ClientSpendsNoOldKey GoodKeyIsFound
