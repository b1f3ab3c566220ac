\* Two keys that can be stored, replaced, forgotten, issued and revoked at any
\* moment, and none in the environment: an embedding goes out on a key that was
\* forgotten.
CONSTANTS
  Keys = {k1, k2}
  NoKey = NoKey
  EnvKey = NoKey
  KeyMiss = 2
SPECIFICATION Spec
SYMMETRY KeySymmetry
PROPERTY NobodySpendsAnOldKey
