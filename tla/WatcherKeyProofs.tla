--------------------------- MODULE WatcherKeyProofs ---------------------------
(***************************************************************************)
(* What WatcherKey promises of the client and of the keychain, proved for  *)
(* every set of keys, every KeyMiss, and with or without a key in the      *)
(* environment. GoodKeyIsFound is liveness and stays with TLC.             *)
(***************************************************************************)
EXTENDS WatcherKey, TLAPS

USE DEF Clients, Copy, Unread

-----------------------------------------------------------------------------
(* What asking for the key leaves of the cache and its deadline.             *)
LEMMA KeyAskedTypes ==
  ASSUME TypeOK, KeyAsked
  PROVE  /\ cache' \in Copy
         /\ missLeft' \in 0 .. KeyMiss
         /\ asked' \in [1 .. 3 -> 0 .. KeyMiss]
<1> USE KeyAssumption DEF TypeOK
<1>1. CASE Believed
  BY <1>1 DEF KeyAsked
<1>2. CASE ~Believed
  <2>1. asked' = <<0, asked[1], asked[2]>>
    BY <1>2 DEF KeyAsked
  <2>2. asked[1] \in 0 .. KeyMiss /\ asked[2] \in 0 .. KeyMiss
    OBVIOUS
  <2>3. asked' \in [1 .. 3 -> 0 .. KeyMiss]
    BY <2>1, <2>2
  <2>4. cache' = [key |-> keychain, fresh |-> TRUE]
    BY <1>2 DEF KeyAsked
  <2>5. missLeft' \in {0, KeyMiss}
    BY <1>2 DEF KeyAsked
  <2> QED BY <2>3, <2>4, <2>5
<1> QED BY <1>1, <1>2

LEMMA ResolvedIsAKey ==
  ASSUME TypeOK PROVE resolve_api_key \in Keys \cup {NoKey}
BY KeyAssumption DEF TypeOK, resolve_api_key, key_from_keychain

LEMMA RebuiltTypes ==
  ASSUME TypeOK, NEW c \in Clients
  PROVE  Rebuilt(c) \in Copy
<1>1. built[c] \in Copy
  BY DEF TypeOK
<1> QED BY <1>1, ResolvedIsAKey, KeyAssumption DEF Rebuilt

LEMMA KeyChangedTypes ==
  ASSUME TypeOK, _key_changed
  PROVE  cache' \in Copy /\ built' \in [Clients -> Copy]
<1>1. ASSUME NEW c \in Clients PROVE Stale(built[c]) \in Copy
  BY DEF Stale, TypeOK
<1> QED BY <1>1 DEF _key_changed

LEMMA LongAgoType == LongAgo \in [1 .. 3 -> 0 .. KeyMiss]
BY KeyAssumption DEF LongAgo

(* Every variable stays in its type (the whole module).                      *)
THEOREM TypesHold == Spec => []TypeOK
<1>1. Init => TypeOK
  BY LongAgoType, KeyAssumption DEF Init, TypeOK
<1>2. TypeOK /\ [Next]_vars => TypeOK'
  <2> SUFFICES ASSUME TypeOK, [Next]_vars PROVE TypeOK'
    OBVIOUS
  <2> USE KeyAssumption DEF TypeOK
  <2>1. CASE ping
    BY <2>1, KeyAskedTypes DEF ping, world
  <2>2. ASSUME NEW c \in Clients, Call(c) PROVE TypeOK'
    <3>1. built[c].key \in Keys
      BY <2>2 DEF Call, Built
    <3> QED BY <2>2, <3>1 DEF Call, Send, world
  <2>3. ASSUME NEW c \in Clients, Resolve(c) PROVE TypeOK'
    <3>1. resolve_api_key \in Keys
      BY <2>3, ResolvedIsAKey DEF Resolve
    <3>2. sent' \in [Clients -> SUBSET Keys]
      BY <2>3, <3>1 DEF Resolve, Send
    <3>3. built' \in [Clients -> Copy]
      BY <2>3, RebuiltTypes DEF Resolve
    <3> QED BY <2>3, <3>2, <3>3, KeyAskedTypes DEF Resolve, world
  <2>4. ASSUME NEW c \in Clients, Keyless(c) PROVE TypeOK'
    <3>1. built' \in [Clients -> Copy]
      BY <2>4, RebuiltTypes DEF Keyless
    <3> QED BY <2>4, <3>1, KeyAskedTypes DEF Keyless, world
  <2>5. ASSUME NEW c \in Clients, NEW k \in Keys, Answered(c, k) PROVE TypeOK'
    BY <2>5 DEF Answered, world
  <2>6. ASSUME NEW c \in Clients, NEW k \in Keys, Refused(c, k) PROVE TypeOK'
    <3>1. cache' \in Copy /\ built' \in [Clients -> Copy] /\ rereadLeft' \in 0 .. KeyMiss
      BY <2>6, KeyChangedTypes DEF Refused, forget_cached_key
    <3> QED BY <2>6, <3>1 DEF Refused, world
  <2>7. ASSUME NEW k \in Keys, login(k) PROVE TypeOK'
    BY <2>7, KeyChangedTypes, LongAgoType DEF login
  <2>8. CASE logout
    BY <2>8, KeyChangedTypes, LongAgoType DEF logout
  <2>9. CASE StoredElsewhere
    BY <2>9 DEF StoredElsewhere
  <2>10. CASE Issue
    BY <2>10 DEF Issue
  <2>11. CASE Tick
    BY <2>11 DEF Tick, Less, Older, world
  <2>12. CASE UNCHANGED vars
    BY <2>12 DEF vars
  <2> QED BY <2>1, <2>2, <2>3, <2>4, <2>5, <2>6, <2>7, <2>8, <2>9, <2>10, <2>11,
             <2>12 DEF Next
<1> QED BY <1>1, <1>2, PTL DEF Spec

-----------------------------------------------------------------------------
(* What is cached or in the client's hands is standing: it was in the        *)
(* keychain since the last login or logout, or is the environment's. Both    *)
(* clear the cache and turn the client stale, so that nothing fresh is older.*)
Standing ==
  /\ keychain # NoKey => keychain \in standing
  /\ cache.fresh /\ cache.key # NoKey => cache.key \in standing
  /\ Built("client") => built["client"].key \in standing \cup {EnvKey}

LEMMA ResolvedStands ==
  ASSUME Standing, resolve_api_key # NoKey
  PROVE  resolve_api_key \in standing \cup {EnvKey}
BY DEF Standing, resolve_api_key, key_from_keychain, Believed

LEMMA AskedStands ==
  ASSUME Standing, KeyAsked
  PROVE  cache'.fresh /\ cache'.key # NoKey => cache'.key \in standing
<1>1. CASE Believed
  BY <1>1 DEF KeyAsked, Standing
<1>2. CASE ~Believed
  <2>1. cache' = [key |-> keychain, fresh |-> TRUE]
    BY <1>2 DEF KeyAsked
  <2> QED BY <2>1 DEF Standing
<1> QED BY <1>1, <1>2

LEMMA ChangedStands ==
  ASSUME TypeOK, _key_changed
  PROVE  ~cache'.fresh /\ ~built'["client"].fresh
BY DEF TypeOK, _key_changed, Stale

(* Standing is kept by every step.                                           *)
LEMMA StandingIsInductive ==
  /\ Init => Standing
  /\ TypeOK /\ Standing /\ [Next]_vars => Standing'
<1>1. Init => Standing
  BY DEF Init, Standing, Built
<1>2. ASSUME TypeOK, Standing, [Next]_vars PROVE Standing'
  <2> USE <1>2
  <2>1. CASE ping
    <3>1. cache'.fresh /\ cache'.key # NoKey => cache'.key \in standing
      BY <2>1, AskedStands DEF ping
    <3> QED BY <2>1, <3>1 DEF ping, world, Standing, Built
  <2>2. ASSUME NEW c \in Clients, Call(c) PROVE Standing'
    BY <2>2 DEF Call, world, Standing, Built
  <2>3. ASSUME NEW c \in Clients, Resolve(c) PROVE Standing'
    <3>1. cache'.fresh /\ cache'.key # NoKey => cache'.key \in standing
      BY <2>3, AskedStands DEF Resolve
    <3>2. built'["client"] \in {built["client"], [key |-> resolve_api_key, fresh |-> TRUE]}
      <4>1. Rebuilt(c) = [key |-> resolve_api_key, fresh |-> TRUE]
        BY <2>3 DEF Resolve, Rebuilt
      <4> QED BY <2>3, <4>1 DEF Resolve, TypeOK
    <3>3. resolve_api_key \in standing \cup {EnvKey}
      BY <2>3, ResolvedStands DEF Resolve
    <3> QED BY <2>3, <3>1, <3>2, <3>3 DEF Resolve, world, Standing, Built
  <2>4. ASSUME NEW c \in Clients, Keyless(c) PROVE Standing'
    <3>1. cache'.fresh /\ cache'.key # NoKey => cache'.key \in standing
      BY <2>4, AskedStands DEF Keyless
    <3>2. built'["client"] \in {built["client"], Unread}
      BY <2>4 DEF Keyless, Rebuilt, TypeOK
    <3> QED BY <2>4, <3>1, <3>2 DEF Keyless, world, Standing, Built
  <2>5. ASSUME NEW c \in Clients, NEW k \in Keys, Answered(c, k) PROVE Standing'
    BY <2>5 DEF Answered, world, Standing, Built
  <2>6. ASSUME NEW c \in Clients, NEW k \in Keys, Refused(c, k) PROVE Standing'
    <3>1. UNCHANGED <<cache, built>> \/ (~cache'.fresh /\ ~built'["client"].fresh)
      BY <2>6, ChangedStands DEF Refused, forget_cached_key
    <3> QED BY <2>6, <3>1 DEF Refused, world, Standing, Built
  <2>7. ASSUME NEW k \in Keys, login(k) PROVE Standing'
    BY <2>7, ChangedStands DEF login, Standing, Built
  <2>8. CASE logout
    BY <2>8, ChangedStands DEF logout, Standing, Built
  <2>9. CASE StoredElsewhere
    BY <2>9 DEF StoredElsewhere, Standing, Built
  <2>10. CASE Issue
    BY <2>10 DEF Issue, Standing, Built
  <2>11. CASE Tick
    BY <2>11 DEF Tick, world, Standing, Built
  <2>12. CASE UNCHANGED vars
    BY <2>12 DEF vars, Standing, Built
  <2> QED BY <2>1, <2>2, <2>3, <2>4, <2>5, <2>6, <2>7, <2>8, <2>9, <2>10, <2>11,
             <2>12 DEF Next
<1> QED BY <1>1, <1>2

(* The model client never sends a key that a login replaced or a logout      *)
(* forgot (llm.py:601-630 with config.py:186-210).                           *)
THEOREM OldKeysAreNotSpent == Spec => ClientSpendsNoOldKey
<1>1. TypeOK /\ Standing /\ [Next]_vars => [SendsOnly("client")]_vars
  <2> SUFFICES ASSUME TypeOK, Standing, Next PROVE SendsOnly("client")
    BY DEF SendsOnly
  <2>1. ASSUME NEW c \in Clients, Call(c) PROVE SendsOnly("client")
    BY <2>1 DEF Call, Send, SendsOnly, Standing, TypeOK
  <2>2. ASSUME NEW c \in Clients, Resolve(c) PROVE SendsOnly("client")
    <3>1. resolve_api_key \in standing \cup {EnvKey}
      BY <2>2, ResolvedStands DEF Resolve
    <3> QED BY <2>2, <3>1 DEF Resolve, Send, SendsOnly, TypeOK
  <2>3. ASSUME NEW c \in Clients, NEW k \in Keys, Answered(c, k) \/ Refused(c, k)
        PROVE  SendsOnly("client")
    BY <2>3 DEF Answered, Refused, SendsOnly, TypeOK
  <2>4. CASE UNCHANGED sent
    BY <2>4 DEF SendsOnly
  <2> QED BY <2>1, <2>2, <2>3, <2>4
          DEF Next, ping, Keyless, login, logout, StoredElsewhere, Issue, Tick
<1> QED BY <1>1, TypesHold, StandingIsInductive, PTL DEF Spec, ClientSpendsNoOldKey

-----------------------------------------------------------------------------
(* Why the keychain is read no third time within a KeyMiss. A first reading  *)
(* is followed by a second only if it found no key and KeyMiss passed, or if *)
(* a refusal dropped what it found; and then no refusal drops anything until *)
(* the first is KeyMiss ago.                                                 *)
Sparing ==
  /\ asked[1] <= asked[2] /\ asked[3] = KeyMiss
  /\ cache.fresh /\ cache.key = NoKey => missLeft >= KeyMiss - asked[1]
  /\ ~cache.fresh /\ asked[1] < KeyMiss => rereadLeft >= KeyMiss - asked[1]
  /\ asked[2] < KeyMiss => cache.fresh /\ rereadLeft >= KeyMiss - asked[2]

LEMMA AskedTypes ==
  ASSUME TypeOK
  PROVE  /\ asked[1] \in 0 .. KeyMiss /\ asked[2] \in 0 .. KeyMiss
         /\ asked[3] \in 0 .. KeyMiss
         /\ missLeft \in 0 .. KeyMiss /\ rereadLeft \in 0 .. KeyMiss
         /\ cache \in Copy
BY DEF TypeOK

LEMMA AskedSparingly ==
  ASSUME TypeOK, Sparing, KeyAsked, rereadLeft' = rereadLeft
  PROVE  Sparing'
<1> USE KeyAssumption, AskedTypes
<1>1. CASE Believed
  BY <1>1 DEF KeyAsked, Sparing
<1>2. CASE ~Believed
  <2>1. /\ asked'[1] = 0 /\ asked'[2] = asked[1] /\ asked'[3] = asked[2]
        /\ cache'.fresh /\ cache'.key = keychain
        /\ keychain = NoKey => missLeft' = KeyMiss
    BY <1>2 DEF KeyAsked
  <2>2. CASE cache.fresh
    <3>1. asked[1] = KeyMiss
      BY <1>2, <2>2 DEF Believed, Sparing
    <3> QED BY <2>1, <3>1 DEF Sparing
  <2>3. CASE ~cache.fresh
    <3>1. asked[2] = KeyMiss
      BY <2>3 DEF Sparing
    <3> QED BY <2>1, <2>3, <3>1 DEF Sparing
  <2> QED BY <2>2, <2>3
<1> QED BY <1>1, <1>2

LEMMA SparingWhenLongAgo ==
  ASSUME KeyAssumption, NEW a, a = LongAgo
  PROVE  a[1] = KeyMiss /\ a[2] = KeyMiss /\ a[3] = KeyMiss
BY DEF LongAgo

(* The person is not asked for the keychain more than twice a KeyMiss        *)
(* (config.py:186-232).                                                      *)
THEOREM TheKeychainIsSpared == Spec => []AsksSparingly
<1>1. Init => Sparing
  BY SparingWhenLongAgo, KeyAssumption DEF Init, Sparing
<1>2. ASSUME TypeOK, Sparing, [Next]_vars PROVE Sparing'
  <2> USE <1>2, KeyAssumption, AskedTypes
  <2>1. CASE ping
    BY <2>1, AskedSparingly DEF ping
  <2>2. ASSUME NEW c \in Clients, Call(c) PROVE Sparing'
    BY <2>2 DEF Call, Sparing
  <2>3. ASSUME NEW c \in Clients, Resolve(c) PROVE Sparing'
    BY <2>3, AskedSparingly DEF Resolve
  <2>4. ASSUME NEW c \in Clients, Keyless(c) PROVE Sparing'
    BY <2>4, AskedSparingly DEF Keyless
  <2>5. ASSUME NEW c \in Clients, NEW k \in Keys, Answered(c, k) PROVE Sparing'
    BY <2>5 DEF Answered, Sparing
  <2>6. ASSUME NEW c \in Clients, NEW k \in Keys, Refused(c, k) PROVE Sparing'
    <3>1. CASE rereadLeft > 0
      BY <2>6, <3>1 DEF Refused, forget_cached_key, Sparing
    <3>2. CASE ~(rereadLeft > 0)
      <4>1. asked[2] = KeyMiss
        BY <3>2 DEF Sparing
      <4> QED BY <2>6, <3>2, <4>1 DEF Refused, forget_cached_key, _key_changed, Sparing
    <3> QED BY <3>1, <3>2
  <2>7. ASSUME NEW k \in Keys, login(k) PROVE Sparing'
    BY <2>7, SparingWhenLongAgo DEF login, _key_changed, Sparing
  <2>8. CASE logout
    BY <2>8, SparingWhenLongAgo DEF logout, _key_changed, Sparing
  <2>9. CASE StoredElsewhere
    BY <2>9 DEF StoredElsewhere, Sparing
  <2>10. CASE Issue
    BY <2>10 DEF Issue, Sparing
  <2>11. CASE Tick
    <3>1. /\ asked'[1] = Older(asked[1]) /\ asked'[2] = Older(asked[2])
          /\ asked'[3] = Older(asked[3]) /\ cache' = cache
          /\ missLeft' = Less(missLeft) /\ rereadLeft' = Less(rereadLeft)
      BY <2>11 DEF Tick
    <3> QED BY <3>1 DEF Less, Older, Sparing
  <2>12. CASE UNCHANGED vars
    BY <2>12 DEF vars, Sparing
  <2> QED BY <2>1, <2>2, <2>3, <2>4, <2>5, <2>6, <2>7, <2>8, <2>9, <2>10, <2>11,
             <2>12 DEF Next
<1>3. Sparing => AsksSparingly
  BY DEF Sparing, AsksSparingly
<1> QED BY <1>1, <1>2, <1>3, TypesHold, PTL DEF Spec
=============================================================================
