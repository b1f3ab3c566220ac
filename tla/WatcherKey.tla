----------------------------- MODULE WatcherKey -----------------------------
(***************************************************************************)
(* The API key as the watcher knows it: config.py's cache of what the      *)
(* keychain last said, the two clients the watch loop keeps for its life   *)
(* (llm.LazyOpenAiClient and semantic.LazyOpenAiEmbedder), and the socket  *)
(* ops that store, forget and ask for the key.                             *)
(*                                                                         *)
(* Everything here runs on the watcher's one event loop and awaits only    *)
(* the API, so a call is two steps, sent and answered, and all else is     *)
(* one. The person stores and removes keys behind the watcher's back, the  *)
(* keychain comes and goes, and the API may take another key at any time.  *)
(*                                                                         *)
(* The code tells a stale copy by comparing generation numbers; a copy     *)
(* here says itself whether it is of the current generation (`fresh`).     *)
(* Monotonic deadlines are the time left to them.                          *)
(***************************************************************************)
EXTENDS Integers, FiniteSets

CONSTANTS Keys,         \* the keys there are
          NoKey,        \* not a key
          EnvKey,       \* what the environment or the env file has, or NoKey
          KeyMiss       \* KEY_MISS_SECONDS, in ticks

ASSUME KeyAssumption == /\ NoKey \notin Keys
                        /\ EnvKey \in Keys \cup {NoKey}
                        /\ KeyMiss \in Nat \ {0}

Clients == {"client", "embedder"}

VARIABLES keychain,     \* the key that can be read from it, or NoKey
          accepted,     \* the key the API takes, or NoKey
          cache,        \* _CACHED_KEY
          missLeft,     \* how long a miss is believed yet (_MISS_UNTIL)
          rereadLeft,   \* how long a refusal is ignored yet (_REREAD_AFTER)
          built,        \* the key each client was built on, and when
          sent,         \* the keys of each client's requests in flight
          served,       \* ghost: whether each client's last call was answered
          standing,     \* ghost: what was put in the keychain since the last
                        \*   login or logout the watcher served, that included
          asked         \* ghost: how long ago the keychain was read the last
                        \*   three times since then

vars == <<keychain, accepted, cache, missLeft, rereadLeft, built, sent,
          served, standing, asked>>

world == <<keychain, accepted>>

Copy == [key : Keys \cup {NoKey}, fresh : BOOLEAN]

Unread == [key |-> NoKey, fresh |-> FALSE]

LongAgo == [i \in 1 .. 3 |-> KeyMiss]

TypeOK == /\ keychain \in Keys \cup {NoKey}
          /\ accepted \in Keys \cup {NoKey}
          /\ cache \in Copy
          /\ missLeft \in 0 .. KeyMiss /\ rereadLeft \in 0 .. KeyMiss
          /\ built \in [Clients -> Copy]
          /\ sent \in [Clients -> SUBSET Keys]
          /\ served \in [Clients -> BOOLEAN]
          /\ standing \subseteq Keys
          /\ asked \in [1 .. 3 -> 0 .. KeyMiss]

Init == /\ keychain \in Keys \cup {NoKey}
        /\ accepted \in Keys \cup {NoKey}
        /\ cache = Unread
        /\ missLeft = 0 /\ rereadLeft = 0
        /\ built = [c \in Clients |-> Unread]
        /\ sent = [c \in Clients |-> {}]
        /\ served = [c \in Clients |-> FALSE]
        /\ standing = {keychain} \ {NoKey}
        /\ asked = LongAgo

-----------------------------------------------------------------------------
(* Reading the key.                                                          *)
Stale(copy) == [copy EXCEPT !.fresh = FALSE]

_key_changed == /\ cache' = Unread
                /\ built' = [c \in Clients |-> Stale(built[c])]

(* Mutant: a miss is believed until the key changes.                         *)
BelievesMisses == cache.fresh

(* Mutant: a miss is not believed at all.                                    *)
DoubtsMisses == cache.fresh /\ cache.key # NoKey

(* A key found is believed while fresh, a miss for KeyMiss.                  *)
Believed == cache.fresh /\ (cache.key # NoKey \/ missLeft > 0)

key_from_keychain == IF Believed THEN cache.key ELSE keychain

resolve_api_key == IF key_from_keychain # NoKey THEN key_from_keychain ELSE EnvKey

(* What asking for the key leaves behind.                                    *)
KeyAsked ==
  IF Believed
    THEN UNCHANGED <<cache, missLeft, asked>>
    ELSE /\ cache' = [key |-> keychain, fresh |-> TRUE]
         /\ missLeft' = IF keychain = NoKey THEN KeyMiss ELSE 0
         /\ asked' = <<0, asked[1], asked[2]>>

(* ping, probe, and the ops that resolve the key before they begin.          *)
ping == /\ KeyAsked
        /\ UNCHANGED <<world, rereadLeft, built, sent, served, standing>>

-----------------------------------------------------------------------------
(* Mutant: the old client is kept when there is no key to build a new one.   *)
KeepsOldClient(c) ==
  IF resolve_api_key # NoKey THEN [key |-> resolve_api_key, fresh |-> TRUE]
                             ELSE [built[c] EXCEPT !.fresh = TRUE]

(* The clients. A client of another generation is dropped before the key is  *)
(* asked for, so none is left when there is no key; an embedder is not       *)
(* dropped, and its generation is the current one before the key is asked.   *)
Rebuilt(c) ==
  IF resolve_api_key # NoKey THEN [key |-> resolve_api_key, fresh |-> TRUE]
  ELSE IF c = "client"       THEN Unread
                             ELSE [built[c] EXCEPT !.fresh = TRUE]

Built(c) == built[c].key # NoKey /\ built[c].fresh

Send(c, k) == /\ k \notin sent[c]
              /\ sent' = [sent EXCEPT ![c] = @ \cup {k}]

(* A call of a client that is there.                                         *)
Call(c) == /\ Built(c)
           /\ Send(c, built[c].key)
           /\ UNCHANGED <<world, cache, missLeft, rereadLeft, built, served,
                          standing, asked>>

(* A call that builds it first.                                              *)
Resolve(c) == /\ ~Built(c) /\ resolve_api_key # NoKey
              /\ KeyAsked
              /\ built' = [built EXCEPT ![c] = Rebuilt(c)]
              /\ Send(c, resolve_api_key)
              /\ UNCHANGED <<world, rereadLeft, served, standing>>

(* A call that cannot: ConfigError, and nothing is sent.                     *)
Keyless(c) == /\ ~Built(c) /\ resolve_api_key = NoKey
              /\ KeyAsked
              /\ built' = [built EXCEPT ![c] = Rebuilt(c)]
              /\ served' = [served EXCEPT ![c] = FALSE]
              /\ UNCHANGED <<world, rereadLeft, sent, standing>>

Answered(c, k) == /\ k \in sent[c] /\ k = accepted
                  /\ sent' = [sent EXCEPT ![c] = @ \ {k}]
                  /\ served' = [served EXCEPT ![c] = TRUE]
                  /\ UNCHANGED <<world, cache, missLeft, rereadLeft, built,
                                 standing, asked>>

(* After a refusal the key is read afresh, once a KeyMiss.                   *)
forget_cached_key ==
  IF rereadLeft > 0
    THEN UNCHANGED <<rereadLeft, cache, built>>
    ELSE rereadLeft' = KeyMiss /\ _key_changed

Refused(c, k) == /\ k \in sent[c] /\ k # accepted
                 /\ sent' = [sent EXCEPT ![c] = @ \ {k}]
                 /\ served' = [served EXCEPT ![c] = FALSE]
                 /\ forget_cached_key
                 /\ UNCHANGED <<world, missLeft, standing, asked>>

-----------------------------------------------------------------------------
(* The key changes. A login or a logout the keychain refuses changes nothing *)
(* and is an error; a logout that finds nothing stored changes nothing.      *)
login(k) == /\ keychain' = k
            /\ _key_changed
            /\ standing' = {k}
            /\ asked' = LongAgo
            /\ UNCHANGED <<accepted, missLeft, rereadLeft, sent, served>>

logout == /\ keychain # NoKey
          /\ keychain' = NoKey
          /\ _key_changed
          /\ standing' = {}
          /\ asked' = LongAgo
          /\ UNCHANGED <<accepted, missLeft, rereadLeft, sent, served>>

(* In the keyring itself, by a login that never reached the watcher, or by   *)
(* the keyring coming up, being unlocked or being locked: one that cannot be *)
(* read is one without a key (config.py:380-407).                            *)
StoredElsewhere == \E k \in (Keys \cup {NoKey}) \ {keychain} :
  /\ keychain' = k
  /\ standing' = standing \cup ({k} \ {NoKey})
  /\ UNCHANGED <<accepted, cache, missLeft, rereadLeft, built, sent,
                 served, asked>>

(* The key is revoked, and another may take its place.                       *)
Issue == \E k \in (Keys \cup {NoKey}) \ {accepted} :
  /\ accepted' = k
  /\ UNCHANGED <<keychain, cache, missLeft, rereadLeft, built, sent,
                 served, standing, asked>>


(* Mutant: the time left to a deadline runs past it.                         *)
RunsOn(left) == left - 1

Less(left) == IF left > 0 THEN left - 1 ELSE 0

Older(age) == IF age < KeyMiss THEN age + 1 ELSE KeyMiss

Tick == /\ missLeft' = Less(missLeft)
        /\ rereadLeft' = Less(rereadLeft)
        /\ asked' = [i \in 1 .. 3 |-> Older(asked[i])]
        /\ UNCHANGED <<world, cache, built, sent, served, standing>>

Next == \/ ping
        \/ \E c \in Clients :
             \/ Call(c) \/ Resolve(c) \/ Keyless(c)
             \/ \E k \in Keys : Answered(c, k) \/ Refused(c, k)
        \/ \E k \in Keys : login(k)
        \/ logout
        \/ StoredElsewhere \/ Issue
        \/ Tick

(* Time passes, the API answers, and a watcher with work to do asks again.   *)
Fairness == /\ WF_vars(Tick)
            /\ \A c \in Clients :
                 /\ WF_vars(Call(c) \/ Resolve(c) \/ Keyless(c))
                 /\ \A k \in Keys : WF_vars(Answered(c, k) \/ Refused(c, k))

Spec == Init /\ [][Next]_vars

FairSpec == Spec /\ Fairness

-----------------------------------------------------------------------------
(* Whatever is sent goes out on a key that was in the keychain at some time  *)
(* since the last login or logout, or the environment's.                     *)
SendsOnly(c) == sent'[c] \ sent[c] \subseteq standing \cup {EnvKey}

(* The model client spends no key a login replaced or a logout forgot,       *)
(* whatever was cached, in flight or refused in between (llm.py:609-612).    *)
ClientSpendsNoOldKey == [][SendsOnly("client")]_vars

(* What llm.py:610-611 says of both clients, "Rebuild rather than keep       *)
(* spending the key it replaced" (semantic.py:286 gives the same reason).    *)
NobodySpendsAnOldKey == [][\A c \in Clients : SendsOnly(c)]_vars

(* Between logins and logouts the keychain, which may put a dialog before    *)
(* the person, is read at most twice a KeyMiss, however many pings, misses   *)
(* and refusals there are (config.py:188-208, 216-227).                      *)
AsksSparingly == asked[3] = KeyMiss

(* The keychain can be read and holds the key the API takes.                 *)
Healthy(k) == keychain = k /\ accepted = k

(* However stale the cache, the clients and the requests in flight, both     *)
(* clients come to have every call answered, without a restart               *)
(* (config.py:203-208, 216-227).                                             *)
GoodKeyIsFound ==
  \A k \in Keys : <>[]Healthy(k) =>
    \A c \in Clients : <>[]served[c]
=============================================================================
