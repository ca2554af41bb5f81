------------------------------ MODULE DialCache ------------------------------
(***************************************************************************)
(* The dial address cache of a bootstrapped DoH upstream.  Its addresses   *)
(* are fake IPs of Mihomo: they are good until Mihomo rebuilds its pool,   *)
(* after which an old one leads to another domain.  get resolves without   *)
(* holding the mutex, so resolutions overlap with each other, with         *)
(* invalidate and with rebuilds of the pool.                               *)
(*                                                                         *)
(* An address is represented by the pool it was allocated from.            *)
(***************************************************************************)
EXTENDS Integers

CONSTANTS
    Exchanges,      \* concurrent exchanges with the upstream
    MaxPool         \* bound on the rebuilds of the fake-IP pool

ASSUME DialCacheAssumption == MaxPool \in Nat

Pools == 0..MaxPool
NoAddress == -1

VARIABLES
    pool,           \* the pool Mihomo uses now (environment)
    addresses,      \* the cached addresses, by pool
    unexpired,      \* time.Now is before expiresAt
    at,             \* where an exchange is
    dialed          \* the addresses an exchange uses

dialVars == <<pool, addresses, unexpired, at, dialed>>

DialTypeOK ==
    /\ pool \in Pools
    /\ addresses \in Pools \cup {NoAddress}
    /\ unexpired \in BOOLEAN
    /\ at \in [Exchanges -> {"idle", "get", "resolve", "store", "connect", "failed"}]
    /\ dialed \in [Exchanges -> Pools \cup {NoAddress}]
    /\ \A e \in Exchanges : at[e] \in {"store", "connect"} => dialed[e] \in Pools

DialInit ==
    /\ pool = 0
    /\ addresses = NoAddress
    /\ unexpired = FALSE
    /\ at = [e \in Exchanges |-> "idle"]
    /\ dialed = [e \in Exchanges |-> NoAddress]
-----------------------------------------------------------------------------
Goto(e, where) == at' = [at EXCEPT ![e] = where]

\* An exchange needs a new connection.
Dial(e) ==
    /\ at[e] = "idle"
    /\ Goto(e, "get")
    /\ UNCHANGED <<pool, addresses, unexpired, dialed>>

\* An exchange over an idle connection fails.
ReuseFails(e) ==
    /\ at[e] = "idle"
    /\ Goto(e, "failed")
    /\ UNCHANGED <<pool, addresses, unexpired, dialed>>

\* get, first critical section.
Usable == addresses # NoAddress /\ unexpired

Hit(e) ==
    /\ at[e] = "get" /\ Usable
    /\ dialed' = [dialed EXCEPT ![e] = addresses]
    /\ Goto(e, "connect")
    /\ UNCHANGED <<pool, addresses, unexpired>>

Miss(e) ==
    /\ at[e] = "get" /\ ~Usable
    /\ Goto(e, "resolve")
    /\ UNCHANGED <<pool, addresses, unexpired, dialed>>

\* resolveDoHAddresses asks Mihomo, which answers from its pool.
Resolve(e) ==
    /\ at[e] = "resolve"
    /\ dialed' = [dialed EXCEPT ![e] = pool]
    /\ Goto(e, "store")
    /\ UNCHANGED <<pool, addresses, unexpired>>

ResolveFails(e) ==
    /\ at[e] = "resolve"
    /\ Goto(e, "failed")
    /\ UNCHANGED <<pool, addresses, unexpired, dialed>>

\* get, second critical section.
Store(e) ==
    /\ at[e] = "store"
    /\ addresses' = dialed[e]
    /\ unexpired' = TRUE
    /\ Goto(e, "connect")
    /\ UNCHANGED <<pool, dialed>>

\* Connection, handshake and exchange: an old address cannot succeed, for
\* the certificate is checked against the name of the provider.
Answer(e) ==
    /\ at[e] = "connect" /\ dialed[e] = pool
    /\ Goto(e, "idle")
    /\ dialed' = [dialed EXCEPT ![e] = NoAddress]
    /\ UNCHANGED <<pool, addresses, unexpired>>

ConnectFails(e) ==
    /\ at[e] = "connect"
    /\ Goto(e, "failed")
    /\ UNCHANGED <<pool, addresses, unexpired, dialed>>

\* Mutant of Invalidate: the addresses stay until their TTL ends.
InvalidateNothing(e) ==
    /\ at[e] = "failed"
    /\ Goto(e, "idle")
    /\ UNCHANGED <<pool, addresses, unexpired, dialed>>

\* invalidate, called by exchange on every failure.
Invalidate(e) ==
    /\ at[e] = "failed"
    /\ addresses' = NoAddress
    /\ unexpired' = FALSE
    /\ dialed' = [dialed EXCEPT ![e] = NoAddress]
    /\ Goto(e, "idle")
    /\ UNCHANGED pool

\* dialAddressTTL passes.
Expire ==
    /\ unexpired
    /\ unexpired' = FALSE
    /\ UNCHANGED <<pool, addresses, at, dialed>>

\* Mihomo rebuilds its pool.
Rebuild ==
    /\ pool < MaxPool
    /\ pool' = pool + 1
    /\ UNCHANGED <<addresses, unexpired, at, dialed>>

DialProceed(e) ==
    \/ Hit(e) \/ Miss(e) \/ Resolve(e) \/ ResolveFails(e) \/ Store(e)
    \/ Answer(e) \/ ConnectFails(e) \/ Invalidate(e)

DialNext ==
    \/ \E e \in Exchanges : Dial(e) \/ ReuseFails(e) \/ DialProceed(e)
    \/ Expire
    \/ Rebuild

DialSpec == DialInit /\ [][DialNext]_dialVars

(***************************************************************************)
(* Goroutines are scheduled and connections are needed again and again.    *)
(* The cache is not helped by the clock: no fairness of Expire.            *)
(***************************************************************************)
DialFairSpec == DialSpec /\ \A e \in Exchanges : WF_dialVars(Dial(e)) /\ WF_dialVars(DialProceed(e))
-----------------------------------------------------------------------------
(***************************************************************************)
(* A cache that points into an old pool does not stay so.  Once Mihomo     *)
(* keeps its pool, whatever can be dialed from the cache is of that pool   *)
(* for good: an exchange that uses an older address fails and invalidates, *)
(* as often as older resolutions are still stored, and without the help of *)
(* the TTL.                                                                *)
(***************************************************************************)
StaleAddressesGo == <>[](Usable => addresses = pool)
=============================================================================
