------------------------------ MODULE Service ------------------------------
(***************************************************************************)
(* One instance of the service around the quote endpoint: the start-up of  *)
(* cmd/aggregator/main.go, the store with its encoding of pools            *)
(* (internal/cache/store.go), snapshots that are replaced while requests   *)
(* are being answered, and handleQuote (internal/api/quote.go).            *)
(*                                                                         *)
(* An instance is live or simulated, but instances of both kinds may share *)
(* a store, which has one key.  Time, ages and failing sources are the     *)
(* business of Indexer; here it matters which pools a snapshot holds.      *)
(***************************************************************************)
EXTENDS Integers, Sequences, FiniteSets, TLC

CONSTANTS Sourced,         \* the pools of the sources of each mode
          Route(_, _, _),  \* FindBestRoute: the addresses of the best route over some
                           \* pools for a pair and a hop limit; {}: there is none
          Decimals,        \* of the token sold
          Amounts,         \* bound: numbers that appear in pools
          MaxGen,          \* bound: snapshots published
          MaxCrashes       \* bound: deaths of the instance

ASSUME ServiceAssumption ==
  /\ DOMAIN Sourced = {"live", "simulated"}
  /\ \A m \in DOMAIN Sourced : \A p \in Sourced[m] : p.simulated = (m = "simulated")
  /\ Decimals \in Nat /\ MaxGen \in Nat /\ MaxCrashes \in Nat

\* Addresses of the simulator begin with 0xsim (sim/source.go:181); no chain has them.
ASSUME AddressAssumption ==
  \A p \in Sourced["live"] : \A q \in Sourced["simulated"] : p.address # q.address

VARIABLES mode,     \* whether ETH_RPC_URL is set
          server,   \* "down", "warm", "refresh" or "up"
          redis,    \* the store is Redis; otherwise it keeps nothing
          store,    \* the value of the key, <<>> if there is none
          snap,     \* the published snapshot
          gen,      \* snapshots published so far
          crashes

service == <<mode, server, redis, store, snap, gen, crashes>>

NoSnapshot == [gen |-> 0, pools |-> {}]

ServiceInit == /\ mode \in DOMAIN Sourced
               /\ server = "down"
               /\ redis = FALSE
               /\ store = <<>>
               /\ snap = NoSnapshot
               /\ gen = 0 /\ crashes = 0

----------------------------------------------------------------------------
(* The encoding of pools.  A big integer that is not there is <<>>, and    *)
(* the empty string on the wire.                                           *)

BigToString(n) == IF n = <<>> THEN "" ELSE ToString(n[1])

StringToBig(s) == IF s = "" THEN <<>> ELSE <<CHOOSE n \in Amounts : ToString(n) = s>>

EncodePool(p) ==
  [address |-> p.address, protocol |-> p.protocol, simulated |-> p.simulated,
   reserves |-> [i \in 1..2 |-> BigToString(p.reserves[i])],
   liquidity |-> BigToString(p.liquidity),
   ticks |-> [i \in DOMAIN p.ticks |-> [index |-> p.ticks[i].index,
                                        net |-> BigToString(p.ticks[i].net)]]]

DecodePool(d) ==
  [address |-> d.address, protocol |-> d.protocol, simulated |-> d.simulated,
   reserves |-> [i \in 1..2 |-> StringToBig(d.reserves[i])],
   liquidity |-> StringToBig(d.liquidity),
   ticks |-> [i \in DOMAIN d.ticks |-> [index |-> d.ticks[i].index,
                                        net |-> StringToBig(d.ticks[i].net)]]]

\* What a snapshot may hold: pools as they were read, or as they come back from the store.
KnownPools ==
  LET P == Sourced["live"] \cup Sourced["simulated"]
  IN  P \cup {DecodePool(EncodePool(p)) : p \in P}

----------------------------------------------------------------------------
(* Start-up and refreshes.                                                 *)

Positive(n) == n # <<>> /\ n[1] > 0

Usable(p) == CASE p.protocol = "v2" -> Positive(p.reserves[1]) /\ Positive(p.reserves[2])
               [] p.protocol = "v3" -> Positive(p.liquidity)

\* BuildSnapshot and holder.Set.
PublishPools(P) == /\ gen < MaxGen
                   /\ gen' = gen + 1
                   /\ snap' = [gen |-> gen + 1, pools |-> {p \in P : Usable(p)}]

\* openStore: without a URL, or when the server does not answer, nothing is kept.
Boot == /\ server = "down"
        /\ server' = "warm"
        /\ redis' \in BOOLEAN
        /\ UNCHANGED <<mode, store, snap, gen, crashes>>

\* WarmStart, from the store, unless the key is missing, has expired, or cannot be read.
WarmStart == /\ server = "warm"
             /\ server' = "refresh"
             /\ \/ /\ redis /\ store # <<>> /\ store[1] # {}
                   /\ PublishPools({DecodePool(d) : d \in store[1]})
                \/ UNCHANGED <<snap, gen>>
             /\ UNCHANGED <<mode, redis, store, crashes>>

\* A refresh publishes what the sources of the mode return, and saves it if it can; the
\* first one is over before the instance listens.
Refresh == /\ server \in {"refresh", "up"}
           /\ server' = "up"
           /\ PublishPools(Sourced[mode])
           /\ \/ redis /\ store' = <<{EncodePool(p) : p \in Sourced[mode]}>>
              \/ store' = store
           /\ UNCHANGED <<mode, redis, crashes>>

\* Every source fails.
RefreshFails == /\ server \in {"refresh", "up"}
                /\ server' = "up"
                /\ UNCHANGED <<mode, redis, store, snap, gen, crashes>>

\* An instance of either mode writes the key.
SiblingSaves == /\ \E m \in DOMAIN Sourced : store' = <<{EncodePool(p) : p \in Sourced[m]}>>
                /\ UNCHANGED <<mode, server, redis, snap, gen, crashes>>

Crash == /\ server # "down" /\ crashes < MaxCrashes
         /\ crashes' = crashes + 1
         /\ server' = "down"
         /\ snap' = NoSnapshot
         /\ UNCHANGED <<mode, redis, store, gen>>

ServiceNext == Boot \/ WarmStart \/ Refresh \/ RefreshFails \/ SiblingSaves

----------------------------------------------------------------------------
(* handleQuote.  A request names a pair and an amount, as typed: a number  *)
(* of units with some decimal places.                                      *)

\* An answer with an error status, 0 when there is no answer at all.
Error(status) == [status |-> status, request |-> <<>>, hops |-> 0,
                  route |-> {}, simulated |-> FALSE]

\* parseAmount: whole units to base units, cut off.
ParseAmount(a) == (a.num * 10^Decimals) \div 10^a.places

\* What the checks before the search find wrong, <<>> if nothing.
Refusal(s, request) ==
  CASE s = NoSnapshot -> <<503>>
    [] s # NoSnapshot /\ ParseAmount(request.amount) <= 0 -> <<400>>
    [] OTHER -> <<>>

SimulatedIn(s) == {p.address : p \in {q \in s.pools : q.simulated}}

\* Mutant: the flags are looked up in the snapshot that is current by now.
BuildFromCurrent(s, route, request, hops) ==
  [status |-> 200, request |-> request, hops |-> hops, route |-> route,
   simulated |-> route \cap SimulatedIn(snap) # {}]

\* A quote is labelled by the pools of its route in the snapshot it was found in.
BuildQuoteResponse(s, route, request, hops) ==
  [status |-> 200, request |-> request, hops |-> hops, route |-> route,
   simulated |-> route \cap SimulatedIn(s) # {}]

\* The search over snapshot s is done.
HandleQuote(s, request, hops) ==
  LET route == Route(s.pools, request.pair, hops)
  IN  IF route = {} THEN Error(404) ELSE BuildQuoteResponse(s, route, request, hops)
=============================================================================
