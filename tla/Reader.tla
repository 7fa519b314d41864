------------------------------- MODULE Reader -------------------------------
(***************************************************************************)
(* Reading pools from a chain: Pools of the two sources (internal/dex/     *)
(* onchain/uniswapv3.go and sushiswap.go) over Aggregate (internal/rpc/    *)
(* multicall.go).  The reads of a source go out in batches; each is one    *)
(* request, answered at the block that is the latest by then, and the      *)
(* chain moves on in between.  The Uniswap source makes two passes: which  *)
(* ticks it asks for depends on the prices of the first.                   *)
(*                                                                         *)
(* The two sources share nothing, so one read at a time is enough.  The    *)
(* derivation of addresses (addresses.go, CREATE2) is the tuple of what    *)
(* goes into it.  The widths of words and of signed types are parameters.  *)
(***************************************************************************)
EXTENDS Multicall, FiniteSets

CONSTANTS Tokens,      \* their addresses, as numbers
          FeeTiers,    \* fee tiers, in the order they are probed
          BatchSize,   \* calls in one request
          TickWindow, TickStride, DefaultSpacing, MinTick, MaxTick,
          WordMod,     \* 2^256: the values of a word
          TickMod,     \* 2^24: int24
          NetMod,      \* 2^128: int128
          Chains,      \* bound: histories, lists of blocks; a block has the state
                       \* of every contract that is deployed, by address
          MaxFailed    \* bound: contracts with failed calls, and calls that fail in a batch

\* The values of a signed type.
Width(mod) == -(mod \div 2)..(mod \div 2 - 1)

ASSUME ReaderAssumption ==
  /\ IsFiniteSet(Tokens) /\ Tokens \subseteq Nat /\ FeeTiers \in Seq(Range(FeeTiers))
  /\ BatchSize \in Nat \ {0} /\ MaxFailed \in Nat

\* No fee tier is listed twice (addresses.go:40).
ASSUME FeeAssumption == \A i, j \in DOMAIN FeeTiers : FeeTiers[i] = FeeTiers[j] => i = j

\* Every int24 fits a word as a multiple of its own width, every int128 fits a word, and
\* every tick an int24.
ASSUME WordAssumption ==
  /\ TickMod \in Nat \ {0} /\ NetMod \in Nat \ {0} /\ WordMod \in Nat \ {0}
  /\ WordMod = TickMod * (WordMod \div TickMod) /\ NetMod <= WordMod
  /\ MinTick \in Width(TickMod) /\ MaxTick \in Width(TickMod)

\* The types of the contracts' state: unsigned amounts, int24 and int128.
ASSUME ChainAssumption ==
  \A c \in Chains :
    /\ Len(c) \in Nat \ {0}
    /\ \A b \in 1..Len(c) : \A a \in DOMAIN c[b] :
         LET s == c[b][a]
         IN  /\ a[1] = "v3" => /\ s.price \in Nat /\ s.liquidity \in Nat
                               /\ s.tick \in Width(TickMod) /\ s.spacing \in Width(TickMod)
                               /\ \A i \in DOMAIN s.nets : s.nets[i] \in Width(NetMod)
             /\ a[1] = "v2" => s.r0 \in Nat /\ s.r1 \in Nat

VARIABLES chain, block,  \* the chain, and its latest block
          pc,            \* "idle", "slots", "ticks", "reserves", "done" or "failed"
          protocol,      \* whose source it is: "v3" or "v2"
          calls,         \* the calls of the pass under way
          results,       \* what Aggregate has of their results
          found,         \* the live pools of the first pass
          pools,         \* what the source returns
          since,         \* bookkeeping: the block at which the read began,
          asOf,          \*   those at which the results were given, and
          failed         \*   the targets of calls that failed for want of gas

vars == <<chain, block, pc, protocol, calls, results, found, pools, since, asOf, failed>>

Blank == /\ calls = <<>> /\ results = <<>> /\ found = <<>> /\ pools = <<>>
         /\ asOf = <<>> /\ failed = {}

Init == /\ chain \in Chains
        /\ block = 1 /\ since = 1
        /\ pc = "idle" /\ protocol = "v3"
        /\ Blank

----------------------------------------------------------------------------
(* Candidates.                                                             *)

\* The members of a finite set of numbers, the lowest first.
Ascending(S) == [k \in 1..Cardinality(S) |->
                   CHOOSE x \in S : Cardinality({y \in S : y <= x}) = k]

\* Every unordered pair, the lower address first.
PairsOf(tokens) ==
  LET s == Ascending(tokens)
  IN  FlattenSeq([i \in DOMAIN s |-> [j \in 1..(Len(s) - i) |-> <<s[i], s[i + j]>>]])

Candidates ==
  FlattenSeq([i \in DOMAIN PairsOf(Tokens) |->
    [j \in DOMAIN FeeTiers |->
       [address |-> <<"v3", PairsOf(Tokens)[i][1], PairsOf(Tokens)[i][2], FeeTiers[j]>>,
        token0 |-> PairsOf(Tokens)[i][1], token1 |-> PairsOf(Tokens)[i][2],
        fee |-> FeeTiers[j]]]])

PairCandidates ==
  [i \in DOMAIN PairsOf(Tokens) |->
     [address |-> <<"v2", PairsOf(Tokens)[i][1], PairsOf(Tokens)[i][2]>>,
      token0 |-> PairsOf(Tokens)[i][1], token1 |-> PairsOf(Tokens)[i][2]]]

----------------------------------------------------------------------------
(* Words.                                                                  *)

\* A signed value sign-extended across the word: encodeInt24, and the contracts.
EncodeSigned(n) == n % WordMod

Signed(n, mod) == IF n >= mod \div 2 THEN n - mod ELSE n

\* decodeInt24: masked to the width, then signed.
DecodeInt24(word) == Signed(word % TickMod, TickMod)

\* decodeTick: the whole word is compared, it is not masked first.
DecodeNet(word) == Signed(word, NetMod)

\* Go's remainder has the sign of the dividend.
Rem(a, b) == IF a < 0 THEN -((-a) % b) ELSE a % b

\* The code holds the lower half to MinTick only and the upper one to MaxTick only, and
\* encodeInt24 refuses a tick beyond the other end: around a tick of the range there is none.
WindowTicks(current, spacing) ==
  LET step == IF spacing <= 0 THEN DefaultSpacing ELSE spacing
      base == current - Rem(current, step)
  IN  Ascending({base + i * TickStride * step : i \in (-TickWindow..TickWindow) \ {0}}
                  \cap (MinTick..MaxTick))

----------------------------------------------------------------------------
(* The contracts: what a call answers at block b.  An address without code *)
(* answers with success and no data.                                       *)

Deployed(address, b) == address \in DOMAIN chain[b]

Returned(c, b) ==
  LET s == chain[b][c.target]
  IN  CASE c.data[1] = "slot0" -> <<s.price, EncodeSigned(s.tick)>>
        [] c.data[1] = "liquidity" -> <<s.liquidity>>
        [] c.data[1] = "tickSpacing" -> <<EncodeSigned(s.spacing)>>
        [] c.data[1] = "getReserves" -> <<s.r0, s.r1, b>>
        [] c.data[1] = "ticks" ->
             LET idx == DecodeInt24(c.data[2])
                 has == idx \in DOMAIN s.nets
             IN  <<0, IF has THEN EncodeSigned(s.nets[idx]) ELSE 0,
                   0, 0, 0, 0, 0, IF has THEN 1 ELSE 0>>

Answer(c, b) == [success |-> TRUE,
                 data |-> IF Deployed(c.target, b) THEN Returned(c, b) ELSE <<>>]

OutOfGas == [success |-> FALSE, data |-> <<>>]

NewBlock == /\ block < Len(chain)
            /\ block' = block + 1
            /\ UNCHANGED <<chain, pc, protocol, calls, results, found, pools, since, asOf, failed>>

----------------------------------------------------------------------------
(* Aggregate.                                                              *)

Reading == pc \in {"slots", "ticks", "reserves"}

\* Mutant: a chunk begins with the last call of the one before.
ChunkOverlaps == SubSeq(calls, IF results = <<>> THEN 1 ELSE Len(results),
                        IF Len(results) + BatchSize > Len(calls) THEN Len(calls)
                                                                 ELSE Len(results) + BatchSize)

Chunk == SubSeq(calls, Len(results) + 1,
                IF Len(results) + BatchSize > Len(calls) THEN Len(calls)
                                                         ELSE Len(results) + BatchSize)

\* The contract makes the calls of the request in order; those in gas fail.
Execute(request, gas) ==
  EncodeResults([i \in DOMAIN CallsIn(request) |->
                   IF i \in gas THEN OutOfGas ELSE Answer(CallsIn(request)[i], block)])

Fail == /\ pc' = "failed"
        /\ UNCHANGED <<chain, block, protocol, calls, results, found, pools, since, asOf, failed>>

\* One batch comes back, perhaps cut short, and then it is an error.
Batch(gas) ==
  /\ Reading /\ Len(results) < Len(calls)
  /\ gas \subseteq DOMAIN Chunk
  /\ LET raw == Execute(EncodeTryAggregate(Chunk), gas)
         want == Len(Chunk)
     IN  \E n \in 0..Len(raw) :
           LET data == SubSeq(raw, 1, n)
           IN  IF Decodes(data, want)
                 THEN /\ results' = results \o DecodeTryAggregate(data, want)
                      /\ asOf' = asOf \o [i \in 1..want |-> block]
                      /\ failed' = failed \cup {Chunk[i].target : i \in gas}
                      /\ UNCHANGED <<chain, block, pc, protocol, calls, found, pools, since>>
                 ELSE Fail

\* The worker pool gives up on the request.
DoFails == /\ Reading /\ Len(results) < Len(calls)
           /\ Fail

\* The pass has all its results.
Complete == Len(results) = Len(calls)

----------------------------------------------------------------------------
(* The Uniswap source.                                                     *)

Call(target, data) == [target |-> target, data |-> data]

Begin(kind, cs) == /\ pc = "idle"
                   /\ pc' = kind
                   /\ protocol' = IF kind = "reserves" THEN "v2" ELSE "v3"
                   /\ calls' = cs
                   /\ since' = block
                   /\ UNCHANGED <<chain, block, results, found, pools, asOf, failed>>

SlotCalls ==
  FlattenSeq([i \in DOMAIN Candidates |-> <<Call(Candidates[i].address, <<"slot0">>),
                                            Call(Candidates[i].address, <<"liquidity">>),
                                            Call(Candidates[i].address, <<"tickSpacing">>)>>])

BeginUniswap == Begin("slots", SlotCalls)

\* The number that the bytes of some data make.
Number(data) == IF data = <<>> THEN 0 ELSE data[1]

\* Candidate i exists and can quote.
Live(i) == LET slot0 == results[3 * i - 2]
               liq == results[3 * i - 1]
           IN  /\ slot0.success /\ liq.success
               /\ Len(slot0.data) >= 2 /\ slot0.data[1] > 0
               /\ Number(liq.data) > 0

Spacing(r) == IF r.success /\ Len(r.data) >= 1 /\ DecodeInt24(r.data[1]) # 0
                THEN DecodeInt24(r.data[1]) ELSE DefaultSpacing

\* Mutant: the search stops at the first address without a pool.
LiveOnesUntilGap ==
  Ascending({i \in DOMAIN Candidates : \A j \in 1..i : Live(j)})

LiveOnes == Ascending({i \in DOMAIN Candidates : Live(i)})

FoundLive ==
  [k \in DOMAIN LiveOnes |->
     LET i == LiveOnes[k]
         slot0 == results[3 * i - 2]
     IN  [address |-> Candidates[i].address, fee |-> Candidates[i].fee,
          token0 |-> Candidates[i].token0, token1 |-> Candidates[i].token1,
          price |-> slot0.data[1], tick |-> DecodeInt24(slot0.data[2]),
          liquidity |-> Number(results[3 * i - 1].data),
          spacing |-> Spacing(results[3 * i])]]

Window(f) == WindowTicks(f.tick, f.spacing)

TickCalls(fs) ==
  FlattenSeq([k \in DOMAIN fs |->
    [n \in DOMAIN Window(fs[k]) |->
       Call(fs[k].address, <<"ticks", EncodeSigned(Window(fs[k])[n])>>)]])

\* The first pass is complete; the second goes around the prices it has found.
CollectSlots ==
  /\ pc = "slots" /\ Complete
  /\ found' = FoundLive
  /\ calls' = TickCalls(FoundLive)
  /\ results' = <<>> /\ asOf' = <<>>
  /\ pc' = IF FoundLive = <<>> THEN "done" ELSE "ticks"
  /\ UNCHANGED <<chain, block, protocol, pools, since, failed>>

\* Mutant: the windows are taken to be of one length.
CursorOfEqual(k) == (k - 1) * Len(Window(found[k]))

\* The results of the second pass before those of pool k.
Cursor(k) == Len(FlattenSeq([j \in 1..(k - 1) |-> Window(found[j])]))

TicksOf(k) ==
  LET Result(n) == results[Cursor(k) + n]
      Initialised(n) == /\ Cursor(k) + n <= Len(results)
                        /\ Result(n).success /\ Len(Result(n).data) >= 8
                        /\ Result(n).data[8] # 0 /\ DecodeNet(Result(n).data[2]) # 0
      taken == Ascending({n \in DOMAIN Window(found[k]) : Initialised(n)})
  IN  [m \in DOMAIN taken |-> [index |-> Window(found[k])[taken[m]],
                               net |-> DecodeNet(Result(taken[m]).data[2])]]

CollectTicks ==
  /\ pc = "ticks" /\ Complete
  /\ pools' = [k \in DOMAIN found |->
                 [address |-> found[k].address, fee |-> found[k].fee,
                  token0 |-> found[k].token0, token1 |-> found[k].token1,
                  price |-> found[k].price, tick |-> found[k].tick,
                  liquidity |-> found[k].liquidity, ticks |-> TicksOf(k)]]
  /\ pc' = "done"
  /\ UNCHANGED <<chain, block, protocol, calls, results, found, since, asOf, failed>>

----------------------------------------------------------------------------
(* The Sushiswap source.                                                   *)

ReserveCalls ==
  [i \in DOMAIN PairCandidates |-> Call(PairCandidates[i].address, <<"getReserves">>)]

BeginSushiswap == Begin("reserves", ReserveCalls)

HoldsReserves(i) == /\ results[i].success /\ Len(results[i].data) >= 3
                    /\ results[i].data[1] > 0 /\ results[i].data[2] > 0

CollectReserves ==
  /\ pc = "reserves" /\ Complete
  /\ LET held == Ascending({i \in DOMAIN PairCandidates : HoldsReserves(i)})
     IN  pools' = [k \in DOMAIN held |->
                     [address |-> PairCandidates[held[k]].address,
                      token0 |-> PairCandidates[held[k]].token0,
                      token1 |-> PairCandidates[held[k]].token1,
                      r0 |-> results[held[k]].data[1], r1 |-> results[held[k]].data[2]]]
  /\ pc' = "done"
  /\ UNCHANGED <<chain, block, protocol, calls, results, found, since, asOf, failed>>

\* The indexer has the pools or the error, and will be back at the next refresh.
Return == /\ pc \in {"done", "failed"}
          /\ pc' = "idle"
          /\ calls' = <<>> /\ results' = <<>> /\ found' = <<>> /\ pools' = <<>>
          /\ asOf' = <<>> /\ failed' = {}
          /\ since' = block
          /\ UNCHANGED <<chain, block, protocol>>

\* Any calls of a batch may fail.
Gas == SUBSET (1..BatchSize)

Read == \/ DoFails
        \/ \E gas \in Gas : /\ Cardinality(failed) + Cardinality(gas) <= MaxFailed
                            /\ Batch(gas)
        \/ CollectSlots \/ CollectTicks \/ CollectReserves

Next == NewBlock \/ BeginUniswap \/ BeginSushiswap \/ Read \/ Return

Spec == Init /\ [][Next]_vars

----------------------------------------------------------------------------
(* Properties.                                                             *)

\* The blocks of the read so far at which an address has a contract.
Seen(address) == {b \in since..block : Deployed(address, b)}

\* multicall.go:63, "Results line up one-to-one with calls": however the calls are cut
\* into batches, encoded and decoded, a result is what its own call was answered at
\* the block of its batch, or says that the call failed.
ResultsLineUp ==
  \A i \in DOMAIN results :
    \/ results[i] = Answer(calls[i], asOf[i])
    \/ results[i] = OutOfGas /\ calls[i].target \in failed

\* State that the chain had during the read, of the pool at p.address: price and tick, or
\* both reserves, of one block, liquidity and ticks of that block or of later ones, every
\* tick at its own index.  Of a tick that takes liquidity away it says no more.
WasRead(p) ==
  LET At(b) == chain[b][p.address]
  IN  \E b \in Seen(p.address) :
        IF protocol = "v2" THEN At(b).r0 = p.r0 /\ At(b).r1 = p.r1
        ELSE /\ At(b).price = p.price /\ At(b).tick = p.tick
             /\ \E c \in b..block : At(c).liquidity = p.liquidity
             /\ \A n \in DOMAIN p.ticks :
                  \E c \in b..block :
                    /\ p.ticks[n].index \in DOMAIN At(c).nets
                    /\ \/ At(c).nets[p.ticks[n].index] < 0
                       \/ At(c).nets[p.ticks[n].index] = p.ticks[n].net

\* What a source returns has been on the chain during the read, in the pool it is
\* returned for (uniswapv3.go:99-215, sushiswap.go:72-98).
PoolsWereRead == pc = "done" => \A k \in DOMAIN pools : WasRead(pools[k])

\* A contract that can quote at block b.
Quotes(address, b) ==
  /\ Deployed(address, b)
  /\ LET s == chain[b][address]
     IN  IF protocol = "v2" THEN s.r0 > 0 /\ s.r1 > 0 ELSE s.price > 0 /\ s.liquidity > 0

\* It could quote all through the read, and its own calls went through.
Steady(address) == (\A b \in since..block : Quotes(address, b)) /\ address \notin failed

\* What the source probes.
Probed == IF protocol = "v2" THEN PairCandidates ELSE Candidates

\* multicall.go:64-65, "one dead pool address must not cost us the state of the other
\* ninety-nine": a pool that could quote all through the read, and whose own calls
\* went through, is returned.
LivePoolsAreReturned ==
  pc = "done" =>
    \A i \in DOMAIN Probed :
      Steady(Probed[i].address) => \E k \in DOMAIN pools : pools[k].address = Probed[i].address

\* onchain_test.go:210-211, "liquidityNet is int128 and is negative at the upper bound
\* of every position.  Reading it unsigned would add liquidity where the pool removes
\* it": a tick comes with the net liquidity the chain has for it.
TickNetsAreTrue ==
  pc = "done" /\ protocol = "v3" =>
    \A k \in DOMAIN pools : \A n \in DOMAIN pools[k].ticks :
      \E b \in Seen(pools[k].address) :
        LET nets == chain[b][pools[k].address].nets
        IN  pools[k].ticks[n].index \in DOMAIN nets
              /\ nets[pools[k].ticks[n].index] = pools[k].ticks[n].net
=============================================================================
