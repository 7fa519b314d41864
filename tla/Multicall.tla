----------------------------- MODULE Multicall -----------------------------
(***************************************************************************)
(* The encoding of a batch of contract reads (internal/rpc/multicall.go    *)
(* and abi.go): what tryAggregate of the Multicall3 contract is sent, and  *)
(* what it answers.  The unit is the ABI's 32-byte word.  A call is a      *)
(* target and its call data, a result a flag and its return data; both     *)
(* travel as a dynamic array of tuples with a dynamic member, that is,     *)
(* behind three levels of offsets.  Selectors and hexadecimal are left     *)
(* out.                                                                    *)
(***************************************************************************)
EXTENDS Integers, Sequences, SequencesExt

\* The word at offset o of some data; offsets count from 0.
Word(data, o) == data[o + 1]

\* Words o to o + n - 1.
Slice(data, o, n) == SubSeq(data, o + 1, o + n)

\* Offsets are relative to the word after the length.
Offsets(elements) ==
  [i \in DOMAIN elements |-> Len(elements) + Len(FlattenSeq(SubSeq(elements, 1, i - 1)))]

EncodeArray(elements) == <<Len(elements)>> \o Offsets(elements) \o FlattenSeq(elements)

EncodeCallTuple(c) == <<c.target, 2, Len(c.data)>> \o c.data

\* requireSuccess is false, and the array follows the two words of the head.
EncodeTryAggregate(calls) ==
  <<0, 2>> \o EncodeArray([i \in DOMAIN calls |-> EncodeCallTuple(calls[i])])

----------------------------------------------------------------------------
(* The contract: it finds the calls in the request, and encodes results.   *)

CallsIn(request) ==
  LET base == Word(request, 1) + 1
      At(i) == base + Word(request, base + i - 1)
      Data(at) == at + Word(request, at + 1)
  IN  [i \in 1..Word(request, base - 1) |->
         [target |-> Word(request, At(i)),
          data |-> Slice(request, Data(At(i)) + 1, Word(request, Data(At(i))))]]

EncodeResults(results) ==
  <<1>> \o EncodeArray([i \in DOMAIN results |->
                          <<IF results[i].success THEN 1 ELSE 0, 2, Len(results[i].data)>>
                            \o results[i].data])

----------------------------------------------------------------------------
(* decodeTryAggregate: first whether the data is long enough, then what    *)
(* it says.                                                                *)

\* decodeResultTuple finds a whole tuple at offset at.
TupleFits(data, at) ==
  /\ at + 2 <= Len(data)
  /\ LET lenAt == at + Word(data, at + 1)
     IN  lenAt + 1 <= Len(data) /\ lenAt + 1 + Word(data, lenAt) <= Len(data)

DecodeResultTuple(data, at) ==
  LET lenAt == at + Word(data, at + 1)
  IN  [success |-> Word(data, at) # 0, data |-> Slice(data, lenAt + 1, Word(data, lenAt))]

ElementsBase(data) == Word(data, 0) + 1

Element(data, i) == ElementsBase(data) + Word(data, ElementsBase(data) + i - 1)

\* Every read is within the data, and there are as many results as calls.
Decodes(data, want) ==
  /\ Len(data) >= 2
  /\ ElementsBase(data) <= Len(data)
  /\ Word(data, Word(data, 0)) = want
  /\ \A i \in 1..want : /\ ElementsBase(data) + i <= Len(data)
                        /\ TupleFits(data, Element(data, i))

DecodeTryAggregate(data, want) ==
  [i \in 1..want |-> DecodeResultTuple(data, Element(data, i))]
=============================================================================
