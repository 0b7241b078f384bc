----------------------------- MODULE FeeChecks -----------------------------
(***************************************************************************)
(* The comparisons of custom fees and keys with what a consensus node and  *)
(* the mirror report (utils/helpers/custom-fees.ts, verify-topic-tx.ts).   *)
(* The network holds a sequence of fees; each side shows it in its own way *)
(* and each check reads its side's view.                                   *)
(*                                                                         *)
(* amount stands for all the numbers a kind of fee has of its own: amount, *)
(* or numerator and denominator, and the minimum.                          *)
(***************************************************************************)
EXTENDS Integers, Sequences

Null == -1   \* null and undefined
None == "none"

\* What the consensus node answers: the SDK's fees, a maximum of 0 if none.
ConsensusView(fees) == fees

\* What the mirror answers: fees by type, no exemption, null for no maximum.
\* They keep their order, and here their positions among the token's fees.
MirrorView(fees, type) ==
  LET Shown(f) == [collector |-> f.collector, amount |-> f.amount,
                   maximum |-> IF f.max = 0 THEN Null ELSE f.max,
                   net |-> f.net, fallback_fee |-> f.fallback]
  IN [i \in {i \in DOMAIN fees : fees[i].type = type} |-> Shown(fees[i])]

\* Numbers print as themselves, null and undefined as 0.
stringifyNumberValue(v) == IF v = Null THEN 0 ELSE v

\* Mutant: the collectors' exemption is not compared.
ConsensusFeeIgnoring(fee, e) == fee.collector = e.collector

consensusNodeFeeEqualsCustomFee(fee, e) ==
  fee.collector = e.collector /\ fee.exempt = e.exempt

consensusNodeFeeEqualsCustomFractionalFee(fee, e) ==
  /\ stringifyNumberValue(fee.max) = e.max
  /\ fee.net = e.exclusive

consensusNodeFeeEqualsCustomRoyaltyFee(fee, e) ==
  stringifyNumberValue(fee.fallback) = e.fallback

ConsensusMatches(fee, e) ==
  /\ fee.type = e.type
  /\ consensusNodeFeeEqualsCustomFee(fee, e) /\ fee.amount = e.amount
  /\ e.type = "fractional" => consensusNodeFeeEqualsCustomFractionalFee(fee, e)
  /\ e.type = "royalty" => consensusNodeFeeEqualsCustomRoyaltyFee(fee, e)

\* A missing maximum is 0.
mirrorNodeFeeEqualsCustomFractionalFee(fee, e) ==
  /\ (IF fee.maximum = Null THEN 0 ELSE fee.maximum) = e.max
  /\ fee.net = e.exclusive

MirrorMatches(fee, e) ==
  /\ fee.collector = e.collector /\ fee.amount = e.amount
  /\ e.type = "fractional" => mirrorNodeFeeEqualsCustomFractionalFee(fee, e)
  /\ e.type = "royalty" => fee.fallback_fee = e.fallback

\* fallback_fee.amount of a royalty fee without fallback is a TypeError, met
\* only when all that is compared before is equal.
MirrorThrows(fee, e) ==
  /\ e.type = "royalty" /\ fee.fallback_fee = Null
  /\ fee.collector = e.collector /\ fee.amount = e.amount

\* verifyTokenCreationWith...Fee: both loops run, then both results are
\* asserted; the mirror's stops at its first match.
VerifyTokenFee(fees, e) ==
  LET consensus == ConsensusView(fees)
      mirror == MirrorView(fees, e.type)
      found == {i \in DOMAIN mirror : MirrorMatches(mirror[i], e)}
      thrown == {i \in DOMAIN mirror : MirrorThrows(mirror[i], e)}
  IN /\ \E i \in DOMAIN consensus : ConsensusMatches(consensus[i], e)
     /\ \E i \in found : \A j \in thrown : i < j

\* Fees of a topic: fixed fees, in the order given.  A missing list is null.
isNullOrEmpty(fees) == fees = <<>>

\* A denominating token the test does not name is not looked at.
verifyConsensusNodeCustomFees(fees, expected) ==
  IF expected = <<>> THEN isNullOrEmpty(fees)
  ELSE /\ Len(fees) = Len(expected)
       /\ \A i \in DOMAIN expected :
            /\ fees[i].collector = expected[i].collector
            /\ fees[i].amount = expected[i].amount
            /\ expected[i].token # None => fees[i].token = expected[i].token

\* One the test does not name must be null.
verifyMirrorNodeCustomFees(fees, expected) ==
  /\ Len(fees) = Len(expected)
  /\ \A i \in DOMAIN expected :
       /\ fees[i].collector = expected[i].collector
       /\ fees[i].amount = expected[i].amount
       /\ fees[i].token = expected[i].token

-----------------------------------------------------------------------------
\* What the comparisons are for.

\* A fee is the one expected in every respect.
IsExpected(f, e) ==
  /\ f.type = e.type /\ f.collector = e.collector
  /\ f.exempt = e.exempt /\ f.amount = e.amount
  /\ e.type = "fractional" => f.max = e.max /\ f.net = e.exclusive
  /\ e.type = "royalty" => stringifyNumberValue(f.fallback) = e.fallback

Holds(fees, e) == \E i \in DOMAIN fees : IsExpected(fees[i], e)

\* It is so as far as the mirror shows it, the exemption left aside.
LooksExpected(f, e) == IsExpected([f EXCEPT !.exempt = e.exempt], e)

\* A royalty fee without fallback, to the same collector and of the same amount
\* as the one expected, that the mirror's loop comes to before any fee that
\* looks expected.
Stumbles(fees, e) == \E j \in DOMAIN fees :
  /\ e.type = "royalty" /\ fees[j].type = "royalty" /\ fees[j].fallback = Null
  /\ fees[j].collector = e.collector /\ fees[j].amount = e.amount
  /\ \A i \in DOMAIN fees : i < j => ~LooksExpected(fees[i], e)
=============================================================================
