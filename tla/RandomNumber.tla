---------------------------- MODULE RandomNumber ----------------------------
(***************************************************************************)
(* randomUint16Number (src/common/cchain.go, lines 886-902): a value in    *)
(* [0, max) by rejection sampling.  Draws are w-bit unsigned integers      *)
(* (w = 16 in the code, a parameter here), read from crypto/rand; a draw   *)
(* below limitRange = (MaxUint / max) * max is accepted and its remainder  *)
(* returned, any other is rejected and the loop draws again.  The          *)
(* randomness is abstracted to the set of draws; since every draw is       *)
(* equally likely, the result is uniform exactly when every remainder is   *)
(* produced by as many accepted draws as every other.                      *)
(***************************************************************************)
EXTENDS Naturals, FiniteSets

CONSTANT Width          \* bits of the random integer (16 in the code)

MaxUint == 2 ^ Width - 1        \* math.MaxUint16
Draws   == 0..MaxUint           \* what binary.Read can put in randomNumber

\* mutant: the limit one past the multiple of max
LimitRangeOffByOne(max) == (MaxUint \div max) * max + 1

LimitRange(max) == (MaxUint \div max) * max

\* the draws the loop accepts, and the value it returns for each
Accepted(max)  == {r \in Draws : r < LimitRange(max)}
Returned(r, max) == r % max

\* the possible results of randomUint16Number(max)
Results(max) == {Returned(r, max) : r \in Accepted(max)}
=============================================================================
