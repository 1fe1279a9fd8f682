------------------------------ MODULE FileNames ------------------------------
(***************************************************************************)
(* Numbered file names and the order Vec::sort gives them: the coordinator *)
(* writes presplit_NNNN.ts and the cluster master seg_NNN.ts, and both     *)
(* sort the paths to have the segments in order.                           *)
(***************************************************************************)
EXTENDS Integers, FiniteSetsExt

CONSTANTS
  Base,   \* of the numbers: 10 in the code
  Width   \* digits they are padded to: 4 and 3 in the code

(* The powers of Base: there are Power[d] numbers of d digits.              *)
Power[d \in Nat] == IF d = 0 THEN 1 ELSE Base * Power[d - 1]

ASSUME NamesAssumption ==
  /\ Base \in Nat \ {0, 1} /\ Width \in Nat \ {0}
  /\ Power[Width] > 2   \* two numbers and the next one sort well with a digit more

Digits(n) == Min({ d \in Width..(Width + n) : n < Power[d] })

(* The order of the names as strings: digit by digit from the left, and a   *)
(* name that is the beginning of another one comes first, since the dot     *)
(* after it sorts before every digit.                                       *)
NameBefore(m, n) ==
  LET d == Max({Digits(m), Digits(n)})
      p == m * Power[d - Digits(m)]
      q == n * Power[d - Digits(n)]
  IN  p < q \/ (p = q /\ Digits(m) < Digits(n))
=============================================================================
