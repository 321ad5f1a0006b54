------------------------------- MODULE CInts -------------------------------
EXTENDS Integers

(* Division and remainder of ints: C rounds towards zero.                  *)
CDiv(a, b) == IF a >= 0 THEN a \div b ELSE -((-a) \div b)
CMod(a, b) == a - b * CDiv(a, b)
=============================================================================
