------------------------------ MODULE LockoutMC ------------------------------
EXTENDS Lockout, TLC

CONSTANTS a1, a2, a3, a4, a5

MCLadder == <<1, 2>>
MCGuess == [a \in {a1, a2, a3, a4, a5} |-> IF a = a1 THEN "right" ELSE "wrong"]
Symmetries == Permutations({a2, a3, a4, a5})
=============================================================================
