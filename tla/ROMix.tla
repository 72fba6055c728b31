--------------------------------- MODULE ROMix ---------------------------------
(***************************************************************************)
(* The mixing function of scrypt as the numbered comments of smix in       *)
(* scrypt.c give it: one block, N rounds that fill V and N rounds that     *)
(* read it back at places the block itself chooses.                        *)
(***************************************************************************)
EXTENDS Integers

CONSTANTS Values, H, Xor, Integerify, N

VARIABLES b, x, v, n, phase

vars == <<b, x, v, n, phase>>

Init == /\ b \in Values /\ x \in Values /\ v \in [0..N - 1 -> Values]
        /\ n = 0 /\ phase = "load"

\* 1: X <-- B
Load == /\ phase = "load"
        /\ x' = b /\ phase' = "fill"
        /\ UNCHANGED <<b, v, n>>

\* The next of N rounds, or the first of the next loop.
Round(now, next) == IF n + 1 = N THEN n' = 0 /\ phase' = next ELSE n' = n + 1 /\ phase' = now

\* 3: V_i <-- X, 4: X <-- H(X)
Fill == /\ phase = "fill"
        /\ v' = [v EXCEPT ![n] = x]
        /\ x' = H[x]
        /\ Round("fill", "mix")
        /\ UNCHANGED b

\* 7: j <-- Integerify(X) mod N, 8: X <-- H(X \xor V_j)
Mix == /\ phase = "mix"
       /\ x' = H[Xor[<<x, v[Integerify[x] % N]>>]]
       /\ Round("mix", "store")
       /\ UNCHANGED <<b, v>>

\* 10: B' <-- X
Store == /\ phase = "store"
         /\ b' = x /\ phase' = "done"
         /\ UNCHANGED <<x, v, n>>

Next == Load \/ Fill \/ Mix \/ Store
Spec == Init /\ [][Next]_vars
===============================================================================
