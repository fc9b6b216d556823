-------------------------------- MODULE Sums --------------------------------
(***************************************************************************)
(* Sums of the amounts of finitely many numbered rows.  The database       *)
(* tables the models add up (deposits of a company, ledger rows) are       *)
(* functions on 1..n, so that a sum is a recursive function on 0..n and    *)
(* facts about it can be proved by induction on the number of rows.        *)
(***************************************************************************)
EXTENDS Integers

\* The partial sums of f: Partial(f, n)[i] = f[1] + ... + f[i].
Partial(f, n) == LET s[i \in 0..n] == IF i = 0 THEN 0 ELSE s[i - 1] + f[i]
                 IN  s

\* f[1] + ... + f[n].
Sum(f, n) == Partial(f, n)[n]

=============================================================================
