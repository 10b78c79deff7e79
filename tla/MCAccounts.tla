----------------------------- MODULE MCAccounts -----------------------------
(***************************************************************************)
(* Small instances of Accounts: one address in two spellings and another   *)
(* one, a string that is no address, and passwords at the edges of what    *)
(* validateRegistration and bcrypt accept, the longest of which goes on    *)
(* where another one ends.                                                 *)
(***************************************************************************)
EXTENDS Accounts, TLC

CONSTANTS w1, w2

TwoWorkers == {w1, w2}
Symmetric == Permutations(TwoWorkers)

Addresses == {"ann", "Ann", "bob", "?"}
Lower == [s \in Addresses |-> IF s = "Ann" THEN "ann" ELSE s]
Edges == ("p8" :> 8) @@ ("p72" :> 72) @@ ("p73" :> 73)
Prefixes == ("p8" :> "p8") @@ ("p72" :> "p72") @@ ("p73" :> "p72")
=============================================================================
