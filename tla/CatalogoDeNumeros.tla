-------------------------- MODULE CatalogoDeNumeros --------------------------
(***************************************************************************)
(* What the ticket table of an edition promises a buyer, without requests, *)
(* gateways or transactions: "ligação irreversível com os ranges           *)
(* matemáticos para impedir compra duplicata" (REGRAS_DE_NEGOCIO.md:53).   *)
(* A number is free or sold to one sale.  One step sells free numbers to a *)
(* sale, as many as it bought; another gives back all that a sale holds.   *)
(* A number never goes from one sale to another without being free first.  *)
(***************************************************************************)
EXTENDS FiniteSets

CONSTANTS
    Numeros,       \* numbers of the range, MatrizRange.numero
    Vendas,        \* sales
    Quantidade,    \* Quantidade[v]: how many numbers sale v bought
    Nulo           \* the owner of a free number

VARIABLE dono      \* dono[n]: the sale that holds number n, or Nulo

Init == dono = [n \in Numeros |-> Nulo]

Vender(v, S) ==
    /\ Cardinality(S) = Quantidade[v]
    /\ \A n \in S : dono[n] = Nulo
    /\ dono' = [n \in Numeros |-> IF n \in S THEN v ELSE dono[n]]

Liberar(v) ==
    dono' = [n \in Numeros |-> IF dono[n] = v THEN Nulo ELSE dono[n]]

Next == \E v \in Vendas : Liberar(v) \/ \E S \in SUBSET Numeros : Vender(v, S)

Spec == Init /\ [][Next]_dono
=============================================================================
