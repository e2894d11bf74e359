--------------------------- MODULE RazaoDeCredito ---------------------------
(***************************************************************************)
(* What the credit of the card machines promises, without the transactions *)
(* that implement it: "toda alteração de saldo nasce de uma linha em       *)
(* MovimentoCreditoMaquininha -- o razão é a fonte da verdade, e           *)
(* Maquininha.saldoCredito é a materialização dele"                        *)
(* (creditos-maquininha.service.ts:77-80).  One step appends one movement  *)
(* to one machine's ledger and moves that machine's balance by its value,  *)
(* atomically.  CreditoMaquininha implements this module.                  *)
(***************************************************************************)
EXTENDS Integers, Sequences

CONSTANTS
    Maquininhas,   \* card machines
    Vendas,        \* MANUAL sales, of Prêmios or of Sena alike
    Valores,       \* what a movement may move, in centavos (naturals)
    Nulo           \* "no sale"

VARIABLES
    saldo,         \* saldo[m]: Maquininha.saldoCredito, in centavos
    razao          \* razao[m]: the movements of m, in commit order

razaoVars == <<saldo, razao>>

MovimentosPositivos == {"RECARGA", "ESTORNO", "AJUSTE_CREDITO"}
MovimentosNegativos == {"CONSUMO", "AJUSTE_DEBITO"}
TipoMovimentoCredito == MovimentosPositivos \cup MovimentosNegativos

\* The types whose row carries a sale, each at most once per sale
\* (@@unique([vendaId, tipo])); the others are entered by the ADMIN.
TiposDeVenda == {"CONSUMO", "ESTORNO"}

Movimento ==
    [tipo: TipoMovimentoCredito, valor: Nat, venda: Vendas \cup {Nulo},
     saldoAnterior: Int, saldoPosterior: Int]

\* What a movement of this type does to a balance.
ComEfeito(s, tipo, valor) ==
    IF tipo \in MovimentosPositivos THEN s + valor ELSE s - valor

\* The movement that `registrarMovimento` writes once the balance is `s`:
\* saldoPosterior is read back, saldoAnterior is deduced from it.
LinhaDoRazao(s, t, x, v) ==
    [tipo |-> t, valor |-> x, venda |-> v, saldoPosterior |-> s,
     saldoAnterior |-> IF t \in MovimentosPositivos THEN s - x ELSE s + x]

\* Machine m has a movement of type t for sale v.
TemMovimento(m, v, t) ==
    \E i \in 1..Len(razao[m]) : razao[m][i].venda = v /\ razao[m][i].tipo = t

Init ==
    /\ saldo = [m \in Maquininhas |-> 0]
    /\ razao = [m \in Maquininhas |-> <<>>]

Movimentar(m, t, x, v) ==
    /\ ComEfeito(saldo[m], t, x) >= 0
    /\ IF t \in TiposDeVenda THEN v \in Vendas ELSE v = Nulo
    /\ t \in TiposDeVenda => \A n \in Maquininhas : ~TemMovimento(n, v, t)
    /\ t = "ESTORNO" =>
         \E i \in 1..Len(razao[m]) :
            /\ razao[m][i].tipo = "CONSUMO"
            /\ razao[m][i].venda = v
            /\ razao[m][i].valor = x
    /\ saldo' = [saldo EXCEPT ![m] = ComEfeito(@, t, x)]
    /\ razao' = [razao EXCEPT ![m] =
                   Append(@, LinhaDoRazao(ComEfeito(saldo[m], t, x), t, x, v))]

Next ==
    \E m \in Maquininhas, t \in TipoMovimentoCredito,
       x \in Valores \ {0}, v \in Vendas \cup {Nulo} : Movimentar(m, t, x, v)

Spec == Init /\ [][Next]_razaoVars
=============================================================================
