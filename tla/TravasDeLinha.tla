---------------------------- MODULE TravasDeLinha ----------------------------
(***************************************************************************)
(* The order in which the transactions of the sales lock their rows:       *)
(* confirmations, MANUAL sales of a card machine and cancellations, of     *)
(* both products.  They meet on the machine, the seller and the network    *)
(* (one of each here), on the numbers and on the sale itself.              *)
(*                                                                         *)
(* A transaction is what is left of its script ("roteiro").  It keeps each *)
(* row it wrote until it ends; one that inserts a key waits for whoever is *)
(* writing that key.  PostgreSQL breaks a circle of waits by aborting one  *)
(* of its transactions.  A cancellation asks the gateway for the refund    *)
(* from inside its transaction: that is not undone with it.                *)
(***************************************************************************)
EXTENDS Integers, Sequences, FiniteSets, SequencesExt

CONSTANTS
    Vendas,     \* sales
    DaSena,     \* those of Capital Sena
    Manuais,    \* those of the card machine, paid with its credit
    Numeros,    \* numbers of the edition
    Escolha,    \* Escolha[v]: the numbers of a sale of Prêmios, as its insert lists them
    Pedidos,    \* requests in flight
    Nulo

VARIABLES
    status,     \* status[v], as committed
    dono,       \* dono[r]: the sale of a ticket or of a commission, as committed
    tx,         \* tx[p]: the transaction of a request
    estornada   \* sales whose charge the gateway was asked to cancel

vars == <<status, dono, tx, estornada>>

Linha(tabela, id) == [tabela |-> tabela, id |-> id]
Maquininha == Linha("Maquininha", Nulo)
Vendedor == Linha("Vendedor", Nulo)
Distribuidor == Linha("Distribuidor", Nulo)
Venda(v) == Linha("Venda", v)
Comissao(v) == Linha("Comissao", v)
ComissaoDist(v) == Linha("ComissaoDistribuidor", v)
Bilhete(n) == Linha("Bilhete", n)
Unicas == {Bilhete(n) : n \in Numeros} \cup UNION {{Comissao(v), ComissaoDist(v)} : v \in Vendas}

Ocioso == [tipo |-> "ocioso", v |-> Nulo, roteiro |-> <<>>, tem |-> {}, escritas |-> {}]
TxInicial == [p \in Pedidos |-> Ocioso]
Init ==
    /\ status = [v \in Vendas |-> IF v \in Manuais THEN "nenhuma" ELSE "PENDENTE"]
    /\ dono = [r \in Unicas |-> Nulo]
    /\ tx = TxInicial
    /\ estornada = {}

(***************************************************************************)
(* The scripts                                                             *)
(***************************************************************************)
Passo(op, r) == [op |-> op, linha |-> r]
Mudar(r) == <<Passo("mudar", r)>>
CriarBilhetes(v) == [i \in DOMAIN Escolha[v] |-> Passo("inserir", Bilhete(Escolha[v][i]))]

Comissoes(v) ==
    <<Passo("inserir", Comissao(v)), Passo("mudar", Vendedor),
      Passo("inserir", ComissaoDist(v)), Passo("mudar", Distribuidor)>>

\* Prêmios: tickets, commissions, and the status at the end.
\* Mutant: the status first, as in the Sena.
StatusPrimeiro(v) == Mudar(Venda(v)) \o CriarBilhetes(v) \o Comissoes(v)
Aprovacao(v) == CriarBilhetes(v) \o Comissoes(v) \o Mudar(Venda(v))

\* Sena: the status at the beginning; the cards have no unique key.
AprovacaoSena(v) == Mudar(Venda(v)) \o Comissoes(v)

Confirmacao(v) == IF v \in DaSena THEN AprovacaoSena(v) ELSE Aprovacao(v)

\* The credit of the machine is debited in the transaction that creates the sale.
VendaManual(v) == Mudar(Maquininha) \o IF v \in DaSena THEN Comissoes(v) ELSE Aprovacao(v)

\* The tickets and the commission that the cancellation read, the credit, the gateway,
\* the status.  deleteMany takes the tickets in no order of its own.
Cancelamentos(v) ==
    LET lidos == {r \in DOMAIN dono : r.tabela = "Bilhete" /\ dono[r] = v}
    IN  {[i \in DOMAIN ordem |-> Passo("apagar", ordem[i])]
            \o (IF dono[Comissao(v)] = v
               THEN <<Passo("mudar", Vendedor), Passo("apagar", Comissao(v))>> ELSE <<>>)
            \o (IF v \in Manuais THEN <<Passo("devolver", Maquininha)>>
               ELSE <<Passo("estornar", Linha("Gateway", Nulo))>>)
            \o Mudar(Venda(v)) : ordem \in SetToSeqs(lidos)}

(***************************************************************************)
(* Waiting                                                                 *)
(***************************************************************************)
Proxima(p) == Head(tx[p].roteiro)
TemTrabalho(p) == tx[p].roteiro # <<>>
\* A DELETE neither sees nor waits for a row that is not committed, and the credit that the
\* ledger says was given back is not touched.
Alcanca(p) ==
    /\ Proxima(p).op = "apagar" => dono[Proxima(p).linha] = tx[p].v
    /\ Proxima(p).op = "devolver" => status[tx[p].v] # "CANCELADO"
    /\ Proxima(p).op # "estornar"
Segura(q, p) == q # p /\ TemTrabalho(p) /\ Alcanca(p) /\ Proxima(p).linha \in tx[q].tem

\* Who waits for a row; a circle of waits, and one with no smaller one in it.
Parados == {p \in Pedidos : \E q \in Pedidos : Segura(q, p)}
Impasse(C) == C # {} /\ \A p \in C : \E q \in C : Segura(q, p)
Ciclo(C) == Impasse(C) /\ \A D \in SUBSET C : Impasse(D) => D = C

(***************************************************************************)
(* Steps                                                                   *)
(***************************************************************************)
Iniciar(p, tipo, v, roteiro) ==
    /\ tx[p] = Ocioso
    /\ tx' = [tx EXCEPT ![p] = [Ocioso EXCEPT !.tipo = tipo, !.v = v, !.roteiro = roteiro]]
    /\ UNCHANGED <<status, dono, estornada>>

Vender(p, v) ==
    /\ v \in Manuais /\ status[v] = "nenhuma" /\ \A q \in Pedidos : tx[q].v # v
    /\ Iniciar(p, "vender", v, VendaManual(v))

ConfirmarPagamento(p, v) ==
    /\ status[v] = "PENDENTE"
    /\ Iniciar(p, "confirmar", v, Confirmacao(v))

Cancelar(p, v) ==
    /\ status[v] \in {"PENDENTE", "APROVADO"}
    /\ \E roteiro \in Cancelamentos(v) : Iniciar(p, "cancelar", v, roteiro)

\* One statement, once the row is free; a key that exists refuses the insert, and the
\* commission is deleted by its id, which must be there.
Executar(p) ==
    /\ TemTrabalho(p) /\ \A q \in Pedidos : ~Segura(q, p)
    /\ LET r == Proxima(p).linha
           op == Proxima(p).op
       IN  /\ op = "inserir" => dono[r] = Nulo
           /\ op = "apagar" /\ r.tabela = "Comissao" => Alcanca(p)
           /\ tx' = [tx EXCEPT ![p].roteiro = Tail(@),
                               ![p].tem = IF Alcanca(p) THEN @ \cup {r} ELSE @,
                               ![p].escritas = IF Alcanca(p) THEN @ \cup ({r} \cap DOMAIN dono) ELSE @]
           /\ estornada' = IF op = "estornar" THEN estornada \cup {tx[p].v} ELSE estornada
    /\ UNCHANGED <<status, dono>>

Terminar(p) ==
    /\ tx[p].tipo # "ocioso" /\ ~TemTrabalho(p)
    /\ LET apagou == tx[p].tipo = "cancelar"
       IN  /\ status' = [status EXCEPT ![tx[p].v] = IF apagou THEN "CANCELADO" ELSE "APROVADO"]
           /\ dono' = [r \in DOMAIN dono |->
                          IF r \in tx[p].escritas THEN IF apagou THEN Nulo ELSE tx[p].v ELSE dono[r]]
    /\ tx' = [tx EXCEPT ![p] = Ocioso]
    /\ UNCHANGED estornada

\* An error, Prisma's limit of 5 s, the end of the process, or the choice of PostgreSQL
\* among those of a circle: what was written goes away, the refund does not.
Reverter(p) ==
    /\ tx[p].tipo # "ocioso"
    /\ tx' = [tx EXCEPT ![p] = Ocioso]
    /\ UNCHANGED <<status, dono, estornada>>

Next ==
    \E p \in Pedidos :
        \/ \E v \in Vendas : Vender(p, v) \/ ConfirmarPagamento(p, v) \/ Cancelar(p, v)
        \/ Executar(p) \/ Terminar(p) \/ Reverter(p)
Spec == Init /\ [][Next]_vars

TypeOK ==
    /\ status \in [Vendas -> {"nenhuma", "PENDENTE", "APROVADO", "CANCELADO"}]
    /\ dono \in [Unicas -> Vendas \cup {Nulo}]
    /\ estornada \subseteq Vendas \ Manuais
    /\ \A p, q \in Pedidos : p # q => tx[p].tem \cap tx[q].tem = {}

\* The transactions that move money form a circle of waits only when a cancellation meets
\* a sale or a confirmation, which lock the machine, the seller and the sale in another
\* order: two cancellations, or any number of sales and confirmations, never do.  (The
\* tickets, inserted in the order in which they were chosen, may form one by themselves.)
ImpasseTemCancelamento ==
    \A C \in SUBSET Parados : Ciclo(C) =>
        \/ \A p \in C : Proxima(p).linha.tabela = "Bilhete"
        \/ /\ \E p \in C : tx[p].tipo = "cancelar"
           /\ \E p \in C : tx[p].tipo # "cancelar"

\* A cancellation of Prêmios that has asked the gateway for the refund is in no circle of
\* waits, so that PostgreSQL does not undo it; one of the Sena may be.
EstornoDePremiosNaoCai ==
    \A p \in Parados :
        tx[p].tipo = "cancelar" /\ tx[p].v \notin DaSena /\ Proxima(p).linha = Venda(tx[p].v) =>
            \A C \in SUBSET Parados : p \in C => ~Ciclo(C)
=============================================================================
