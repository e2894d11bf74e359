--------------------------- MODULE VendasSena_proofs ---------------------------
(***************************************************************************)
(* The sales of Capital Sena, for any sales, cards, percentages and any    *)
(* number of requests in flight: the wallets hold the commissions that     *)
(* exist, a sale's cards follow its status and one that pays its           *)
(* distributor makes them once.                                            *)
(***************************************************************************)
EXTENDS VendasSena, TLAPS, FiniteSetTheorems

\* What the constants of an instance are.
Instancia ==
    /\ Nulo \notin Vendas /\ Quantidade \in [Vendas -> Nat \ {0}]
    /\ ComVendedor \subseteq Vendas /\ ComDistribuidor \subseteq Vendas

Contaveis == IsFiniteSet(comissao) /\ IsFiniteSet(comissaoDist)

\* A request that does not rest serves a sale; one that is not making a sale serves a
\* sale that somebody made.
PedidosServem ==
    \A p \in Pedidos :
        /\ pedido[p].passo # "ocioso" => pedido[p].v \in Vendas
        /\ pedido[p].passo \in {"cobrar", "recusar", "lerCartelas", "lerComissao", "cancelar"} =>
              status[pedido[p].v] # "nenhuma"

\* No card comes before the distributor's row, which survives the cancellation.
DistribuidorPrimeiro ==
    \A v \in ComDistribuidor : v \notin comissaoDist => cartelas[v] = 0

\* An error of the gateway or a cancellation may find the status that another left, but
\* never brings a sale back to where it waits.
IInv ==
    /\ TypeOK /\ Contaveis /\ PedidosServem
    /\ SaldosDaSena /\ CartelasDaSena
    /\ DistribuidorPrimeiro /\ DistribuidorDaSenaUmaVez

\* Whole batches of cards stay whole when one more is made.
LEMMA Inteiras ==
    ASSUME NEW q \in Nat \ {0}, NEW a \in Nat, a % q = 0
    PROVE  (a + q) % q = 0
<1> DEFINE k == a \div q
<1>1. k \in Int /\ a = q * k
  OBVIOUS
<1> HIDE DEF k
<1>2. a + q = q * (k + 1)
  BY <1>1
<1>3. ASSUME NEW n \in Int PROVE (q * n) % q = 0
  OBVIOUS
<1> QED
  BY <1>1, <1>2, <1>3

LEMMA Nenhuma ==
    ASSUME NEW q \in Nat \ {0}
    PROVE  0 % q = 0
  OBVIOUS

LEMMA InitIInv ==
    ASSUME Instancia, Init
    PROVE  IInv
<1>1. TypeOK
  BY DEF Init, TypeOK, Ocioso, Pedido, Passos, Instancia
<1>2. Contaveis /\ SaldosDaSena
  BY FS_EmptySet DEF Init, Contaveis, SaldosDaSena
<1>3. PedidosServem
  BY DEF Init, PedidosServem, Ocioso
<1>4. CartelasDaSena
  <2> SUFFICES ASSUME NEW v \in Vendas
               PROVE  cartelas[v] = 0 /\ v \notin comissao \cup comissaoDist
                      /\ status[v] = "nenhuma" /\ cartelas[v] % Quantidade[v] = 0
    BY DEF CartelasDaSena
  <2>1. cartelas[v] = 0 /\ Quantidade[v] \in Nat \ {0}
    BY DEF Init, Instancia
  <2> QED
    BY <2>1, Nenhuma DEF Init
<1>5. DistribuidorPrimeiro
  BY DEF Init, DistribuidorPrimeiro, Instancia
<1>6. DistribuidorDaSenaUmaVez
  <2> SUFFICES ASSUME NEW v \in ComDistribuidor
               PROVE  cartelas[v] = 0
    BY DEF DistribuidorDaSenaUmaVez
  <2> QED
    BY DEF Init, Instancia
<1> QED
  BY <1>1, <1>2, <1>3, <1>4, <1>5, <1>6 DEF IInv

\* A commission and the credit it gives, when the sale is of those that pay it.
LEMMA CarteiraCresce ==
    ASSUME NEW S, IsFiniteSet(S), NEW T, NEW v, v \in T => v \notin S,
           NEW saldo, saldo = Cardinality(S)
    PROVE  /\ IsFiniteSet(S \cup ({v} \cap T))
           /\ saldo + Cardinality({v} \cap T) = Cardinality(S \cup ({v} \cap T))
<1>1. CASE v \in T
  <2>1. {v} \cap T = {v} /\ Cardinality({v}) = 1
    BY <1>1, FS_Singleton
  <2> QED
    BY <1>1, <2>1, FS_AddElement
<1>2. CASE v \notin T
  <2>1. {v} \cap T = {} /\ S \cup ({v} \cap T) = S
    BY <1>2
  <2>2. Cardinality({v} \cap T) = 0 /\ Cardinality(S) \in Nat
    BY <2>1, FS_EmptySet, FS_CardinalityType
  <2>3. saldo + Cardinality({v} \cap T) = Cardinality(S)
    BY <2>2
  <2> QED
    BY <2>1, <2>3
<1> QED
  BY <1>1, <1>2

\* The steps that write neither sales, cards nor money, with the request they leave.
LEMMA SoPedidoIInv ==
    ASSUME IInv, NEW p \in Pedidos, NEW r \in Pedido,
           pedido' = [pedido EXCEPT ![p] = r], UNCHANGED <<status, cartelas, dinheiro>>,
           r.passo = "ocioso" <=> r.v = Nulo,
           r.passo # "ocioso" => r.v \in Vendas,
           r.passo \in {"cobrar", "recusar", "lerCartelas", "lerComissao", "cancelar"} =>
               status[r.v] # "nenhuma"
    PROVE  IInv'
<1> USE DEF IInv, dinheiro
<1>1. TypeOK'
  BY DEF TypeOK
<1>2. PedidosServem'
  BY DEF TypeOK, PedidosServem
<1>3. Contaveis' /\ SaldosDaSena'
  BY DEF Contaveis, SaldosDaSena
<1>4. CartelasDaSena'
  BY DEF CartelasDaSena
<1>5. DistribuidorPrimeiro' /\ DistribuidorDaSenaUmaVez'
  BY DEF DistribuidorPrimeiro, DistribuidorDaSenaUmaVez
<1> QED
  BY <1>1, <1>2, <1>3, <1>4, <1>5

LEMMA Repouso == ASSUME Instancia
                 PROVE  Ocioso \in Pedido /\ Ocioso.passo = "ocioso" /\ Ocioso.v = Nulo
BY DEF Ocioso, Pedido, Passos

\* What a query answers is TRUE or FALSE.
LEMMA Booleano == /\ \A n \in Int : \E b \in BOOLEAN : b = (n > 0)
                  /\ \A x, S : \E b \in BOOLEAN : b = (x \in S)
<1>1. ASSUME NEW n \in Int PROVE \E b \in BOOLEAN : b = (n > 0)
  <2>1. CASE n > 0
    <3>1. TRUE = (n > 0)
      BY <2>1
    <3> QED
      BY <3>1
  <2>2. CASE ~(n > 0)
    <3>1. FALSE = (n > 0)
      BY <2>2
    <3> QED
      BY <3>1
  <2> QED
    BY <2>1, <2>2
<1>2. ASSUME NEW x, NEW S PROVE \E b \in BOOLEAN : b = (x \in S)
  <2>1. CASE x \in S
    <3>1. TRUE = (x \in S)
      BY <2>1
    <3> QED
      BY <3>1
  <2>2. CASE x \notin S
    <3>1. FALSE = (x \in S)
      BY <2>2
    <3> QED
      BY <3>1
  <2> QED
    BY <2>1, <2>2
<1> QED
  BY <1>1, <1>2

LEMMA LeiturasIInv ==
    ASSUME Instancia, IInv, NEW p \in Pedidos
    PROVE  /\ Cobrar(p) \/ FalharCobranca(p) \/ DesfazerAprovacao(p) => IInv'
           /\ LerCartelas(p) \/ LerComissao(p) \/ DesfazerCancelamento(p) \/ Falhar(p) => IInv'
           /\ \A v \in Vendas : VenderManual(p, v) \/ Confirmar(p, v) \/ IniciarCancelamento(p, v)
                 => IInv'
<1>1. /\ pedido \in [Pedidos -> Pedido] /\ pedido[p] \in Pedido
      /\ pedido[p].passo = "ocioso" <=> pedido[p].v = Nulo
      /\ pedido[p].passo # "ocioso" => pedido[p].v \in Vendas
      /\ pedido[p].passo \in {"cobrar", "recusar", "lerCartelas", "lerComissao", "cancelar"} =>
            status[pedido[p].v] # "nenhuma"
  BY DEF IInv, TypeOK, PedidosServem
<1>2. Encerrar(p) /\ UNCHANGED <<status, cartelas, dinheiro>> => IInv'
  BY Repouso, SoPedidoIInv DEF Encerrar
<1>3. ASSUME FalharCobranca(p) PROVE IInv'
  <2> DEFINE r == [pedido[p] EXCEPT !.passo = "recusar"]
  <2>1. pedido' = [pedido EXCEPT ![p] = r] /\ UNCHANGED <<status, cartelas, dinheiro>>
    BY <1>1, <1>3 DEF FalharCobranca
  <2>2. /\ r \in Pedido /\ r.passo = "recusar" /\ r.v = pedido[p].v /\ r.v \in Vendas
        /\ status[r.v] # "nenhuma"
    BY <1>1, <1>3 DEF FalharCobranca, Pedido, Passos
  <2> HIDE DEF r
  <2> QED
    BY <2>1, <2>2, SoPedidoIInv DEF Instancia
<1>4. ASSUME LerCartelas(p) PROVE IInv'
  <2>1. PICK b \in BOOLEAN : b = (cartelas[pedido[p].v] > 0)
    BY Booleano
  <2> DEFINE r == [pedido[p] EXCEPT !.passo = "lerComissao", !.cartelas = b]
  <2>2. pedido' = [pedido EXCEPT ![p] = r] /\ UNCHANGED <<status, cartelas, dinheiro>>
    BY <1>1, <1>4, <2>1 DEF LerCartelas
  <2>3. /\ r \in Pedido /\ r.passo = "lerComissao" /\ r.v = pedido[p].v /\ r.v \in Vendas
        /\ status[r.v] # "nenhuma"
    BY <1>1, <1>4 DEF LerCartelas, Pedido, Passos
  <2> HIDE DEF r
  <2> QED
    BY <2>2, <2>3, SoPedidoIInv DEF Instancia
<1>6. ASSUME LerComissao(p) PROVE IInv'
  <2>1. PICK b \in BOOLEAN : b = (pedido[p].v \in comissao)
    BY Booleano
  <2> DEFINE r == [pedido[p] EXCEPT !.passo = "cancelar", !.comissao = b]
  <2>2. pedido' = [pedido EXCEPT ![p] = r] /\ UNCHANGED <<status, cartelas, dinheiro>>
    BY <1>1, <1>6, <2>1 DEF LerComissao
  <2>3. /\ r \in Pedido /\ r.passo = "cancelar" /\ r.v = pedido[p].v /\ r.v \in Vendas
        /\ status[r.v] # "nenhuma"
    BY <1>1, <1>6 DEF LerComissao, Pedido, Passos
  <2> HIDE DEF r
  <2> QED
    BY <2>2, <2>3, SoPedidoIInv DEF Instancia
<1>5. ASSUME NEW v \in Vendas, VenderManual(p, v) \/ Confirmar(p, v) \/ IniciarCancelamento(p, v)
      PROVE  IInv'
  <2>1. PICK passo \in {"aprovar", "lerCartelas"} :
            /\ Novo(p, v, passo) /\ UNCHANGED <<status, cartelas, dinheiro>>
            /\ passo = "lerCartelas" => status[v] # "nenhuma"
    BY <1>5 DEF VenderManual, Confirmar, IniciarCancelamento, StatusVendaSena
  <2> DEFINE r == [Ocioso EXCEPT !.passo = passo, !.v = v]
  <2>2. r \in Pedido /\ r.passo = passo /\ r.v = v
    BY DEF Ocioso, Pedido, Passos
  <2>3. pedido' = [pedido EXCEPT ![p] = r]
    BY <2>1 DEF Novo
  <2> HIDE DEF r
  <2> QED
    BY <2>1, <2>2, <2>3, SoPedidoIInv DEF Instancia
<1> QED
  BY <1>2, <1>3, <1>4, <1>5, <1>6 DEF Cobrar, DesfazerAprovacao, DesfazerCancelamento, Falhar

\* A commit that moves the status of the sale of its request, and ends it or goes on to the
\* gateway.
LEMMA CommitServe ==
    ASSUME Instancia, IInv, NEW p \in Pedidos, NEW v \in Vendas, NEW st \in StatusVendaSena,
           status' = [status EXCEPT ![v] = st],
           Encerrar(p) \/ (Novo(p, v, "cobrar"))
    PROVE  PedidosServem' /\ pedido' \in [Pedidos -> Pedido]
           /\ status' \in [Vendas -> StatusVendaSena \cup {"nenhuma"}]
           /\ \A q \in Pedidos : pedido'[q].passo = "ocioso" <=> pedido'[q].v = Nulo
<1> DEFINE cobranca == [Ocioso EXCEPT !.passo = "cobrar", !.v = v]
<1>1. PICK r \in {Ocioso, cobranca} : pedido' = [pedido EXCEPT ![p] = r]
  BY DEF Encerrar, Novo
<1>2. /\ cobranca \in Pedido /\ cobranca.passo = "cobrar" /\ cobranca.v = v
      /\ Ocioso \in Pedido /\ Ocioso.passo = "ocioso" /\ Ocioso.v = Nulo
  BY DEF Ocioso, Pedido, Passos
<1> HIDE DEF cobranca
<1>3. /\ pedido \in [Pedidos -> Pedido]
      /\ status \in [Vendas -> StatusVendaSena \cup {"nenhuma"}]
      /\ \A q \in Pedidos : pedido[q].passo = "ocioso" <=> pedido[q].v = Nulo
  BY DEF IInv, TypeOK
<1>4. pedido' \in [Pedidos -> Pedido] /\ status' \in [Vendas -> StatusVendaSena \cup {"nenhuma"}]
  BY <1>1, <1>2, <1>3
<1>5. \A w \in Vendas : status[w] # "nenhuma" => status'[w] # "nenhuma"
  BY <1>3 DEF StatusVendaSena
<1>6. status'[v] # "nenhuma"
  BY <1>3 DEF StatusVendaSena
<1>7. ASSUME NEW q \in Pedidos
      PROVE  /\ pedido'[q].passo = "ocioso" <=> pedido'[q].v = Nulo
             /\ pedido'[q].passo # "ocioso" => pedido'[q].v \in Vendas
             /\ pedido'[q].passo \in {"cobrar", "recusar", "lerCartelas", "lerComissao", "cancelar"}
                   => status'[pedido'[q].v] # "nenhuma"
  <2>1. CASE q = p
    BY <2>1, <1>1, <1>2, <1>3, <1>6 DEF Instancia
  <2>2. CASE q # p
    <3>1. pedido'[q] = pedido[q]
      BY <2>2, <1>1, <1>3
    <3> QED
      BY <3>1, <1>3, <1>5 DEF IInv, PedidosServem
  <2> QED
    BY <2>1, <2>2
<1> QED
  BY <1>4, <1>7 DEF PedidosServem

\* A sale is made waiting, or refused, which touches neither cards nor money.
LEMMA StatusIInv ==
    ASSUME Instancia, IInv, NEW p \in Pedidos
    PROVE  /\ \A v \in Vendas : CriarPendente(p, v) => IInv'
           /\ Recusar(p) => IInv'
<1>1. ASSUME NEW v \in Vendas, NEW st \in {"PENDENTE", "RECUSADO"},
             status' = [status EXCEPT ![v] = st], st = "PENDENTE" => status[v] = "nenhuma",
             Encerrar(p) \/ Novo(p, v, "cobrar"), UNCHANGED <<cartelas, dinheiro>>
      PROVE  IInv'
  <2>1. /\ PedidosServem' /\ pedido' \in [Pedidos -> Pedido]
        /\ status' \in [Vendas -> StatusVendaSena \cup {"nenhuma"}]
        /\ \A q \in Pedidos : pedido'[q].passo = "ocioso" <=> pedido'[q].v = Nulo
    BY <1>1, CommitServe DEF StatusVendaSena
  <2>2. TypeOK' /\ Contaveis' /\ SaldosDaSena'
    BY <1>1, <2>1 DEF IInv, TypeOK, Contaveis, SaldosDaSena, dinheiro
  <2>3. CartelasDaSena'
    BY <1>1 DEF IInv, TypeOK, CartelasDaSena, dinheiro
  <2>4. DistribuidorPrimeiro' /\ DistribuidorDaSenaUmaVez'
    BY <1>1 DEF IInv, DistribuidorPrimeiro, DistribuidorDaSenaUmaVez, dinheiro
  <2> QED
    BY <2>1, <2>2, <2>3, <2>4 DEF IInv
<1>2. ASSUME NEW v \in Vendas, CriarPendente(p, v) PROVE IInv'
  BY <1>1, <1>2 DEF CriarPendente, NinguemCria
<1>3. ASSUME Recusar(p) PROVE IInv'
  <2>1. pedido[p].v \in Vendas
    BY <1>3 DEF Recusar, IInv, PedidosServem
  <2> QED
    BY <1>1, <1>3, <2>1 DEF Recusar
<1> QED
  BY <1>2, <1>3

\* The commit of an approval pays each commission once and makes the cards.
LEMMA AprovarIInv ==
    ASSUME Instancia, IInv, NEW p \in Pedidos, Aprovar(p)
    PROVE  IInv'
<1> DEFINE v == pedido[p].v
<1>1. /\ v \in Vendas /\ Inserivel(v) /\ Encerrar(p)
      /\ status' = [status EXCEPT ![v] = "APROVADO"]
      /\ cartelas' = [cartelas EXCEPT ![v] = @ + Quantidade[v]]
      /\ Comissionar(v)
  BY DEF Aprovar, IInv, PedidosServem
<1> HIDE DEF v
<1>2. /\ status \in [Vendas -> StatusVendaSena \cup {"nenhuma"}]
      /\ cartelas \in [Vendas -> Nat] /\ Quantidade[v] \in Nat \ {0}
      /\ comissao \subseteq ComVendedor /\ comissaoDist \subseteq ComDistribuidor
      /\ v \in ComVendedor => v \notin comissao
      /\ v \in ComDistribuidor => v \notin comissaoDist
  BY <1>1 DEF IInv, TypeOK, Instancia, Inserivel
<1>3. /\ PedidosServem' /\ pedido' \in [Pedidos -> Pedido]
      /\ status' \in [Vendas -> StatusVendaSena \cup {"nenhuma"}]
      /\ \A q \in Pedidos : pedido'[q].passo = "ocioso" <=> pedido'[q].v = Nulo
  BY <1>1, CommitServe DEF StatusVendaSena
<1>4. /\ comissao' = comissao \cup ({v} \cap ComVendedor)
      /\ saldoVendedor' = saldoVendedor + Cardinality({v} \cap ComVendedor)
      /\ comissaoDist' = comissaoDist \cup ({v} \cap ComDistribuidor)
      /\ saldoDist' = saldoDist + Cardinality({v} \cap ComDistribuidor)
  BY <1>1 DEF Comissionar
<1>5. /\ IsFiniteSet(comissao') /\ saldoVendedor' = Cardinality(comissao')
      /\ IsFiniteSet(comissaoDist') /\ saldoDist' = Cardinality(comissaoDist')
  <2>1. /\ IsFiniteSet(comissao) /\ saldoVendedor = Cardinality(comissao)
        /\ IsFiniteSet(comissaoDist) /\ saldoDist = Cardinality(comissaoDist)
    BY DEF IInv, Contaveis, SaldosDaSena
  <2>2. IsFiniteSet(comissao') /\ saldoVendedor' = Cardinality(comissao')
    BY <2>1, <1>2, <1>4, CarteiraCresce
  <2>3. IsFiniteSet(comissaoDist') /\ saldoDist' = Cardinality(comissaoDist')
    BY <2>1, <1>2, <1>4, CarteiraCresce
  <2> QED
    BY <2>2, <2>3
<1>6. saldoVendedor' \in Int /\ saldoDist' \in Int
  BY <1>5, FS_CardinalityType
<1>7. TypeOK' /\ Contaveis' /\ SaldosDaSena'
  BY <1>1, <1>2, <1>3, <1>4, <1>5, <1>6 DEF TypeOK, Contaveis, SaldosDaSena
<1>8. ASSUME NEW w \in Vendas
      PROVE  /\ cartelas'[w] = IF w = v THEN cartelas[v] + Quantidade[v] ELSE cartelas[w]
             /\ status'[w] = IF w = v THEN "APROVADO" ELSE status[w]
             /\ w # v => (w \in comissao' <=> w \in comissao)
                         /\ (w \in comissaoDist' <=> w \in comissaoDist)
  BY <1>1, <1>2, <1>4
<1>9. cartelas[v] % Quantidade[v] = 0
  BY <1>1 DEF IInv, CartelasDaSena
<1>10. (cartelas[v] + Quantidade[v]) % Quantidade[v] = 0
  BY <1>1, <1>2, <1>9, Inteiras
<1>11. CartelasDaSena'
  <2> SUFFICES ASSUME NEW w \in Vendas
               PROVE  /\ status'[w] \in {"nenhuma", "PENDENTE"} =>
                            cartelas'[w] = 0 /\ w \notin comissao' \cup comissaoDist'
                      /\ status'[w] = "APROVADO" => cartelas'[w] >= Quantidade[w]
                      /\ cartelas'[w] % Quantidade[w] = 0
    BY DEF CartelasDaSena
  <2>1. CASE w = v
    BY <2>1, <1>2, <1>8, <1>10
  <2>2. CASE w # v
    BY <2>2, <1>8 DEF IInv, CartelasDaSena
  <2> QED
    BY <2>1, <2>2
<1>12. DistribuidorPrimeiro' /\ DistribuidorDaSenaUmaVez'
  <2> SUFFICES ASSUME NEW w \in ComDistribuidor
               PROVE  /\ w \notin comissaoDist' => cartelas'[w] = 0
                      /\ cartelas'[w] \in {0, Quantidade[w]}
    BY DEF DistribuidorPrimeiro, DistribuidorDaSenaUmaVez
  <2>1. CASE w = v
    BY <2>1, <1>2, <1>4, <1>8 DEF IInv, DistribuidorPrimeiro, Instancia
  <2>2. CASE w # v
    BY <2>2, <1>8 DEF IInv, DistribuidorPrimeiro, DistribuidorDaSenaUmaVez, Instancia
  <2> QED
    BY <2>1, <2>2
<1> QED
  BY <1>3, <1>7, <1>11, <1>12 DEF IInv

\* The commit of a cancellation takes back a commission that exists, and the cards it saw.
LEMMA CancelarIInv ==
    ASSUME Instancia, IInv, NEW p \in Pedidos, Cancelar(p)
    PROVE  IInv'
<1> DEFINE v == pedido[p].v
           b == pedido[p].comissao
<1>1. /\ v \in Vendas /\ Encerrar(p)
      /\ b => v \in comissao
      /\ comissao' = IF b THEN comissao \ {v} ELSE comissao
      /\ saldoVendedor' = IF b THEN saldoVendedor - 1 ELSE saldoVendedor
      /\ status' = [status EXCEPT ![v] = "CANCELADO"]
      /\ UNCHANGED <<comissaoDist, saldoDist>>
      /\ cartelas' \in {cartelas, [cartelas EXCEPT ![v] = 0]}
  BY DEF Cancelar, ComissaoAindaExiste, ApagarCartelas, IInv, PedidosServem
<1> HIDE DEF v, b
<1>2. /\ status \in [Vendas -> StatusVendaSena \cup {"nenhuma"}]
      /\ cartelas \in [Vendas -> Nat] /\ Quantidade[v] \in Nat \ {0}
      /\ comissao \subseteq ComVendedor /\ comissaoDist \subseteq ComDistribuidor
  BY <1>1 DEF IInv, TypeOK, Instancia
<1>3. /\ PedidosServem' /\ pedido' \in [Pedidos -> Pedido]
      /\ status' \in [Vendas -> StatusVendaSena \cup {"nenhuma"}]
      /\ \A q \in Pedidos : pedido'[q].passo = "ocioso" <=> pedido'[q].v = Nulo
  BY <1>1, CommitServe DEF StatusVendaSena
<1>4. /\ IsFiniteSet(comissao') /\ saldoVendedor' = Cardinality(comissao')
      /\ IsFiniteSet(comissaoDist') /\ saldoDist' = Cardinality(comissaoDist')
  <2>1. /\ IsFiniteSet(comissao) /\ saldoVendedor = Cardinality(comissao)
        /\ IsFiniteSet(comissaoDist) /\ saldoDist = Cardinality(comissaoDist)
    BY DEF IInv, Contaveis, SaldosDaSena
  <2>2. CASE b
    <3>1. v \in comissao /\ comissao' = comissao \ {v} /\ saldoVendedor' = saldoVendedor - 1
      BY <1>1, <2>2
    <3> QED
      BY <1>1, <2>1, <3>1, FS_RemoveElement
  <2>3. CASE ~b
    BY <1>1, <2>1, <2>3
  <2> QED
    BY <2>2, <2>3
<1>5. saldoVendedor' \in Int /\ saldoDist' \in Int
  BY <1>4, FS_CardinalityType
<1>6. cartelas' \in [Vendas -> Nat] /\ comissao' \subseteq comissao
  BY <1>1, <1>2
<1>7. TypeOK' /\ Contaveis' /\ SaldosDaSena'
  BY <1>1, <1>2, <1>3, <1>4, <1>5, <1>6 DEF TypeOK, Contaveis, SaldosDaSena
<1>8. ASSUME NEW w \in Vendas
      PROVE  /\ cartelas'[w] \in {cartelas[w], 0}
             /\ w # v => cartelas'[w] = cartelas[w]
             /\ status'[w] = IF w = v THEN "CANCELADO" ELSE status[w]
  BY <1>1, <1>2
<1>9. CartelasDaSena'
  <2> SUFFICES ASSUME NEW w \in Vendas
               PROVE  /\ status'[w] \in {"nenhuma", "PENDENTE"} =>
                            cartelas'[w] = 0 /\ w \notin comissao' \cup comissaoDist'
                      /\ status'[w] = "APROVADO" => cartelas'[w] >= Quantidade[w]
                      /\ cartelas'[w] % Quantidade[w] = 0
    BY DEF CartelasDaSena
  <2>1. cartelas[w] % Quantidade[w] = 0 /\ 0 % Quantidade[w] = 0
    BY Nenhuma DEF IInv, CartelasDaSena, Instancia
  <2>2. CASE w = v
    BY <2>1, <2>2, <1>8
  <2>3. CASE w # v
    BY <2>1, <2>3, <1>1, <1>6, <1>8 DEF IInv, CartelasDaSena
  <2> QED
    BY <2>2, <2>3
<1>10. DistribuidorPrimeiro' /\ DistribuidorDaSenaUmaVez'
  BY <1>1, <1>8 DEF IInv, DistribuidorPrimeiro, DistribuidorDaSenaUmaVez, Instancia
<1> QED
  BY <1>3, <1>7, <1>9, <1>10 DEF IInv

LEMMA NextIInv == ASSUME Instancia, IInv, [Next]_vars
                  PROVE  IInv'
<1>1. CASE UNCHANGED vars
  BY <1>1 DEF vars, dinheiro, IInv, TypeOK, Contaveis, PedidosServem, SaldosDaSena,
              CartelasDaSena, DistribuidorPrimeiro, DistribuidorDaSenaUmaVez
<1>2. ASSUME NEW p \in Pedidos, NEW v \in Vendas,
             CriarPendente(p, v) \/ VenderManual(p, v) \/ Confirmar(p, v) \/ IniciarCancelamento(p, v)
      PROVE  IInv'
  BY <1>2, StatusIInv, LeiturasIInv
<1>3. ASSUME NEW p \in Pedidos,
             \/ Cobrar(p) \/ FalharCobranca(p) \/ Recusar(p) \/ Aprovar(p) \/ DesfazerAprovacao(p)
             \/ LerCartelas(p) \/ LerComissao(p) \/ Cancelar(p) \/ DesfazerCancelamento(p)
             \/ Falhar(p)
      PROVE  IInv'
  BY <1>3, StatusIInv, LeiturasIInv, AprovarIInv, CancelarIInv
<1> QED
  BY <1>1, <1>2, <1>3 DEF Next

LEMMA Invariante == ASSUME Instancia
                    PROVE  Spec => []IInv
<1>1. Init => IInv
  BY InitIInv
<1>2. IInv /\ [Next]_vars => IInv'
  BY NextIInv
<1> QED
  BY <1>1, <1>2, PTL DEF Spec

--------------------------------------------------------------------------------
\* At most one request is in flight.
Sozinho ==
    \A p, q \in Pedidos : p # q => pedido[p].passo = "ocioso" \/ pedido[q].passo = "ocioso"

\* What request r holds is what the sales, the cards and the commissions still say: the sale
\* it charges or refuses waits, the one it approves waits or is not there yet, and a
\* cancellation saw the cards and the commission there are.
EmDia(r, st, ca, co) ==
    /\ r.passo \in {"cobrar", "recusar"} => st[r.v] = "PENDENTE"
    /\ r.passo = "aprovar" => st[r.v] \in {"nenhuma", "PENDENTE"}
    /\ r.passo \in {"lerComissao", "cancelar"} /\ ~r.cartelas => ca[r.v] = 0
    /\ r.passo = "cancelar" => (r.comissao <=> r.v \in co)

\* With one request at a time, failing where it may.
Serie == VendaCoerente /\ \A p \in Pedidos : EmDia(pedido[p], status, cartelas, comissao)

LEMMA InitSerie ==
    ASSUME Instancia, Init
    PROVE  Serie /\ Sozinho
<1>1. VendaCoerente
  BY DEF Init, VendaCoerente, Instancia
<1>2. ASSUME NEW p \in Pedidos PROVE pedido[p].passo = "ocioso"
  BY DEF Init, Ocioso
<1> QED
  BY <1>1, <1>2 DEF Serie, Sozinho, EmDia

\* Whoever takes a step alone leaves the others at rest: only its own request has to agree.
LEMMA SoOMeu ==
    ASSUME IInv, Sozinho, Sozinho', NEW p \in Pedidos, NEW r \in Pedido,
           pedido' = [pedido EXCEPT ![p] = r],
           pedido[p].passo # "ocioso" \/ r.passo # "ocioso",
           EmDia(r, status', cartelas', comissao'), VendaCoerente'
    PROVE  Serie'
<1>1. pedido \in [Pedidos -> Pedido]
  BY DEF IInv, TypeOK
<1>2. ASSUME NEW q \in Pedidos PROVE EmDia(pedido'[q], status', cartelas', comissao')
  <2>1. CASE q = p
    BY <1>1, <2>1
  <2>2. CASE q # p
    <3>1. pedido'[q] = pedido[q] /\ pedido'[p] = r
      BY <1>1, <2>2
    <3>2. pedido'[q].passo = "ocioso"
      BY <2>2, <3>1 DEF Sozinho
    <3> QED
      BY <3>2 DEF EmDia
  <2> QED
    BY <2>1, <2>2
<1> QED
  BY <1>2 DEF Serie

\* A request that ends, or that has read and writes nothing yet.
LEMMA LeiturasSerie ==
    ASSUME Instancia, IInv, Serie, Sozinho, Sozinho', NEW p \in Pedidos
    PROVE  /\ Cobrar(p) \/ FalharCobranca(p) \/ DesfazerAprovacao(p) => Serie'
           /\ LerCartelas(p) \/ LerComissao(p) \/ DesfazerCancelamento(p) \/ Falhar(p) => Serie'
           /\ \A v \in Vendas : VenderManual(p, v) \/ Confirmar(p, v) \/ IniciarCancelamento(p, v)
                 => Serie'
<1>1. /\ pedido \in [Pedidos -> Pedido] /\ pedido[p] \in Pedido
      /\ pedido[p].passo # "ocioso" => pedido[p].v \in Vendas
      /\ cartelas \in [Vendas -> Nat]
      /\ EmDia(pedido[p], status, cartelas, comissao)
  BY DEF IInv, TypeOK, PedidosServem, Serie
<1>2. UNCHANGED <<status, cartelas, dinheiro>> => VendaCoerente'
  BY DEF Serie, VendaCoerente, dinheiro
<1>3. ASSUME pedido[p].passo # "ocioso", Encerrar(p), UNCHANGED <<status, cartelas, dinheiro>>
      PROVE  Serie'
  BY <1>2, <1>3, Repouso, SoOMeu DEF Encerrar, EmDia
<1>4. ASSUME FalharCobranca(p) PROVE Serie'
  <2> DEFINE r == [pedido[p] EXCEPT !.passo = "recusar"]
  <2>1. pedido' = [pedido EXCEPT ![p] = r] /\ UNCHANGED <<status, cartelas, dinheiro>>
    BY <1>1, <1>4 DEF FalharCobranca
  <2>2. r \in Pedido /\ r.passo = "recusar" /\ status[r.v] = "PENDENTE"
    BY <1>1, <1>4 DEF FalharCobranca, Pedido, Passos, EmDia
  <2> HIDE DEF r
  <2>3. EmDia(r, status', cartelas', comissao')
    BY <2>1, <2>2 DEF EmDia
  <2> QED
    BY <1>2, <2>1, <2>2, <2>3, SoOMeu
<1>5. ASSUME LerCartelas(p) PROVE Serie'
  <2>1. PICK b \in BOOLEAN : b = (cartelas[pedido[p].v] > 0)
    BY Booleano
  <2> DEFINE r == [pedido[p] EXCEPT !.passo = "lerComissao", !.cartelas = b]
  <2>2. pedido' = [pedido EXCEPT ![p] = r] /\ UNCHANGED <<status, cartelas, dinheiro>>
    BY <1>1, <1>5, <2>1 DEF LerCartelas
  <2>3. r \in Pedido /\ r.passo = "lerComissao" /\ r.v = pedido[p].v /\ r.cartelas = b
        /\ r.v \in Vendas
    BY <1>1, <1>5 DEF LerCartelas, Pedido, Passos
  <2> HIDE DEF r
  <2>4. ASSUME ~r.cartelas PROVE cartelas[r.v] = 0
    <3>1. ~b
      BY <2>3, <2>4
    <3>2. ~(cartelas[pedido[p].v] > 0)
      BY <2>1, <3>1
    <3> QED
      BY <1>1, <2>3, <3>2
  <2>5. EmDia(r, status', cartelas', comissao')
    BY <2>2, <2>3, <2>4 DEF EmDia
  <2> QED
    BY <1>2, <2>2, <2>3, <2>5, SoOMeu
<1>6. ASSUME LerComissao(p) PROVE Serie'
  <2>1. PICK b \in BOOLEAN : b = (pedido[p].v \in comissao)
    BY Booleano
  <2> DEFINE r == [pedido[p] EXCEPT !.passo = "cancelar", !.comissao = b]
  <2>2. pedido' = [pedido EXCEPT ![p] = r] /\ UNCHANGED <<status, cartelas, dinheiro>>
    BY <1>1, <1>6, <2>1 DEF LerComissao
  <2>3. /\ r \in Pedido /\ r.passo = "cancelar" /\ r.v = pedido[p].v
        /\ r.comissao = b /\ r.cartelas = pedido[p].cartelas
        /\ pedido[p].passo = "lerComissao"
    BY <1>1, <1>6 DEF LerComissao, Pedido, Passos
  <2> HIDE DEF r
  <2>4. ~r.cartelas => cartelas[r.v] = 0
    BY <1>1, <2>3 DEF EmDia
  <2>5. EmDia(r, status', cartelas', comissao')
    BY <2>1, <2>2, <2>3, <2>4 DEF EmDia, dinheiro
  <2> QED
    BY <1>2, <2>2, <2>3, <2>5, SoOMeu
<1>7. ASSUME NEW v \in Vendas, VenderManual(p, v) \/ Confirmar(p, v) \/ IniciarCancelamento(p, v)
      PROVE  Serie'
  <2>1. PICK passo \in {"aprovar", "lerCartelas"} :
            /\ Novo(p, v, passo) /\ UNCHANGED <<status, cartelas, dinheiro>>
            /\ passo = "aprovar" => status[v] \in {"nenhuma", "PENDENTE"}
    BY <1>7 DEF VenderManual, Confirmar, IniciarCancelamento, NinguemCria
  <2> DEFINE r == [Ocioso EXCEPT !.passo = passo, !.v = v]
  <2>2. r \in Pedido /\ r.passo = passo /\ r.v = v
    BY DEF Ocioso, Pedido, Passos
  <2>3. pedido' = [pedido EXCEPT ![p] = r]
    BY <2>1 DEF Novo
  <2> HIDE DEF r
  <2>4. EmDia(r, status', cartelas', comissao')
    BY <2>1, <2>2 DEF EmDia
  <2> QED
    BY <1>2, <2>1, <2>2, <2>3, <2>4, SoOMeu
<1> QED
  BY <1>3, <1>4, <1>5, <1>6, <1>7
     DEF Cobrar, DesfazerAprovacao, DesfazerCancelamento, Falhar

\* A sale is made waiting, or refused while it waits.
LEMMA StatusSerie ==
    ASSUME Instancia, IInv, Serie, Sozinho, Sozinho', NEW p \in Pedidos
    PROVE  /\ \A v \in Vendas : CriarPendente(p, v) => Serie'
           /\ Recusar(p) => Serie'
<1>1. status \in [Vendas -> StatusVendaSena \cup {"nenhuma"}]
  BY DEF IInv, TypeOK
<1>2. ASSUME NEW v \in Vendas, NEW st \in {"PENDENTE", "RECUSADO"},
             status' = [status EXCEPT ![v] = st], status[v] \in {"nenhuma", "PENDENTE"},
             UNCHANGED <<cartelas, dinheiro>>
      PROVE  VendaCoerente'
  BY <1>1, <1>2 DEF Serie, VendaCoerente, dinheiro
<1>3. ASSUME NEW v \in Vendas, CriarPendente(p, v) PROVE Serie'
  <2> DEFINE r == [Ocioso EXCEPT !.passo = "cobrar", !.v = v]
  <2>1. r \in Pedido /\ r.passo = "cobrar" /\ r.v = v
    BY DEF Ocioso, Pedido, Passos
  <2>2. pedido' = [pedido EXCEPT ![p] = r] /\ status'[v] = "PENDENTE"
    BY <1>1, <1>3 DEF CriarPendente, Novo
  <2> HIDE DEF r
  <2>3. VendaCoerente'
    BY <1>2, <1>3 DEF CriarPendente, NinguemCria
  <2>4. EmDia(r, status', cartelas', comissao')
    BY <2>1, <2>2 DEF EmDia
  <2> QED
    BY <2>1, <2>2, <2>3, <2>4, SoOMeu
<1>4. ASSUME Recusar(p) PROVE Serie'
  <2>1. pedido[p].v \in Vendas /\ status[pedido[p].v] = "PENDENTE"
    BY <1>4 DEF Recusar, IInv, PedidosServem, Serie, EmDia
  <2>2. VendaCoerente'
    BY <1>2, <1>4, <2>1 DEF Recusar
  <2> QED
    BY <1>4, <2>2, Repouso, SoOMeu DEF Recusar, Encerrar, EmDia
<1> QED
  BY <1>3, <1>4

\* An approval makes the cards of a sale that had none.
LEMMA AprovarSerie ==
    ASSUME Instancia, IInv, Serie, Sozinho, Sozinho', NEW p \in Pedidos, Aprovar(p)
    PROVE  Serie'
<1> DEFINE v == pedido[p].v
<1>1. /\ v \in Vendas /\ pedido[p].passo = "aprovar" /\ status[v] \in {"nenhuma", "PENDENTE"}
      /\ status' = [status EXCEPT ![v] = "APROVADO"]
      /\ cartelas' = [cartelas EXCEPT ![v] = @ + Quantidade[v]]
      /\ comissao' = comissao \cup ({v} \cap ComVendedor) /\ Encerrar(p)
  BY DEF Aprovar, Comissionar, IInv, PedidosServem, Serie, EmDia
<1> HIDE DEF v
<1>2. /\ status \in [Vendas -> StatusVendaSena \cup {"nenhuma"}]
      /\ cartelas \in [Vendas -> Nat] /\ Quantidade[v] \in Nat
  BY <1>1 DEF IInv, TypeOK, Instancia
<1>3. ASSUME NEW w \in Vendas
      PROVE  /\ cartelas'[w] = IF status'[w] = "APROVADO" THEN Quantidade[w] ELSE 0
             /\ w \in comissao' <=> status'[w] = "APROVADO" /\ w \in ComVendedor
  <2>1. CASE w = v
    <3>1. cartelas[v] = 0 /\ status'[v] = "APROVADO" /\ cartelas'[v] = cartelas[v] + Quantidade[v]
      BY <1>1, <1>2 DEF Serie, VendaCoerente
    <3>2. cartelas'[v] = Quantidade[v]
      BY <1>2, <3>1
    <3>3. v \in comissao' <=> v \in ComVendedor
      BY <1>1 DEF Serie, VendaCoerente
    <3> QED
      BY <2>1, <3>1, <3>2, <3>3
  <2>2. CASE w # v
    BY <1>1, <1>2, <2>2 DEF Serie, VendaCoerente
  <2> QED
    BY <2>1, <2>2
<1>4. VendaCoerente'
  BY <1>3 DEF VendaCoerente
<1> QED
  BY <1>1, <1>4, Repouso, SoOMeu DEF Encerrar, EmDia

\* A cancellation removes the cards and the commission it saw, which are those there are.
LEMMA CancelarSerie ==
    ASSUME Instancia, IInv, Serie, Sozinho, Sozinho', NEW p \in Pedidos, Cancelar(p)
    PROVE  Serie'
<1> DEFINE v == pedido[p].v
<1>1. /\ v \in Vendas /\ pedido[p].passo = "cancelar" /\ Encerrar(p)
      /\ status' = [status EXCEPT ![v] = "CANCELADO"]
      /\ cartelas' = IF pedido[p].cartelas THEN [cartelas EXCEPT ![v] = 0] ELSE cartelas
      /\ comissao' = IF pedido[p].comissao THEN comissao \ {v} ELSE comissao
      /\ ~pedido[p].cartelas => cartelas[v] = 0
      /\ pedido[p].comissao <=> v \in comissao
  BY DEF Cancelar, ApagarCartelas, IInv, PedidosServem, Serie, EmDia
<1> HIDE DEF v
<1>2. /\ status \in [Vendas -> StatusVendaSena \cup {"nenhuma"}]
      /\ cartelas \in [Vendas -> Nat]
  BY DEF IInv, TypeOK
<1>3. /\ cartelas' = [cartelas EXCEPT ![v] = 0]
      /\ comissao' = comissao \ {v}
  <2>1. cartelas' = [cartelas EXCEPT ![v] = 0]
    BY <1>1, <1>2
  <2>2. comissao' = comissao \ {v}
    <3>1. CASE v \in comissao
      BY <1>1, <3>1
    <3>2. CASE v \notin comissao
      BY <1>1, <3>2
    <3> QED
      BY <3>1, <3>2
  <2> QED
    BY <2>1, <2>2
<1>4. ASSUME NEW w \in Vendas
      PROVE  /\ cartelas'[w] = IF status'[w] = "APROVADO" THEN Quantidade[w] ELSE 0
             /\ w \in comissao' <=> status'[w] = "APROVADO" /\ w \in ComVendedor
  BY <1>1, <1>2, <1>3 DEF Serie, VendaCoerente
<1>5. VendaCoerente'
  BY <1>4 DEF VendaCoerente
<1> QED
  BY <1>1, <1>5, Repouso, SoOMeu DEF Encerrar, EmDia

\* One request at a time, before a step and after it, keeps each sale coherent.
LEMMA NextSerie ==
    ASSUME Instancia, IInv, Serie, Sozinho, Sozinho', Next
    PROVE  Serie'
<1>1. ASSUME NEW p \in Pedidos, NEW v \in Vendas,
             CriarPendente(p, v) \/ VenderManual(p, v) \/ Confirmar(p, v) \/ IniciarCancelamento(p, v)
      PROVE  Serie'
  BY <1>1, StatusSerie, LeiturasSerie
<1>2. ASSUME NEW p \in Pedidos,
             \/ Cobrar(p) \/ FalharCobranca(p) \/ Recusar(p) \/ Aprovar(p) \/ DesfazerAprovacao(p)
             \/ LerCartelas(p) \/ LerComissao(p) \/ Cancelar(p) \/ DesfazerCancelamento(p)
             \/ Falhar(p)
      PROVE  Serie'
  BY <1>2, StatusSerie, LeiturasSerie, AprovarSerie, CancelarSerie
<1> QED
  BY <1>1, <1>2 DEF Next

--------------------------------------------------------------------------------
\* The wallets of seller and distributor are the commissions that exist, at every commit.
THEOREM CarteirasDaSena == ASSUME Instancia
                           PROVE  Spec => []SaldosDaSena
<1>1. IInv => SaldosDaSena
  BY DEF IInv
<1> QED
  BY <1>1, Invariante, PTL

\* A sale that waits has no card and pays nobody, an approved one has its cards, and no
\* part of them ever exists.
THEOREM CartelasInteiras == ASSUME Instancia
                            PROVE  Spec => [](TypeOK /\ CartelasDaSena)
<1>1. IInv => TypeOK /\ CartelasDaSena
  BY DEF IInv
<1> QED
  BY <1>1, Invariante, PTL

\* A sale that pays its distributor makes its cards once at most.
THEOREM SenaMaterializaUmaVez == ASSUME Instancia
                                 PROVE  Spec => []DistribuidorDaSenaUmaVez
<1>1. IInv => DistribuidorDaSenaUmaVez
  BY DEF IInv
<1> QED
  BY <1>1, Invariante, PTL

================================================================================
