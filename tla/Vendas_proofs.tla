---------------------------- MODULE Vendas_proofs ----------------------------
(***************************************************************************)
(* Safety of the sales for any number of sales, numbers, requests and jobs *)
(* in flight: a number has one buyer, the wallets equal the commissions,   *)
(* and every step is a step of the catalogue of numbers.                   *)
(***************************************************************************)
EXTENDS Produtos, FiniteSetTheorems, TLAPS

\* A request that is not at rest serves a sale, and one that is about to commit
\* an approval holds as many numbers of the edition as the sale bought.
PedidoServe ==
    \A p \in Atores :
        /\ pedido[p].passo # "ocioso" => pedido[p].v \in Vendas
        /\ pedido[p].passo = "aprovar" =>
              Cardinality(pedido[p].nums) = Quantidade[pedido[p].v]

\* The commissions that exist are finitely many, so that they can be counted.
ComissoesFinitas == IsFiniteSet(comissao) /\ IsFiniteSet(comissaoDist)

Tipado == TypeOK /\ PedidoServe

IInv ==
    /\ Tipado
    /\ NumeroVendidoUmaVez
    /\ ComissoesFinitas
    /\ SaldosConferem
-----------------------------------------------------------------------------
(* Types. *)

\* A request that starts on sale v, or goes on, or ends, keeps its type.
LEMMA NovoTipado ==
    ASSUME Tipado, NEW p \in Atores, NEW v \in Vendas,
           NEW passo \in Passos \ {"aprovar"}, Novo(p, v, passo)
    PROVE  pedido' \in [Atores -> Pedido] /\ PedidoServe'
BY VendasAssumption DEF Tipado, TypeOK, PedidoServe, Novo, Pedido, Passos, Ocioso

LEMMA SeguirTipado ==
    ASSUME Tipado, NEW p \in Atores, pedido[p].passo # "ocioso",
           NEW passo \in Passos \ {"ocioso", "aprovar"}, Seguir(p, passo)
    PROVE  pedido' \in [Atores -> Pedido] /\ PedidoServe'
BY DEF Tipado, TypeOK, PedidoServe, Seguir, Pedido, Passos

LEMMA EncerrarTipado ==
    ASSUME Tipado, NEW p \in Atores, Encerrar(p)
    PROVE  pedido' \in [Atores -> Pedido] /\ PedidoServe'
BY DEF Tipado, TypeOK, PedidoServe, Encerrar, Pedido, Passos, Ocioso

\* The numbers an approval finds are free numbers of the edition.
LEMMA NumerosLivres ==
    ASSUME NEW v \in Vendas PROVE NumerosPara(v) \subseteq Livres
BY DEF NumerosPara, Primeiros

LEMMA InitTipado == Init => Tipado
<1> SUFFICES ASSUME Init PROVE Tipado
  OBVIOUS
<1>1. Ocioso \in Pedido /\ Ocioso.passo = "ocioso"
  BY DEF Ocioso, Pedido, Passos
<1>2. TypeOK
  BY <1>1 DEF Init, TypeOK
<1>3. PedidoServe
  BY <1>1 DEF Init, PedidoServe
<1> QED
  BY <1>2, <1>3 DEF Tipado

\* The rows an approval or a cancellation writes have their type.
LEMMA ComissionarTipado ==
    ASSUME TypeOK, NEW v \in Vendas, Comissionar(v)
    PROVE  /\ comissao' \subseteq ComVendedor /\ comissaoDist' \subseteq ComDistribuidor
           /\ saldoVendedor' \in Int /\ saldoDist' \in Int
<1>1. Cardinality({v} \cap ComVendedor) \in Int /\ Cardinality({v} \cap ComDistribuidor) \in Int
  <2>1. IsFiniteSet({v} \cap ComVendedor) /\ IsFiniteSet({v} \cap ComDistribuidor)
    BY FS_Singleton, FS_Subset
  <2> QED
    BY <2>1, FS_CardinalityType
<1> QED
  BY <1>1 DEF TypeOK, Comissionar

\* Every step keeps the types and what requests carry.
LEMMA TipoMantido == Tipado /\ [Next]_vars => Tipado'
<1> SUFFICES ASSUME Tipado, [Next]_vars PROVE Tipado'
  OBVIOUS
<1> USE VendasAssumption DEF Atores
<1>0. TypeOK /\ PedidoServe
  BY DEF Tipado
<1>1. ASSUME NEW v \in Vendas, Pagar(v) \/ Vencer(v) PROVE Tipado'
  BY <1>0, <1>1 DEF Pagar, Vencer, banco, dinheiro, Tipado, TypeOK, PedidoServe
<1>2. ASSUME NEW p \in Pedidos, Prosseguir(p) PROVE Tipado'
  <2>1. CASE Cobrar(p)
    <3>1. pedido' \in [Atores -> Pedido] /\ PedidoServe'
      BY <2>1, SeguirTipado DEF Cobrar, Passos
    <3> QED
      BY <1>0, <2>1, <3>1 DEF Cobrar, banco, dinheiro, Tipado, TypeOK
  <2>2. CASE FalharCobranca(p)
    <3>1. pedido' \in [Atores -> Pedido] /\ PedidoServe'
      BY <2>2, SeguirTipado DEF FalharCobranca, Passos
    <3> QED
      BY <1>0, <2>2, <3>1 DEF FalharCobranca, banco, dinheiro, Tipado, TypeOK
  <2>3. CASE GravarCobranca(p) \/ RecusarSemCobranca(p) \/ ManterPendente(p)
               \/ DesfazerCancelamento(p) \/ Recusar(p)
    <3>1. pedido' \in [Atores -> Pedido] /\ PedidoServe'
      BY <2>3, EncerrarTipado
         DEF GravarCobranca, RecusarSemCobranca, ManterPendente, DesfazerCancelamento, Recusar
    <3>2. pedido[p].v \in Vendas
      BY <1>0, <2>3 DEF PedidoServe, GravarCobranca, RecusarSemCobranca, ManterPendente,
                        DesfazerCancelamento, Recusar
    <3> QED
      BY <1>0, <2>3, <3>1, <3>2
         DEF GravarCobranca, RecusarSemCobranca, ManterPendente, DesfazerCancelamento, Recusar,
             banco, dinheiro, Tipado, TypeOK, StatusVenda
  <2>4. CASE LerBilhetes(p) \/ LerComissao(p)
    <3>1. pedido' \in [Atores -> Pedido] /\ PedidoServe'
      <4>1. CASE LerBilhetes(p)
        <5>1. PICK viu \in BOOLEAN : viu = (BilhetesDe(pedido[p].v) # {})
          <6>1. CASE BilhetesDe(pedido[p].v) # {}
            <7>1. (BilhetesDe(pedido[p].v) # {}) = TRUE
              BY <6>1, Zenon
            <7> QED
              BY <7>1, Zenon
          <6>2. CASE ~(BilhetesDe(pedido[p].v) # {})
            <7>1. (BilhetesDe(pedido[p].v) # {}) = FALSE
              BY <6>2, Zenon
            <7> QED
              BY <7>1, Zenon
          <6> QED
            BY <6>1, <6>2
        <5>2. pedido[p].passo = "lerBilhetes"
              /\ pedido' = [pedido EXCEPT ![p].passo = "lerComissao", ![p].bilhetes = viu]
          BY <4>1, <5>1, Zenon DEF LerBilhetes
        <5>3. PICK r \in Pedido : r = pedido[p] /\ r.v \in Vendas
          BY <1>0, <5>2 DEF TypeOK, PedidoServe
        <5> DEFINE novo == [r EXCEPT !.passo = "lerComissao", !.bilhetes = viu]
        <5>4. pedido' = [pedido EXCEPT ![p] = novo]
          BY <1>0, <5>2, <5>3 DEF TypeOK
        <5>5. novo \in Pedido /\ novo.passo = "lerComissao" /\ novo.v \in Vendas
          <6>1. "lerComissao" \in Passos
            BY DEF Passos
          <6>2. r.v \in Vendas
            BY <5>3
          <6> QED
            BY ONLY r \in Pedido, viu \in BOOLEAN, <6>1, <6>2 DEF Pedido
        <5> HIDE DEF novo
        <5> QED
          BY <1>0, <5>4, <5>5 DEF TypeOK, PedidoServe
      <4>2. CASE LerComissao(p)
        <5>1. PICK viu \in BOOLEAN : viu = (pedido[p].v \in comissao)
          <6>1. CASE pedido[p].v \in comissao
            <7>1. (pedido[p].v \in comissao) = TRUE
              BY <6>1, Zenon
            <7> QED
              BY <7>1, Zenon
          <6>2. CASE pedido[p].v \notin comissao
            <7>1. (pedido[p].v \in comissao) = FALSE
              BY <6>2
            <7> QED
              BY <7>1, Zenon
          <6> QED
            BY <6>1, <6>2
        <5>2. pedido[p].passo = "lerComissao"
              /\ pedido' = [pedido EXCEPT ![p].passo = "cancelar", ![p].comissao = viu]
          BY <4>2, <5>1, Zenon DEF LerComissao
        <5>3. PICK r \in Pedido : r = pedido[p] /\ r.v \in Vendas
          BY <1>0, <5>2 DEF TypeOK, PedidoServe
        <5> DEFINE novo == [r EXCEPT !.passo = "cancelar", !.comissao = viu]
        <5>4. pedido' = [pedido EXCEPT ![p] = novo]
          BY <1>0, <5>2, <5>3 DEF TypeOK
        <5>5. novo \in Pedido /\ novo.passo = "cancelar" /\ novo.v \in Vendas
          <6>1. "cancelar" \in Passos
            BY DEF Passos
          <6>2. r.v \in Vendas
            BY <5>3
          <6> QED
            BY ONLY r \in Pedido, viu \in BOOLEAN, <6>1, <6>2 DEF Pedido
        <5> HIDE DEF novo
        <5> QED
          BY <1>0, <5>4, <5>5 DEF TypeOK, PedidoServe
      <4> QED
        BY <2>4, <4>1, <4>2
    <3> QED
      BY <1>0, <2>4, <3>1 DEF LerBilhetes, LerComissao, banco, dinheiro, Tipado, TypeOK
  <2>5. CASE Cancelar(p)
    <3>1. pedido' \in [Atores -> Pedido] /\ PedidoServe'
      BY <2>5, EncerrarTipado DEF Cancelar
    <3>2. cobranca' \in [Vendas -> {"inexistente", "aberta", "paga", "cancelada"}]
      BY <1>0, <2>5 DEF Cancelar, CobrancaAposCancelar, TypeOK
    <3>3. /\ comissao' \subseteq ComVendedor /\ comissaoDist' \subseteq ComDistribuidor
          /\ saldoVendedor' \in Int /\ saldoDist' \in Int
      BY <1>0, <2>5 DEF Cancelar, ReverterComissao, TypeOK
    <3>4. bilhetes' \subseteq Numeros \X Vendas
          /\ status' \in [Vendas -> StatusVenda \cup {"nenhuma"}]
      BY <1>0, <2>5 DEF Cancelar, TypeOK, StatusVenda
    <3> QED
      BY <1>0, <2>5, <3>1, <3>2, <3>3, <3>4 DEF Cancelar, Tipado, TypeOK
  <2> QED
    BY <1>2, <2>1, <2>2, <2>3, <2>4, <2>5 DEF Prosseguir
<1>3. ASSUME NEW p \in Pedidos, Falhar(p) PROVE Tipado'
  <2>1. pedido' \in [Atores -> Pedido] /\ PedidoServe'
    BY <1>3, EncerrarTipado, SeguirTipado DEF Falhar, Passos
  <2>2. cobranca' \in [Vendas -> {"inexistente", "aberta", "paga", "cancelada"}]
    BY <1>0, <1>3 DEF Falhar, CobrancaAposCancelar, TypeOK
  <2> QED
    BY <1>0, <1>3, <2>1, <2>2 DEF Falhar, banco, dinheiro, Tipado, TypeOK
<1>4. ASSUME NEW p \in Pedidos, NEW v \in Vendas, Iniciar(p, v) PROVE Tipado'
  <2>1. CASE IniciarCancelamento(p, v)
    <3>1. pedido' \in [Atores -> Pedido] /\ PedidoServe'
      <4> DEFINE viu == v \in comGatewayId
                 novo == [Ocioso EXCEPT !.passo = "lerBilhetes", !.v = v, !.gatewayId = viu]
      <4>1. viu \in BOOLEAN
        OBVIOUS
      <4>2. pedido' = [pedido EXCEPT ![p] = novo]
        BY <2>1, Zenon DEF IniciarCancelamento
      <4> HIDE DEF viu
      <4>3. novo \in Pedido /\ novo.passo = "lerBilhetes" /\ novo.v = v
        BY <4>1 DEF Pedido, Passos, Ocioso
      <4> HIDE DEF novo
      <4> QED
        BY <1>0, <4>2, <4>3 DEF TypeOK, PedidoServe
    <3> QED
      BY <1>0, <2>1, <3>1 DEF IniciarCancelamento, banco, dinheiro, Tipado, TypeOK
  <2>2. CASE CriarPendente(p, v)
    <3>1. pedido' \in [Atores -> Pedido] /\ PedidoServe'
      BY <2>2, NovoTipado DEF CriarPendente, Passos
    <3> QED
      BY <1>0, <2>2, <3>1 DEF CriarPendente, dinheiro, Tipado, TypeOK, StatusVenda
  <2>3. CASE VenderManual(p, v) \/ Confirmar(p, v) \/ ConsultarPagamento(p, v)
               \/ IniciarRecusa(p, v)
    <3>1. pedido' \in [Atores -> Pedido] /\ PedidoServe'
      BY <2>3, NovoTipado DEF VenderManual, Confirmar, ConsultarPagamento, IniciarRecusa, Passos
    <3> QED
      BY <1>0, <2>3, <3>1 DEF VenderManual, Confirmar, ConsultarPagamento, IniciarRecusa,
                              banco, dinheiro, Tipado, TypeOK
  <2> QED
    BY <1>4, <2>1, <2>2, <2>3 DEF Iniciar
<1>5. ASSUME NEW p \in Atores, Processar(p) PROVE Tipado'
  <2>1. CASE LerParaConfirmar(p)
    <3>1. pedido' \in [Atores -> Pedido] /\ PedidoServe'
      BY <2>1, SeguirTipado DEF LerParaConfirmar, Passos
    <3> QED
      BY <1>0, <2>1, <3>1 DEF LerParaConfirmar, banco, dinheiro, Tipado, TypeOK
  <2>2. CASE Conflito(p) \/ FaltarEstoque(p) \/ DesfazerAprovacao(p)
    <3>1. pedido' \in [Atores -> Pedido] /\ PedidoServe'
      BY <2>2, EncerrarTipado DEF Conflito, FaltarEstoque, DesfazerAprovacao
    <3> QED
      BY <1>0, <2>2, <3>1 DEF Conflito, FaltarEstoque, DesfazerAprovacao, banco, dinheiro,
                              Tipado, TypeOK
  <2>3. CASE Alocar(p)
    <3>1. pedido[p].v \in Vendas
      BY <1>0, <2>3 DEF Alocar, PedidoServe
    <3>2. NumerosPara(pedido[p].v) \in SUBSET Numeros
      BY <3>1, NumerosLivres DEF Livres
    <3>3. pedido' \in [Atores -> Pedido]
      BY <1>0, <2>3, <3>2 DEF Alocar, TypeOK, Pedido, Passos
    <3>4. PedidoServe'
      BY <1>0, <2>3, <3>1 DEF Alocar, HaEstoque, TypeOK, PedidoServe, Pedido
    <3> QED
      BY <1>0, <2>3, <3>3, <3>4 DEF Alocar, banco, dinheiro, Tipado, TypeOK
  <2>4. CASE Aprovar(p)
    <3>1. pedido[p].v \in Vendas /\ pedido[p].nums \in SUBSET Numeros
      BY <1>0, <2>4 DEF Aprovar, PedidoServe, TypeOK, Pedido
    <3>2. pedido' \in [Atores -> Pedido] /\ PedidoServe'
      BY <2>4, EncerrarTipado DEF Aprovar
    <3>3. /\ comissao' \subseteq ComVendedor /\ comissaoDist' \subseteq ComDistribuidor
          /\ saldoVendedor' \in Int /\ saldoDist' \in Int
      BY <1>0, <2>4, <3>1, ComissionarTipado DEF Aprovar
    <3>4. bilhetes' \subseteq Numeros \X Vendas
          /\ status' \in [Vendas -> StatusVenda \cup {"nenhuma"}]
      BY <1>0, <2>4, <3>1 DEF Aprovar, TypeOK, StatusVenda
    <3> QED
      BY <1>0, <2>4, <3>2, <3>3, <3>4 DEF Aprovar, Tipado, TypeOK
  <2> QED
    BY <1>5, <2>1, <2>2, <2>3, <2>4 DEF Processar
<1>6. ASSUME NEW j \in Jobs, Reconciliar(j) PROVE Tipado'
  <2>1. CASE MontarLote(j)
    <3>1. lote' \in [Jobs -> SUBSET VendasPos]
      BY <1>0, <2>1 DEF MontarLote, TypeOK
    <3> QED
      BY <1>0, <2>1, <3>1 DEF MontarLote, banco, dinheiro, Tipado, TypeOK, PedidoServe
  <2>2. ASSUME NEW v \in Vendas, Visitar(j, v) PROVE Tipado'
    <3>1. pedido' \in [Atores -> Pedido] /\ PedidoServe'
      <4>1. CASE Novo(j, v, "confirmar")
        BY <4>1, NovoTipado DEF Passos
      <4>2. CASE UNCHANGED pedido
        BY <1>0, <4>2 DEF TypeOK, PedidoServe
      <4> QED
        BY <2>2, <4>1, <4>2 DEF Visitar
    <3>2. lote' \in [Jobs -> SUBSET VendasPos]
      BY <1>0, <2>2 DEF Visitar, TypeOK
    <3> QED
      BY <1>0, <2>2, <3>1, <3>2 DEF Visitar, banco, dinheiro, Tipado, TypeOK
  <2> QED
    BY <1>6, <2>1, <2>2 DEF Reconciliar
<1>7. CASE UNCHANGED vars
  BY <1>0, <1>7 DEF vars, banco, dinheiro, Tipado, TypeOK, PedidoServe
<1> QED
  BY <1>1, <1>2, <1>3, <1>4, <1>5, <1>6, <1>7 DEF Next
-----------------------------------------------------------------------------
(* Numbers and wallets. *)

\* Only a commit adds tickets, of numbers that were free: no number gets a
\* second sale.
LEMMA NumeroMantido ==
    Tipado /\ NumeroVendidoUmaVez /\ [Next]_vars => NumeroVendidoUmaVez'
<1> SUFFICES ASSUME Tipado, NumeroVendidoUmaVez, [Next]_vars PROVE NumeroVendidoUmaVez'
  OBVIOUS
<1>1. CASE \E p \in Atores : Aprovar(p)
  <2>1. PICK p \in Atores : Aprovar(p)
    BY <1>1
  <2>2. pedido[p].nums \subseteq Livres /\ pedido[p].v \in Vendas
    BY <2>1 DEF Aprovar, Inserivel, Tipado, PedidoServe
  <2>3. bilhetes' = bilhetes \cup (pedido[p].nums \X {pedido[p].v})
    BY <2>1 DEF Aprovar
  <2> QED
    BY <2>2, <2>3 DEF NumeroVendidoUmaVez, Livres
<1>2. CASE bilhetes' \subseteq bilhetes
  BY <1>2 DEF NumeroVendidoUmaVez
<1> QED
  <2>1. (\E p \in Atores : Aprovar(p)) \/ bilhetes' \subseteq bilhetes
    BY DEF Next, vars, banco, Pagar, Vencer, Prosseguir, Cobrar, FalharCobranca, GravarCobranca,
           RecusarSemCobranca, ManterPendente, LerBilhetes, LerComissao, Cancelar,
           DesfazerCancelamento, Recusar, Falhar, Iniciar, CriarPendente, VenderManual,
           Confirmar, ConsultarPagamento, IniciarCancelamento, IniciarRecusa, Processar,
           LerParaConfirmar, Conflito, Alocar, FaltarEstoque, DesfazerAprovacao, Reconciliar,
           MontarLote, Visitar
  <2> QED
    BY <2>1, <1>1, <1>2

\* A wallet that gets one unit for each commission that is created is right.
LEMMA CarteiraCresce ==
    ASSUME NEW S, IsFiniteSet(S), NEW T, NEW v, v \in T => v \notin S,
           NEW saldo, saldo = Cardinality(S)
    PROVE  /\ IsFiniteSet(S \cup ({v} \cap T))
           /\ saldo + Cardinality({v} \cap T) = Cardinality(S \cup ({v} \cap T))
<1>1. CASE v \in T
  <2>1. {v} \cap T = {v} /\ Cardinality({v}) = 1
    BY <1>1, FS_Singleton
  <2> QED
    BY <1>1, <2>1, FS_AddElement
<1>2. CASE v \notin T
  <2>1. {v} \cap T = {} /\ S \cup ({v} \cap T) = S
    BY <1>2
  <2>2. Cardinality({v} \cap T) = 0 /\ Cardinality(S) \in Nat
    BY <2>1, FS_EmptySet, FS_CardinalityType
  <2>3. saldo + Cardinality({v} \cap T) = Cardinality(S)
    BY <2>2
  <2> QED
    BY <2>1, <2>3
<1> QED
  BY <1>1, <1>2

\* An approval that the unique indexes accept pays each commission once; a
\* cancellation takes back one that exists.
LEMMA SaldosMantidos ==
    Tipado /\ ComissoesFinitas /\ SaldosConferem /\ [Next]_vars
        => ComissoesFinitas' /\ SaldosConferem'
<1> SUFFICES ASSUME Tipado, ComissoesFinitas, SaldosConferem, [Next]_vars
             PROVE ComissoesFinitas' /\ SaldosConferem'
  OBVIOUS
<1> USE DEF ComissoesFinitas, SaldosConferem
<1>1. CASE \E p \in Atores : Aprovar(p)
  <2>1. PICK p \in Atores : Aprovar(p)
    BY <1>1
  <2> DEFINE v == pedido[p].v
  <2>2. v \in ComVendedor => v \notin comissao
    BY <2>1 DEF Aprovar, Inserivel
  <2>3. v \in ComDistribuidor => v \notin comissaoDist
    BY <2>1 DEF Aprovar, Inserivel
  <2>4. /\ comissao' = comissao \cup ({v} \cap ComVendedor)
        /\ saldoVendedor' = saldoVendedor + Cardinality({v} \cap ComVendedor)
        /\ comissaoDist' = comissaoDist \cup ({v} \cap ComDistribuidor)
        /\ saldoDist' = saldoDist + Cardinality({v} \cap ComDistribuidor)
    BY <2>1 DEF Aprovar, Comissionar
  <2> HIDE DEF v
  <2>5. IsFiniteSet(comissao') /\ saldoVendedor' = Cardinality(comissao')
    BY <2>2, <2>4, CarteiraCresce
  <2>6. IsFiniteSet(comissaoDist') /\ saldoDist' = Cardinality(comissaoDist')
    BY <2>3, <2>4, CarteiraCresce
  <2> QED
    BY <2>5, <2>6
<1>2. CASE \E p \in Pedidos : Cancelar(p)
  <2>1. PICK p \in Pedidos : Cancelar(p)
    BY <1>2
  <2>2. pedido[p].comissao => pedido[p].v \in comissao
    BY <2>1 DEF Cancelar, ComissaoAindaExiste
  <2>3. UNCHANGED <<comissaoDist, saldoDist>>
    BY <2>1 DEF Cancelar, ReverterComissao
  <2>4. CASE pedido[p].comissao
    <3>1. comissao' = comissao \ {pedido[p].v} /\ saldoVendedor' = saldoVendedor - 1
      BY <2>1, <2>4 DEF Cancelar, ReverterComissao
    <3> QED
      BY <2>2, <2>3, <2>4, <3>1, FS_RemoveElement
  <2>5. CASE ~pedido[p].comissao
    BY <2>1, <2>3, <2>5 DEF Cancelar, ReverterComissao
  <2> QED
    BY <2>4, <2>5
<1>3. CASE UNCHANGED dinheiro
  BY <1>3 DEF dinheiro
<1> QED
  <2>1. \/ \E p \in Atores : Aprovar(p)
        \/ \E p \in Pedidos : Cancelar(p)
        \/ UNCHANGED dinheiro
    BY DEF Next, vars, banco, Pagar, Vencer, Prosseguir, Cobrar, FalharCobranca, GravarCobranca,
           RecusarSemCobranca, ManterPendente, LerBilhetes, LerComissao,
           DesfazerCancelamento, Recusar, Falhar, Iniciar, CriarPendente, VenderManual,
           Confirmar, ConsultarPagamento, IniciarCancelamento, IniciarRecusa, Processar,
           LerParaConfirmar, Conflito, Alocar, FaltarEstoque, DesfazerAprovacao, Reconciliar,
           MontarLote, Visitar
  <2> QED
    BY <2>1, <1>1, <1>2, <1>3
-----------------------------------------------------------------------------
(* The theorems. *)

LEMMA InitIInv == Init => IInv
<1> SUFFICES ASSUME Init PROVE IInv
  OBVIOUS
<1>1. ComissoesFinitas /\ SaldosConferem
  BY FS_EmptySet DEF Init, ComissoesFinitas, SaldosConferem
<1>2. NumeroVendidoUmaVez
  BY DEF Init, NumeroVendidoUmaVez
<1> QED
  BY <1>1, <1>2, InitTipado DEF IInv

LEMMA PassoIInv == IInv /\ [Next]_vars => IInv'
BY TipoMantido, NumeroMantido, SaldosMantidos DEF IInv

LEMMA Invariante == Spec => []IInv
BY InitIInv, PassoIInv, PTL DEF Spec

\* Every variable of the sales keeps its type, for any sales, numbers, requests
\* and jobs (VendasService and the reconciliation job).
THEOREM VendasTipadas == Spec => []TypeOK
<1>1. IInv => TypeOK
  BY DEF IInv, Tipado
<1> QED
  BY <1>1, Invariante, PTL

\* No number of an edition is ever sold to two buyers, however many approvals
\* read it free at once (alocarBilhetes and the unique index of Bilhete).
THEOREM NumeroTemUmComprador == Spec => []NumeroVendidoUmaVez
<1>1. IInv => NumeroVendidoUmaVez
  BY DEF IInv
<1> QED
  BY <1>1, Invariante, PTL

\* The wallets of seller and distributor always hold exactly the commissions
\* that exist, whatever approvals and cancellations overlap.
THEOREM CarteirasConferem == Spec => []SaldosConferem
<1>1. IInv => SaldosConferem
  BY DEF IInv
<1> QED
  BY <1>1, Invariante, PTL
-----------------------------------------------------------------------------
(* The catalogue of numbers. *)

\* The owner of a number is the sale with its ticket, nobody when it is free.
DonoFiel ==
    \A n \in Numeros :
        /\ DonoDe[n] = Nulo <=> n \in Livres
        /\ \A v \in Vendas : DonoDe[n] = v <=> <<n, v>> \in bilhetes

LEMMA DonoEhFiel == NumeroVendidoUmaVez => DonoFiel
<1> SUFFICES ASSUME NumeroVendidoUmaVez, NEW n \in Numeros
             PROVE  /\ DonoDe[n] = Nulo <=> n \in Livres
                    /\ \A v \in Vendas : DonoDe[n] = v <=> <<n, v>> \in bilhetes
  BY DEF DonoFiel
<1>1. CASE n \in Livres
  <2>1. DonoDe[n] = Nulo
    BY <1>1 DEF DonoDe
  <2> QED
    BY <1>1, <2>1, VendasAssumption DEF Livres
<1>2. CASE n \notin Livres
  <2>1. PICK w \in Vendas : <<n, w>> \in bilhetes
    BY <1>2 DEF Livres
  <2>2. DonoDe[n] = CHOOSE v \in Vendas : <<n, v>> \in bilhetes
    BY <1>2 DEF DonoDe
  <2>3. DonoDe[n] \in Vendas /\ <<n, DonoDe[n]>> \in bilhetes
    BY <2>1, <2>2
  <2> QED
    BY <1>2, <2>3, VendasAssumption DEF NumeroVendidoUmaVez
<1> QED
  BY <1>1, <1>2

\* The cardinality the catalogue counts with is that of FiniteSets.
LEMMA MesmaCardinalidade == \A S : Catalogo!Cardinality(S) = Cardinality(S)
BY DEF Catalogo!Cardinality, Cardinality

\* The commit of an approval sells free numbers to the sale, as many as it bought.
LEMMA AprovarVende ==
    ASSUME Tipado, DonoFiel, DonoFiel', NEW p \in Atores, Aprovar(p)
    PROVE  \E v \in Vendas : \E S \in SUBSET Numeros :
             /\ Cardinality(S) = Quantidade[v]
             /\ \A n \in S : DonoDe[n] = Nulo
             /\ DonoDe' = [n \in Numeros |-> IF n \in S THEN v ELSE DonoDe[n]]
<1>0. pedido[p].v \in Vendas /\ pedido[p].nums \in SUBSET Numeros
  BY DEF Tipado, TypeOK, PedidoServe, Pedido, Aprovar
<1>v. PICK v \in Vendas : v = pedido[p].v
  BY <1>0
<1>s. PICK S \in SUBSET Numeros : S = pedido[p].nums
  BY <1>0
<1>1. Cardinality(S) = Quantidade[v]
  BY <1>v, <1>s DEF Tipado, PedidoServe, Aprovar
<1>2. S \subseteq Livres /\ bilhetes' = bilhetes \cup (S \X {v})
  BY <1>v, <1>s DEF Aprovar, Inserivel
<1>3. \A n \in S : DonoDe[n] = Nulo
  BY <1>1, <1>2 DEF DonoFiel
<1>4. ASSUME NEW n \in Numeros PROVE DonoDe'[n] = IF n \in S THEN v ELSE DonoDe[n]
  <2>1. CASE n \in S
    BY <1>1, <1>2, <2>1 DEF DonoFiel
  <2>2. CASE n \notin S
    <3>1. \A w \in Vendas : <<n, w>> \in bilhetes' <=> <<n, w>> \in bilhetes
      BY <1>2, <2>2
    <3>2. n \in Livres' <=> n \in Livres
      BY <3>1 DEF Livres
    <3>3. CASE n \in Livres
      BY <2>2, <3>2, <3>3 DEF DonoFiel
    <3>4. CASE n \notin Livres
      <4>1. PICK w \in Vendas : <<n, w>> \in bilhetes
        BY <3>4 DEF Livres
      <4> QED
        BY <2>2, <3>1, <4>1 DEF DonoFiel
    <3> QED
      BY <3>3, <3>4
  <2> QED
    BY <2>1, <2>2
<1>5. DonoDe' = [n \in Numeros |-> IF n \in S THEN v ELSE DonoDe[n]]
  BY <1>4 DEF DonoDe
<1> QED
  BY <1>1, <1>3, <1>5

\* A cancellation that saw tickets frees every number of the sale.
LEMMA CancelarLibera ==
    ASSUME Tipado, DonoFiel, DonoFiel', NEW p \in Pedidos, Cancelar(p)
    PROVE  \/ \E v \in Vendas :
                DonoDe' = [n \in Numeros |-> IF DonoDe[n] = v THEN Nulo ELSE DonoDe[n]]
           \/ UNCHANGED DonoDe
<1>0. pedido[p].v \in Vendas
  BY DEF Tipado, PedidoServe, Cancelar, Atores
<1>1. PICK v \in Vendas : v = pedido[p].v
  BY <1>0
<1>2. CASE ~pedido[p].bilhetes
  <2>1. bilhetes' = bilhetes
    BY <1>2 DEF Cancelar
  <2> QED
    BY <2>1 DEF DonoDe, Livres
<1>3. CASE pedido[p].bilhetes
  <2>1. bilhetes' = bilhetes \ {b \in bilhetes : b[2] = v}
    BY <1>1, <1>3 DEF Cancelar, BilhetesDe
  <2>2. ASSUME NEW n \in Numeros, NEW w \in Vendas
        PROVE  <<n, w>> \in bilhetes' <=> <<n, w>> \in bilhetes /\ w # v
    BY <2>1
  <2>3. ASSUME NEW n \in Numeros PROVE DonoDe'[n] = IF DonoDe[n] = v THEN Nulo ELSE DonoDe[n]
    <3>1. CASE n \in Livres
      <4>1. n \in Livres'
        BY <2>2, <3>1 DEF Livres
      <4> QED
        BY <3>1, <4>1 DEF DonoFiel
    <3>2. CASE n \notin Livres
      <4>1. PICK w \in Vendas : <<n, w>> \in bilhetes
        BY <3>2 DEF Livres
      <4>2. DonoDe[n] = w
        BY <4>1 DEF DonoFiel
      <4>3. CASE w # v
        BY <2>2, <4>1, <4>2, <4>3 DEF DonoFiel
      <4>4. CASE w = v
        <5>1. \A x \in Vendas : <<n, x>> \notin bilhetes'
          BY <1>1, <2>2, <4>1, <4>2, <4>4 DEF DonoFiel
        <5>2. n \in Livres'
          BY <5>1 DEF Livres
        <5> QED
          BY <4>2, <4>4, <5>2 DEF DonoFiel
      <4> QED
        BY <4>3, <4>4
    <3> QED
      BY <3>1, <3>2
  <2>4. DonoDe' = [n \in Numeros |-> IF DonoDe[n] = v THEN Nulo ELSE DonoDe[n]]
    BY <2>3 DEF DonoDe
  <2> QED
    BY <2>4
<1> QED
  BY <1>2, <1>3

\* The requests and transactions of the sales implement the catalogue: every
\* step sells free numbers whole, frees all that a sale holds, or stutters.
THEOREM VendasImplementamCatalogo == Spec => ImplementaCatalogo
<1>1. Init => Catalogo!Init
  BY DEF Init, Catalogo!Init, DonoDe, Livres
<1>2. IInv /\ IInv' /\ [Next]_vars => [Catalogo!Next]_DonoDe
  <2> SUFFICES ASSUME IInv, IInv', [Next]_vars PROVE [Catalogo!Next]_DonoDe
    OBVIOUS
  <2>1. Tipado /\ DonoFiel
    BY DonoEhFiel DEF IInv
  <2>2. (NumeroVendidoUmaVez => DonoFiel)'
    BY DonoEhFiel, PTL
  <2>3. DonoFiel'
    BY <2>2 DEF IInv
  <2>4. CASE \E p \in Atores : Aprovar(p)
    BY <2>1, <2>3, <2>4, AprovarVende, MesmaCardinalidade DEF Catalogo!Next, Catalogo!Vender
  <2>5. CASE \E p \in Pedidos : Cancelar(p)
    BY <2>1, <2>3, <2>5, CancelarLibera DEF Catalogo!Next, Catalogo!Liberar
  <2>6. CASE UNCHANGED bilhetes
    BY <2>6 DEF DonoDe, Livres
  <2>7. \/ \E p \in Atores : Aprovar(p)
        \/ \E p \in Pedidos : Cancelar(p)
        \/ UNCHANGED bilhetes
    BY DEF Next, vars, banco, Pagar, Vencer, Prosseguir, Cobrar, FalharCobranca, GravarCobranca,
           RecusarSemCobranca, ManterPendente, LerBilhetes, LerComissao,
           DesfazerCancelamento, Recusar, Falhar, Iniciar, CriarPendente, VenderManual,
           Confirmar, ConsultarPagamento, IniciarCancelamento, IniciarRecusa, Processar,
           LerParaConfirmar, Conflito, Alocar, FaltarEstoque, DesfazerAprovacao, Reconciliar,
           MontarLote, Visitar
  <2> QED
    BY <2>4, <2>5, <2>6, <2>7
<1> QED
  BY <1>1, <1>2, Invariante, PTL DEF Spec, ImplementaCatalogo, Catalogo!Spec, DonoDe

-----------------------------------------------------------------------------
(***************************************************************************)
(* The tickets of a sale: one that nobody confirmed has none, an approved  *)
(* one has at least what it paid for, and one that pays its distributor no *)
(* more.                                                                   *)
(***************************************************************************)
\* ComDistribuidorUmaVez holds because no ticket comes before the row that
\* survives a cancellation.
DistribuidorPrimeiro ==
    \A v \in ComDistribuidor :
        /\ Cardinality(BilhetesDe(v)) <= Quantidade[v]
        /\ v \notin comissaoDist => BilhetesDe(v) = {}

CInv == CartelasSeguemStatus /\ DistribuidorPrimeiro

\* The tickets of a sale can be counted, and so can a choice of numbers for it.
LEMMA CartelasContaveis ==
    ASSUME Tipado, NEW v \in Vendas
    PROVE  /\ IsFiniteSet(BilhetesDe(v)) /\ Cardinality(BilhetesDe(v)) \in Nat
           /\ Quantidade[v] \in Nat
<1>1. IsFiniteSet(Numeros) /\ IsFiniteSet({v})
  BY VendasAssumption, FS_Singleton
<1>2. IsFiniteSet(Numeros \X {v})
  BY <1>1, FS_Product
<1>3. BilhetesDe(v) \in SUBSET (Numeros \X {v})
  BY DEF Tipado, TypeOK, BilhetesDe
<1>4. IsFiniteSet(BilhetesDe(v))
  BY <1>2, <1>3, FS_Subset
<1> QED
  BY <1>4, FS_CardinalityType, VendasAssumption

\* A set of numbers makes as many tickets.
LEMMA CartelasDosNumeros ==
    ASSUME NEW S \in SUBSET Numeros, NEW v
    PROVE  IsFiniteSet(S \X {v}) /\ Cardinality(S \X {v}) = Cardinality(S)
<1>1. IsFiniteSet(S) /\ IsFiniteSet({v}) /\ Cardinality({v}) = 1
  BY VendasAssumption, FS_Subset, FS_Singleton
<1>2. /\ IsFiniteSet(S \X {v})
      /\ Cardinality(S \X {v}) = Cardinality(S) * Cardinality({v})
      /\ Cardinality(S) \in Nat
  BY <1>1, FS_Product, FS_CardinalityType
<1> QED
  BY <1>1, <1>2

\* The commit of an approval gives its sale the tickets, over those it has.
LEMMA AprovarCInv ==
    ASSUME Tipado, CInv, NEW p \in Atores, Aprovar(p)
    PROVE  CInv'
<1> DEFINE v == pedido[p].v
           S == pedido[p].nums
<1>1. /\ v \in Vendas /\ S \in SUBSET Numeros /\ Cardinality(S) = Quantidade[v]
      /\ status \in [Vendas -> StatusVenda \cup {"nenhuma"}]
  BY DEF Aprovar, Tipado, TypeOK, PedidoServe, Pedido
<1>2. /\ bilhetes' = bilhetes \cup (S \X {v})
      /\ status' = [status EXCEPT ![v] = "APROVADO"]
      /\ comissao' = comissao \cup ({v} \cap ComVendedor)
      /\ comissaoDist' = comissaoDist \cup ({v} \cap ComDistribuidor)
      /\ v \in ComDistribuidor => v \notin comissaoDist
  BY DEF Aprovar, Comissionar, Inserivel
<1> HIDE DEF v, S
<1>3. ASSUME NEW w \in Vendas
      PROVE  BilhetesDe(w)' = IF w = v THEN BilhetesDe(v) \cup (S \X {v}) ELSE BilhetesDe(w)
  BY <1>2 DEF BilhetesDe
<1>4. /\ IsFiniteSet(BilhetesDe(v)) /\ Quantidade[v] \in Nat
      /\ IsFiniteSet(S \X {v}) /\ Cardinality(S \X {v}) = Quantidade[v]
  BY <1>1, CartelasContaveis, CartelasDosNumeros
<1>5. Cardinality(BilhetesDe(v) \cup (S \X {v})) >= Quantidade[v]
  <2> DEFINE T == BilhetesDe(v) \cup (S \X {v})
  <2>1. IsFiniteSet(T)
    BY <1>4, FS_Union
  <2>2. (S \X {v}) \in SUBSET T
    OBVIOUS
  <2>3. Cardinality(S \X {v}) <= Cardinality(T) /\ Cardinality(T) \in Nat
    BY <2>1, <2>2, FS_Subset, FS_CardinalityType
  <2> QED
    BY <1>4, <2>3
<1>6. CartelasSeguemStatus'
  <2> SUFFICES ASSUME NEW w \in Vendas
               PROVE  /\ status'[w] \in {"nenhuma", "PENDENTE"} =>
                           BilhetesDe(w)' = {} /\ w \notin comissao' \cup comissaoDist'
                      /\ status'[w] = "APROVADO" => Cardinality(BilhetesDe(w)') >= Quantidade[w]
    BY DEF CartelasSeguemStatus
  <2>1. CASE w = v
    BY <1>1, <1>2, <1>3, <1>5, <2>1
  <2>2. CASE w # v
    <3>1. status'[w] = status[w] /\ BilhetesDe(w)' = BilhetesDe(w)
      BY <1>1, <1>2, <1>3, <2>2
    <3> QED
      BY <1>2, <2>2, <3>1 DEF CInv, CartelasSeguemStatus
  <2> QED
    BY <2>1, <2>2
<1>7. DistribuidorPrimeiro'
  <2> SUFFICES ASSUME NEW w \in ComDistribuidor
               PROVE  /\ Cardinality(BilhetesDe(w)') <= Quantidade[w]
                      /\ w \notin comissaoDist' => BilhetesDe(w)' = {}
    BY DEF DistribuidorPrimeiro
  <2>0. w \in Vendas
    BY VendasAssumption
  <2>1. CASE w = v
    <3>1. BilhetesDe(v) = {}
      BY <1>2, <2>1 DEF CInv, DistribuidorPrimeiro
    <3>2. BilhetesDe(w)' = S \X {v}
      BY <1>3, <2>0, <2>1, <3>1
    <3> QED
      BY <1>2, <1>4, <2>1, <3>2
  <2>2. CASE w # v
    BY <1>2, <1>3, <2>0, <2>2 DEF CInv, DistribuidorPrimeiro
  <2> QED
    BY <2>1, <2>2
<1> QED
  BY <1>6, <1>7 DEF CInv

\* A cancellation takes tickets and the seller's commission from one sale only,
\* which is CANCELADO from then on.
LEMMA CancelarCInv ==
    ASSUME Tipado, CInv, NEW p \in Pedidos, Cancelar(p)
    PROVE  CInv'
<1> DEFINE v == pedido[p].v
<1>1. v \in Vendas /\ status \in [Vendas -> StatusVenda \cup {"nenhuma"}]
  BY DEF Cancelar, Tipado, TypeOK, PedidoServe, Atores
<1>2. /\ bilhetes' \in {bilhetes, bilhetes \ BilhetesDe(v)}
      /\ comissao' \subseteq comissao /\ comissaoDist' = comissaoDist
      /\ status' = [status EXCEPT ![v] = "CANCELADO"]
  BY DEF Cancelar, ReverterComissao
<1> HIDE DEF v
<1>3. ASSUME NEW w \in Vendas
      PROVE  BilhetesDe(w)' = BilhetesDe(w) \/ (w = v /\ BilhetesDe(w)' = {})
  <2>1. CASE bilhetes' = bilhetes
    BY <2>1 DEF BilhetesDe
  <2>2. CASE bilhetes' = bilhetes \ BilhetesDe(v)
    <3>1. w # v => BilhetesDe(w)' = BilhetesDe(w)
      BY <2>2 DEF BilhetesDe
    <3>2. w = v => BilhetesDe(w)' = {}
      BY <2>2 DEF BilhetesDe
    <3> QED
      BY <3>1, <3>2
  <2> QED
    BY <1>2, <2>1, <2>2
<1>4. CartelasSeguemStatus'
  <2> SUFFICES ASSUME NEW w \in Vendas
               PROVE  /\ status'[w] \in {"nenhuma", "PENDENTE"} =>
                           BilhetesDe(w)' = {} /\ w \notin comissao' \cup comissaoDist'
                      /\ status'[w] = "APROVADO" => Cardinality(BilhetesDe(w)') >= Quantidade[w]
    BY DEF CartelasSeguemStatus
  <2>1. CASE w = v
    BY <1>1, <1>2, <2>1
  <2>2. CASE w # v
    <3>1. status'[w] = status[w] /\ BilhetesDe(w)' = BilhetesDe(w)
      BY <1>1, <1>2, <1>3, <2>2
    <3> QED
      BY <1>2, <3>1 DEF CInv, CartelasSeguemStatus
  <2> QED
    BY <2>1, <2>2
<1>5. DistribuidorPrimeiro'
  <2> SUFFICES ASSUME NEW w \in ComDistribuidor
               PROVE  /\ Cardinality(BilhetesDe(w)') <= Quantidade[w]
                      /\ w \notin comissaoDist' => BilhetesDe(w)' = {}
    BY DEF DistribuidorPrimeiro
  <2>1. w \in Vendas /\ Quantidade[w] \in Nat
    BY VendasAssumption
  <2>2. CASE BilhetesDe(w)' = {}
    <3>1. Cardinality(BilhetesDe(w)') = 0
      BY <2>2, FS_EmptySet
    <3> QED
      BY <2>1, <2>2, <3>1
  <2>3. CASE BilhetesDe(w)' = BilhetesDe(w)
    BY <1>2, <2>3 DEF CInv, DistribuidorPrimeiro
  <2> QED
    BY <1>3, <2>1, <2>2, <2>3
<1> QED
  BY <1>4, <1>5 DEF CInv

\* Any other step writes no ticket and no commission, and a status that it
\* writes is neither that of a sale without confirmation, but for one that is
\* born, nor APROVADO.
LEMMA OutroPassoCInv ==
    ASSUME CInv, UNCHANGED <<bilhetes, comissao, comissaoDist>>,
           \A v \in Vendas : \/ status'[v] = status[v]
                             \/ status'[v] = "RECUSADO"
                             \/ status'[v] = "PENDENTE" /\ status[v] = "nenhuma"
    PROVE  CInv'
<1>1. \A v : BilhetesDe(v)' = BilhetesDe(v)
  BY DEF BilhetesDe
<1>2. CartelasSeguemStatus'
  BY <1>1 DEF CInv, CartelasSeguemStatus
<1>3. DistribuidorPrimeiro'
  BY <1>1 DEF CInv, DistribuidorPrimeiro
<1> QED
  BY <1>2, <1>3 DEF CInv

LEMMA PassoCInv == Tipado /\ CInv /\ [Next]_vars => CInv'
<1> SUFFICES ASSUME Tipado, CInv, [Next]_vars PROVE CInv'
  OBVIOUS
<1>0. status \in [Vendas -> StatusVenda \cup {"nenhuma"}]
  BY DEF Tipado, TypeOK
<1>1. ASSUME NEW p \in Atores, Aprovar(p) PROVE CInv'
  BY <1>1, AprovarCInv
<1>2. ASSUME NEW p \in Pedidos, Cancelar(p) PROVE CInv'
  BY <1>2, CancelarCInv
<1>3. ASSUME NEW p \in Pedidos, RecusarSemCobranca(p) \/ Recusar(p) PROVE CInv'
  BY <1>0, <1>3, OutroPassoCInv DEF RecusarSemCobranca, Recusar, dinheiro
<1>4. ASSUME NEW p \in Pedidos, NEW v \in Vendas, CriarPendente(p, v) PROVE CInv'
  BY <1>0, <1>4, OutroPassoCInv DEF CriarPendente, NinguemCria, dinheiro
<1>5. CASE UNCHANGED <<status, bilhetes, dinheiro>>
  BY <1>5, OutroPassoCInv DEF dinheiro
<1>6. \/ \E p \in Atores : Aprovar(p)
      \/ \E p \in Pedidos : Cancelar(p) \/ RecusarSemCobranca(p) \/ Recusar(p)
      \/ \E p \in Pedidos, v \in Vendas : CriarPendente(p, v)
      \/ UNCHANGED <<status, bilhetes, dinheiro>>
  BY DEF Next, vars, banco, Pagar, Vencer, Prosseguir, Cobrar, FalharCobranca, GravarCobranca,
         ManterPendente, LerBilhetes, LerComissao, DesfazerCancelamento, Falhar, Iniciar,
         VenderManual, Confirmar, ConsultarPagamento, IniciarCancelamento, IniciarRecusa,
         Processar, LerParaConfirmar, Conflito, Alocar, FaltarEstoque, DesfazerAprovacao,
         Reconciliar, MontarLote, Visitar
<1> QED
  BY <1>1, <1>2, <1>3, <1>4, <1>5, <1>6

\* No sale exists yet, and no ticket.
LEMMA InitCInv == Init => CInv
<1> SUFFICES ASSUME Init PROVE CInv
  OBVIOUS
<1>1. \A v : BilhetesDe(v) = {}
  BY DEF Init, BilhetesDe
<1>2. \A v \in Vendas : Quantidade[v] \in Nat
  BY VendasAssumption
<1> QED
  BY <1>1, <1>2, FS_EmptySet, VendasAssumption
     DEF Init, CInv, CartelasSeguemStatus, DistribuidorPrimeiro

LEMMA CInvSempre == Spec => []CInv
<1>1. IInv => Tipado
  BY DEF IInv
<1> QED
  BY <1>1, InitCInv, PassoCInv, Invariante, PTL DEF Spec
-----------------------------------------------------------------------------
\* Whatever confirmations, refusals and cancellations of a sale overlap, one
\* that nobody confirmed holds nothing and an approved one was served whole.
THEOREM CartelasSempreSeguemStatus == Spec => []CartelasSeguemStatus
<1>1. CInv => CartelasSeguemStatus
  BY DEF CInv
<1> QED
  BY <1>1, CInvSempre, PTL

\* A sale that pays its distributor is never served twice.
THEOREM DistribuidorPagoUmaVez == Spec => []ComDistribuidorUmaVez
<1>1. CInv => ComDistribuidorUmaVez
  BY DEF CInv, DistribuidorPrimeiro, ComDistribuidorUmaVez
<1> QED
  BY <1>1, CInvSempre, PTL

\* The tickets of a sale follow it, whatever overlaps on it (BilhetesSeguemVenda).
THEOREM BilhetesSempreSeguem == Spec => []BilhetesSeguemVenda
BY VendasTipadas, CartelasSempreSeguemStatus, DistribuidorPagoUmaVez, PTL DEF BilhetesSeguemVenda

-----------------------------------------------------------------------------
(***************************************************************************)
(* One request at a time: what a request read before its transaction still *)
(* holds when it writes, and a sale's status tells the rest.               *)
(***************************************************************************)
\* At most one request or job is in flight.
Sozinho ==
    \A p, q \in Atores : p # q => pedido[p].passo = "ocioso" \/ pedido[q].passo = "ocioso"

\* What r holds is what the sales, the tickets and the commissions still say: the sale it
\* charges or refuses waits, the one it approves waits or is not there yet, and a
\* cancellation saw the tickets and the commission there are.
EmDia(r, st, bi, co) ==
    /\ r.passo \in {"cobrar", "gravarCobranca", "recusarSemCobranca", "recusar"} =>
          st[r.v] = "PENDENTE"
    /\ r.passo \in {"alocar", "aprovar"} => st[r.v] \in {"nenhuma", "PENDENTE"}
    /\ r.passo \in {"lerComissao", "cancelar"} /\ ~r.bilhetes => {b \in bi : b[2] = r.v} = {}
    /\ r.passo = "cancelar" => (r.comissao <=> r.v \in co)

Serie == VendaCoerente /\ \A p \in Atores : EmDia(pedido[p], status, bilhetes, comissao)

LEMMA InitSerie == Init => Serie /\ Sozinho
<1> SUFFICES ASSUME Init PROVE Serie /\ Sozinho
  OBVIOUS
<1>1. \A v \in Vendas : BilhetesDe(v) = {}
  BY DEF Init, BilhetesDe
<1>2. VendaCoerente
  BY <1>1, FS_EmptySet DEF Init, VendaCoerente
<1>3. \A p \in Atores : pedido[p].passo = "ocioso"
  BY DEF Init, Ocioso
<1> QED
  BY <1>2, <1>3 DEF Serie, Sozinho, EmDia

\* Whoever takes a step alone leaves the others at rest: only its own record has to agree.
LEMMA SoOMeu ==
    ASSUME Tipado, Sozinho, Sozinho', NEW p \in Atores, NEW r \in Pedido,
           pedido' = [pedido EXCEPT ![p] = r],
           pedido[p].passo # "ocioso" \/ r.passo # "ocioso",
           EmDia(r, status', bilhetes', comissao'), VendaCoerente'
    PROVE  Serie'
<1>1. pedido \in [Atores -> Pedido]
  BY DEF Tipado, TypeOK
<1>2. ASSUME NEW q \in Atores PROVE EmDia(pedido'[q], status', bilhetes', comissao')
  <2>1. CASE q = p
    BY <1>1, <2>1
  <2>2. CASE q # p
    <3>1. pedido'[q] = pedido[q] /\ pedido'[p] = r
      BY <1>1, <2>2
    <3>2. pedido'[q].passo = "ocioso"
      BY <2>2, <3>1 DEF Sozinho
    <3> QED
      BY <3>2 DEF EmDia
  <2> QED
    BY <2>1, <2>2
<1> QED
  BY <1>2 DEF Serie

\* Nothing is written of what a sale's coherence is about.
Leitura == UNCHANGED <<status, bilhetes, comissao>>

LEMMA LeituraCoerente == Serie /\ Leitura => VendaCoerente'
BY DEF Serie, Leitura, VendaCoerente, BilhetesDe

LEMMA ParadoSerie == Serie /\ Leitura /\ UNCHANGED pedido => Serie'
<1> SUFFICES ASSUME Serie, Leitura, UNCHANGED pedido PROVE Serie'
  OBVIOUS
<1>1. VendaCoerente'
  BY LeituraCoerente
<1> QED
  BY <1>1 DEF Serie, Leitura

LEMMA RepousoDeVenda == Ocioso \in Pedido /\ Ocioso.passo = "ocioso"
BY DEF Ocioso, Pedido, Passos

\* A request ends.
LEMMA EncerrarSerie ==
    ASSUME Tipado, Sozinho, Sozinho', NEW p \in Atores, pedido[p].passo # "ocioso",
           Encerrar(p), VendaCoerente'
    PROVE  Serie'
BY RepousoDeVenda, SoOMeu DEF Encerrar, EmDia

\* A request starts on a sale whose status it has just read.
LEMMA NovoSerie ==
    ASSUME Tipado, Sozinho, Sozinho', NEW p \in Atores, NEW v \in Vendas,
           NEW passo \in {"cobrar", "alocar", "confirmar", "recusar"}, Novo(p, v, passo),
           passo \in {"cobrar", "recusar"} => status'[v] = "PENDENTE",
           passo = "alocar" => status'[v] \in {"nenhuma", "PENDENTE"},
           VendaCoerente'
    PROVE  Serie'
<1> DEFINE r == [Ocioso EXCEPT !.passo = passo, !.v = v]
<1>1. r \in Pedido /\ r.passo = passo /\ r.v = v
  BY DEF Ocioso, Pedido, Passos
<1>2. pedido' = [pedido EXCEPT ![p] = r]
  BY DEF Novo
<1> HIDE DEF r
<1>3. EmDia(r, status', bilhetes', comissao')
  BY <1>1 DEF EmDia
<1> QED
  BY <1>1, <1>2, <1>3, SoOMeu

\* A request goes on to a step that writes; its sale is as it was.
LEMMA SeguirSerie ==
    ASSUME Tipado, Serie, Sozinho, Sozinho', NEW p \in Atores, pedido[p].passo # "ocioso",
           NEW passo \in {"gravarCobranca", "recusarSemCobranca", "alocar"}, Seguir(p, passo),
           status[pedido[p].v] = "PENDENTE", Leitura
    PROVE  Serie'
<1> DEFINE r == [pedido[p] EXCEPT !.passo = passo]
<1>1. pedido[p] \in Pedido /\ pedido \in [Atores -> Pedido]
  BY DEF Tipado, TypeOK
<1>2. r \in Pedido /\ r.passo = passo /\ r.v = pedido[p].v
  BY <1>1 DEF Pedido, Passos
<1>3. pedido' = [pedido EXCEPT ![p] = r]
  BY <1>1 DEF Seguir
<1> HIDE DEF r
<1>4. EmDia(r, status', bilhetes', comissao')
  BY <1>2 DEF EmDia, Leitura
<1> QED
  BY <1>2, <1>3, <1>4, LeituraCoerente, SoOMeu

\* The steps of a request that write no sale, no ticket and no commission.
LEMMA LeiturasSerie ==
    ASSUME Tipado, Serie, Sozinho, Sozinho', NEW p \in Atores
    PROVE  /\ Cobrar(p) \/ FalharCobranca(p) \/ GravarCobranca(p) \/ ManterPendente(p) => Serie'
           /\ DesfazerCancelamento(p) \/ Falhar(p) => Serie'
           /\ LerParaConfirmar(p) \/ Conflito(p) \/ FaltarEstoque(p) \/ DesfazerAprovacao(p)
                 => Serie'
           /\ \A v \in Vendas :
                 VenderManual(p, v) \/ Confirmar(p, v) \/ ConsultarPagamento(p, v)
                 \/ IniciarRecusa(p, v) => Serie'
<1>1. EmDia(pedido[p], status, bilhetes, comissao)
  BY DEF Serie
<1>2. ASSUME Cobrar(p) \/ FalharCobranca(p) \/ LerParaConfirmar(p) PROVE Serie'
  <2>1. PICK passo \in {"gravarCobranca", "recusarSemCobranca", "alocar"} : Seguir(p, passo)
    BY <1>2 DEF Cobrar, FalharCobranca, LerParaConfirmar
  <2>2. /\ pedido[p].passo # "ocioso" /\ status[pedido[p].v] = "PENDENTE" /\ Leitura
    BY <1>1, <1>2 DEF Cobrar, FalharCobranca, LerParaConfirmar, EmDia, Leitura, banco, dinheiro
  <2> QED
    BY <2>1, <2>2, SeguirSerie
<1>3. ASSUME GravarCobranca(p) \/ ManterPendente(p) \/ DesfazerCancelamento(p) \/ Conflito(p)
             \/ FaltarEstoque(p) \/ DesfazerAprovacao(p)
      PROVE  Serie'
  <2>1. pedido[p].passo # "ocioso" /\ Encerrar(p) /\ Leitura
    BY <1>3 DEF GravarCobranca, ManterPendente, DesfazerCancelamento, Conflito, FaltarEstoque,
                DesfazerAprovacao, Leitura, banco, dinheiro
  <2> QED
    BY <2>1, LeituraCoerente, EncerrarSerie
<1>4. ASSUME Falhar(p) PROVE Serie'
  <2>1. pedido[p].passo # "ocioso" /\ Leitura
    BY <1>4 DEF Falhar, Leitura, banco, dinheiro
  <2>2. CASE Encerrar(p)
    BY <2>1, <2>2, LeituraCoerente, EncerrarSerie
  <2>3. CASE pedido[p].passo = "gravarCobranca" /\ Seguir(p, "recusarSemCobranca")
    <3>1. status[pedido[p].v] = "PENDENTE"
      BY <1>1, <2>3 DEF EmDia
    <3> QED
      BY <2>1, <2>3, <3>1, SeguirSerie
  <2> QED
    BY <1>4, <2>2, <2>3 DEF Falhar
<1>5. ASSUME NEW v \in Vendas,
             VenderManual(p, v) \/ Confirmar(p, v) \/ ConsultarPagamento(p, v)
             \/ IniciarRecusa(p, v)
      PROVE  Serie'
  <2>1. PICK passo \in {"alocar", "confirmar", "recusar"} :
            /\ Novo(p, v, passo)
            /\ passo = "recusar" => status[v] = "PENDENTE"
            /\ passo = "alocar" => status[v] \in {"nenhuma", "PENDENTE"}
    BY <1>5 DEF VenderManual, Confirmar, ConsultarPagamento, IniciarRecusa, NinguemCria
  <2>2. Leitura
    BY <1>5 DEF VenderManual, Confirmar, ConsultarPagamento, IniciarRecusa, Leitura, banco,
                dinheiro
  <2>3. status' = status
    BY <2>2 DEF Leitura
  <2> QED
    BY <2>1, <2>2, <2>3, LeituraCoerente, NovoSerie
<1> QED
  BY <1>2, <1>3, <1>4, <1>5

\* An approval that has its numbers.
LEMMA AlocarSerie ==
    ASSUME Tipado, Serie, Sozinho, Sozinho', NEW p \in Atores, Alocar(p)
    PROVE  Serie'
<1> DEFINE r == [pedido[p] EXCEPT !.passo = "aprovar", !.nums = NumerosPara(pedido[p].v)]
<1>1. /\ pedido[p] \in Pedido /\ pedido \in [Atores -> Pedido] /\ pedido[p].passo = "alocar"
      /\ pedido[p].v \in Vendas
  BY DEF Tipado, TypeOK, PedidoServe, Alocar
<1>2. NumerosPara(pedido[p].v) \in SUBSET Numeros
  BY <1>1, NumerosLivres DEF Livres
<1>3. r \in Pedido /\ r.passo = "aprovar" /\ r.v = pedido[p].v
  BY <1>1, <1>2 DEF Pedido, Passos
<1>4. pedido' = [pedido EXCEPT ![p] = r]
  BY <1>1 DEF Alocar
<1> HIDE DEF r
<1>5. Leitura /\ EmDia(pedido[p], status, bilhetes, comissao)
  BY DEF Alocar, Leitura, Serie, banco, dinheiro
<1>6. EmDia(r, status', bilhetes', comissao')
  BY <1>1, <1>3, <1>5 DEF EmDia, Leitura
<1> QED
  BY <1>1, <1>3, <1>4, <1>5, <1>6, LeituraCoerente, SoOMeu

\* A cancellation reads the tickets and then the commission.
LEMMA CancelamentoLeSerie ==
    ASSUME Tipado, Serie, Sozinho, Sozinho', NEW p \in Atores
    PROVE  /\ \A v \in Vendas : IniciarCancelamento(p, v) => Serie'
           /\ LerBilhetes(p) \/ LerComissao(p) => Serie'
<1>1. pedido[p] \in Pedido /\ pedido \in [Atores -> Pedido]
  BY DEF Tipado, TypeOK
<1>2. ASSUME NEW v \in Vendas, IniciarCancelamento(p, v) PROVE Serie'
  <2> DEFINE viu == v \in comGatewayId
             r == [Ocioso EXCEPT !.passo = "lerBilhetes", !.v = v, !.gatewayId = viu]
  <2>1. viu \in BOOLEAN
    OBVIOUS
  <2>2. pedido' = [pedido EXCEPT ![p] = r] /\ Leitura
    BY <1>2, Zenon DEF IniciarCancelamento, Leitura, banco, dinheiro
  <2> HIDE DEF viu
  <2>3. r \in Pedido /\ r.passo = "lerBilhetes"
    BY <2>1 DEF Pedido, Passos, Ocioso
  <2> HIDE DEF r
  <2> QED
    BY <2>2, <2>3, LeituraCoerente, SoOMeu DEF EmDia
<1>3. ASSUME LerBilhetes(p) PROVE Serie'
  <2> DEFINE viu == BilhetesDe(pedido[p].v) # {}
             r == [pedido[p] EXCEPT !.passo = "lerComissao", !.bilhetes = viu]
  <2>1. viu \in BOOLEAN
    OBVIOUS
  <2>2. Leitura
    BY <1>3 DEF LerBilhetes, Leitura, banco, dinheiro
  <2>3. pedido' = [pedido EXCEPT ![p].passo = "lerComissao", ![p].bilhetes = viu]
    BY <1>3, Zenon DEF LerBilhetes
  <2>4. ~viu => {b \in bilhetes : b[2] = pedido[p].v} = {}
    BY DEF BilhetesDe
  <2> HIDE DEF viu
  <2>5. pedido' = [pedido EXCEPT ![p] = r]
    BY <1>1, <2>3
  <2>6. r \in Pedido /\ r.passo = "lerComissao" /\ r.v = pedido[p].v /\ r.bilhetes = viu
    BY <1>1, <2>1 DEF Pedido, Passos
  <2> HIDE DEF r
  <2>7. EmDia(r, status', bilhetes', comissao')
    BY <2>2, <2>4, <2>6 DEF EmDia, Leitura
  <2> QED
    BY <2>2, <2>5, <2>6, <2>7, LeituraCoerente, SoOMeu
<1>4. ASSUME LerComissao(p) PROVE Serie'
  <2> DEFINE viu == pedido[p].v \in comissao
             r == [pedido[p] EXCEPT !.passo = "cancelar", !.comissao = viu]
  <2>1. viu \in BOOLEAN
    OBVIOUS
  <2>2. Leitura
    BY <1>4 DEF LerComissao, Leitura, banco, dinheiro
  <2>3. pedido' = [pedido EXCEPT ![p].passo = "cancelar", ![p].comissao = viu]
    BY <1>4, Zenon DEF LerComissao
  <2>4. viu <=> pedido[p].v \in comissao
    OBVIOUS
  <2>5. ~pedido[p].bilhetes => {b \in bilhetes : b[2] = pedido[p].v} = {}
    BY <1>4 DEF LerComissao, Serie, EmDia
  <2> HIDE DEF viu
  <2>6. pedido' = [pedido EXCEPT ![p] = r]
    BY <1>1, <2>3
  <2>7. /\ r \in Pedido /\ r.passo = "cancelar" /\ r.v = pedido[p].v
        /\ r.bilhetes = pedido[p].bilhetes /\ r.comissao = viu
    BY <1>1, <2>1 DEF Pedido, Passos
  <2> HIDE DEF r
  <2>8. EmDia(r, status', bilhetes', comissao')
    BY <2>2, <2>4, <2>5, <2>7 DEF EmDia, Leitura
  <2> QED
    BY <2>2, <2>6, <2>7, <2>8, LeituraCoerente, SoOMeu
<1> QED
  BY <1>2, <1>3, <1>4

\* A sale is created, or refused while it waits: it has neither tickets nor commission.
LEMMA StatusSerie ==
    ASSUME Tipado, Serie, Sozinho, Sozinho', NEW p \in Atores
    PROVE  /\ \A v \in Vendas : CriarPendente(p, v) => Serie'
           /\ RecusarSemCobranca(p) \/ Recusar(p) => Serie'
<1>1. status \in [Vendas -> StatusVenda \cup {"nenhuma"}]
  BY DEF Tipado, TypeOK
<1>2. ASSUME NEW v \in Vendas, NEW st \in {"PENDENTE", "RECUSADO"},
             status' = [status EXCEPT ![v] = st], status[v] \in {"nenhuma", "PENDENTE"},
             UNCHANGED <<bilhetes, comissao>>
      PROVE  VendaCoerente'
  <2>1. \A w : BilhetesDe(w)' = BilhetesDe(w)
    BY <1>2 DEF BilhetesDe
  <2> QED
    BY <1>1, <1>2, <2>1 DEF Serie, VendaCoerente
<1>3. ASSUME NEW v \in Vendas, CriarPendente(p, v) PROVE Serie'
  <2>1. status'[v] = "PENDENTE" /\ Novo(p, v, "cobrar")
    BY <1>1, <1>3 DEF CriarPendente
  <2>2. VendaCoerente'
    BY <1>2, <1>3 DEF CriarPendente, NinguemCria, dinheiro
  <2> QED
    BY <2>1, <2>2, NovoSerie
<1>4. ASSUME RecusarSemCobranca(p) \/ Recusar(p) PROVE Serie'
  <2>1. /\ pedido[p].v \in Vendas /\ status[pedido[p].v] = "PENDENTE"
        /\ pedido[p].passo # "ocioso" /\ Encerrar(p)
    BY <1>4 DEF RecusarSemCobranca, Recusar, Tipado, PedidoServe, Serie, EmDia
  <2>2. VendaCoerente'
    BY <1>2, <1>4, <2>1 DEF RecusarSemCobranca, Recusar, dinheiro
  <2> QED
    BY <2>1, <2>2, EncerrarSerie
<1> QED
  BY <1>3, <1>4

\* An approval makes the tickets of a sale that had none.
LEMMA AprovarSerie ==
    ASSUME Tipado, CInv, Serie, Sozinho, Sozinho', NEW p \in Atores, Aprovar(p)
    PROVE  Serie'
<1> DEFINE v == pedido[p].v
           S == pedido[p].nums
<1>1. /\ v \in Vendas /\ S \in SUBSET Numeros /\ Cardinality(S) = Quantidade[v]
      /\ status[v] \in {"nenhuma", "PENDENTE"} /\ pedido[p].passo # "ocioso"
  BY DEF Aprovar, Tipado, TypeOK, PedidoServe, Pedido, Serie, EmDia
<1>2. /\ bilhetes' = bilhetes \cup (S \X {v})
      /\ status' = [status EXCEPT ![v] = "APROVADO"]
      /\ comissao' = comissao \cup ({v} \cap ComVendedor) /\ Encerrar(p)
  BY DEF Aprovar, Comissionar
<1> HIDE DEF v, S
<1>3. status \in [Vendas -> StatusVenda \cup {"nenhuma"}]
  BY DEF Tipado, TypeOK
<1>4. BilhetesDe(v) = {} /\ v \notin comissao
  BY <1>1 DEF CInv, CartelasSeguemStatus
<1>5. ASSUME NEW w \in Vendas
      PROVE  BilhetesDe(w)' = IF w = v THEN S \X {v} ELSE BilhetesDe(w)
  <2>1. CASE w = v
    BY <1>2, <1>4, <2>1 DEF BilhetesDe
  <2>2. CASE w # v
    BY <1>2, <2>2 DEF BilhetesDe
  <2> QED
    BY <2>1, <2>2
<1>6. ASSUME NEW w \in Vendas
      PROVE  /\ Cardinality(BilhetesDe(w)') = IF status'[w] = "APROVADO" THEN Quantidade[w] ELSE 0
             /\ w \in comissao' <=> status'[w] = "APROVADO" /\ w \in ComVendedor
  <2>1. CASE w = v
    <3>1. Cardinality(BilhetesDe(w)') = Quantidade[w]
      <4>1. BilhetesDe(w)' = S \X {v}
        BY <1>5, <2>1
      <4>2. Cardinality(S \X {v}) = Quantidade[w]
        BY <1>1, <2>1, CartelasDosNumeros
      <4> QED
        BY <4>1, <4>2
    <3> QED
      BY <1>1, <1>2, <1>3, <1>4, <2>1, <3>1
  <2>2. CASE w # v
    <3>1. BilhetesDe(w)' = BilhetesDe(w) /\ status'[w] = status[w]
      BY <1>2, <1>3, <1>5, <2>2
    <3> QED
      BY <1>2, <2>2, <3>1 DEF Serie, VendaCoerente
  <2> QED
    BY <2>1, <2>2
<1>7. VendaCoerente'
  BY <1>6 DEF VendaCoerente
<1> QED
  BY <1>1, <1>2, <1>7, EncerrarSerie

\* A cancellation removes the tickets and the commission it saw, which are those there are.
LEMMA CancelarSerie ==
    ASSUME Tipado, Serie, Sozinho, Sozinho', NEW p \in Atores, Cancelar(p)
    PROVE  Serie'
<1> DEFINE v == pedido[p].v
<1>1. /\ v \in Vendas /\ pedido[p].passo # "ocioso" /\ Encerrar(p)
      /\ status' = [status EXCEPT ![v] = "CANCELADO"]
      /\ bilhetes' = IF pedido[p].bilhetes THEN bilhetes \ BilhetesDe(v) ELSE bilhetes
      /\ comissao' = IF pedido[p].comissao THEN comissao \ {v} ELSE comissao
      /\ ~pedido[p].bilhetes => BilhetesDe(v) = {}
      /\ pedido[p].comissao <=> v \in comissao
  BY DEF Cancelar, ReverterComissao, Tipado, PedidoServe, Serie, EmDia, BilhetesDe
<1> HIDE DEF v
<1>2. status \in [Vendas -> StatusVenda \cup {"nenhuma"}]
  BY DEF Tipado, TypeOK
<1>3. bilhetes' = bilhetes \ BilhetesDe(v)
  BY <1>1
<1>4. comissao' = comissao \ {v}
  <2>1. CASE v \in comissao
    BY <1>1, <2>1
  <2>2. CASE v \notin comissao
    BY <1>1, <2>2
  <2> QED
    BY <2>1, <2>2
<1>5. ASSUME NEW w \in Vendas
      PROVE  /\ Cardinality(BilhetesDe(w)') = IF status'[w] = "APROVADO" THEN Quantidade[w] ELSE 0
             /\ w \in comissao' <=> status'[w] = "APROVADO" /\ w \in ComVendedor
  <2>1. CASE w = v
    <3>1. BilhetesDe(w)' = {}
      BY <1>3, <2>1 DEF BilhetesDe
    <3> QED
      BY <1>1, <1>2, <1>4, <2>1, <3>1, FS_EmptySet
  <2>2. CASE w # v
    <3>1. BilhetesDe(w)' = BilhetesDe(w) /\ status'[w] = status[w]
      BY <1>1, <1>2, <1>3, <2>2 DEF BilhetesDe
    <3> QED
      BY <1>4, <2>2, <3>1 DEF Serie, VendaCoerente
  <2> QED
    BY <2>1, <2>2
<1>6. VendaCoerente'
  BY <1>5 DEF VendaCoerente
<1> QED
  BY <1>1, <1>6, EncerrarSerie

\* One request at a time, before a step and after it, keeps each sale coherent.
LEMMA NextSerie ==
    ASSUME Tipado, CInv, Serie, Sozinho, Sozinho', Next
    PROVE  Serie'
<1> USE DEF Atores
<1>1. ASSUME NEW v \in Vendas, Pagar(v) \/ Vencer(v) PROVE Serie'
  BY <1>1, ParadoSerie DEF Pagar, Vencer, Leitura, banco, dinheiro
<1>2. ASSUME NEW p \in Pedidos, Prosseguir(p) PROVE Serie'
  BY <1>2, LeiturasSerie, CancelamentoLeSerie, StatusSerie, CancelarSerie DEF Prosseguir
<1>3. ASSUME NEW p \in Pedidos, Falhar(p) PROVE Serie'
  BY <1>3, LeiturasSerie
<1>4. ASSUME NEW p \in Pedidos, NEW v \in Vendas, Iniciar(p, v) PROVE Serie'
  BY <1>4, LeiturasSerie, CancelamentoLeSerie, StatusSerie DEF Iniciar
<1>5. ASSUME NEW p \in Atores, Processar(p) PROVE Serie'
  BY <1>5, LeiturasSerie, AlocarSerie, AprovarSerie DEF Processar
<1>6. ASSUME NEW j \in Jobs, MontarLote(j) PROVE Serie'
  BY <1>6, ParadoSerie DEF MontarLote, Leitura, banco, dinheiro
<1>7. ASSUME NEW j \in Jobs, NEW v \in Vendas, Visitar(j, v) PROVE Serie'
  <2>1. Leitura
    BY <1>7 DEF Visitar, Leitura, banco, dinheiro
  <2>2. CASE Novo(j, v, "confirmar")
    BY <2>1, <2>2, LeituraCoerente, NovoSerie
  <2>3. CASE UNCHANGED pedido
    BY <2>1, <2>3, ParadoSerie
  <2> QED
    BY <1>7, <2>2, <2>3 DEF Visitar
<1> QED
  BY <1>1, <1>2, <1>3, <1>4, <1>5, <1>6, <1>7 DEF Next, Reconciliar
-----------------------------------------------------------------------------
(***************************************************************************)
(* Both products side by side.  A step of one leaves the other as it is;   *)
(* the Sena's own steps are those of VendasSena_proofs.                    *)
(***************************************************************************)
SP == INSTANCE VendasSena_proofs WITH
          Vendas <- VendasDaSena, Pedidos <- PedidosSena, Quantidade <- QuantidadeSena,
          ComVendedor <- ComVendedorSena, ComDistribuidor <- ComDistribuidorSena,
          status <- statusSena, comissao <- comissaoSena, comissaoDist <- comissaoDistSena,
          saldoVendedor <- saldoVendedorSena, saldoDist <- saldoDistSena, pedido <- pedidoSena

LEMMA InstanciaDaSena == SP!Instancia
BY SenaAssumption DEF SP!Instancia

\* The two instances of VendasSena count, start and step alike.
LEMMA MesmaConta == \A S : Sena!Cardinality(S) = SP!Cardinality(S)
BY Zenon DEF Sena!Cardinality, SP!Cardinality

LEMMA MesmoInicio == Sena!Init => SP!Init
BY DEF Sena!Init, SP!Init, Sena!Ocioso, SP!Ocioso

LEMMA MesmoPasso == Sena!Next => SP!Next
<1> USE DEF Sena!Novo, SP!Novo, Sena!Encerrar, SP!Encerrar, Sena!Ocioso, SP!Ocioso,
            Sena!dinheiro, SP!dinheiro
<1>1. ASSUME NEW p \in PedidosSena, NEW v \in VendasDaSena
      PROVE  /\ Sena!CriarPendente(p, v) => SP!CriarPendente(p, v)
             /\ Sena!VenderManual(p, v) => SP!VenderManual(p, v)
             /\ Sena!Confirmar(p, v) => SP!Confirmar(p, v)
             /\ Sena!IniciarCancelamento(p, v) => SP!IniciarCancelamento(p, v)
  BY DEF Sena!CriarPendente, SP!CriarPendente, Sena!VenderManual, SP!VenderManual,
         Sena!Confirmar, SP!Confirmar, Sena!IniciarCancelamento, SP!IniciarCancelamento,
         Sena!NinguemCria, SP!NinguemCria, Sena!StatusVendaSena, SP!StatusVendaSena
<1>2. ASSUME NEW p \in PedidosSena
      PROVE  /\ Sena!Cobrar(p) => SP!Cobrar(p)
             /\ Sena!FalharCobranca(p) => SP!FalharCobranca(p)
             /\ Sena!Recusar(p) => SP!Recusar(p)
             /\ Sena!Falhar(p) => SP!Falhar(p)
  BY DEF Sena!Cobrar, SP!Cobrar, Sena!FalharCobranca, SP!FalharCobranca, Sena!Recusar,
         SP!Recusar, Sena!Falhar, SP!Falhar
<1>3. ASSUME NEW p \in PedidosSena
      PROVE  /\ Sena!Aprovar(p) => SP!Aprovar(p)
             /\ Sena!DesfazerAprovacao(p) => SP!DesfazerAprovacao(p)
  BY MesmaConta
     DEF Sena!Aprovar, SP!Aprovar, Sena!DesfazerAprovacao, SP!DesfazerAprovacao,
         Sena!Inserivel, SP!Inserivel, Sena!Comissionar, SP!Comissionar
<1>4. ASSUME NEW p \in PedidosSena
      PROVE  /\ Sena!LerCartelas(p) => SP!LerCartelas(p)
             /\ Sena!LerComissao(p) => SP!LerComissao(p)
             /\ Sena!Cancelar(p) => SP!Cancelar(p)
             /\ Sena!DesfazerCancelamento(p) => SP!DesfazerCancelamento(p)
  BY DEF Sena!LerCartelas, SP!LerCartelas, Sena!LerComissao, SP!LerComissao,
         Sena!Cancelar, SP!Cancelar, Sena!DesfazerCancelamento, SP!DesfazerCancelamento,
         Sena!ComissaoAindaExiste, SP!ComissaoAindaExiste, Sena!ApagarCartelas, SP!ApagarCartelas
<1> QED
  BY <1>1, <1>2, <1>3, <1>4 DEF Sena!Next, SP!Next

\* What holds of the sales of Prêmios, and of those of the Sena; the second part of each
\* while its requests come one at a time.
DePremios ==
    /\ IInv /\ CInv
    /\ "premios" \notin concorreu => Serie /\ Sozinho

DaSena ==
    /\ SP!IInv
    /\ "sena" \notin concorreu => SP!Serie /\ SP!Sozinho

\* Who has not overlapped so far is alone, and was.
LEMMA SemSobrepor ==
    /\ ~Sobrepostos(Atores, pedido') => Sozinho'
    /\ ~Sobrepostos(PedidosSena, pedidoSena') => SP!Sozinho'
BY DEF Sobrepostos, Sozinho, SP!Sozinho

LEMMA InitProdutos == ProdutosInit => DePremios /\ DaSena
<1> SUFFICES ASSUME ProdutosInit PROVE DePremios /\ DaSena
  OBVIOUS
<1>1. Init /\ SP!Init
  BY MesmoInicio DEF ProdutosInit
<1>2. IInv /\ CInv /\ Serie /\ Sozinho
  BY <1>1, InitIInv, InitCInv, InitSerie
<1>3. SP!IInv /\ SP!Serie /\ SP!Sozinho
  BY <1>1, InstanciaDaSena, SP!InitIInv, SP!InitSerie
<1> QED
  BY <1>2, <1>3 DEF DePremios, DaSena

\* The other product's invariant is about variables that do not move.
LEMMA PremiosParado == DePremios /\ UNCHANGED vars /\ ("premios" \notin concorreu' =>
                            "premios" \notin concorreu) => DePremios'
<1> SUFFICES ASSUME DePremios, UNCHANGED vars,
                    "premios" \notin concorreu' => "premios" \notin concorreu
             PROVE  DePremios'
  OBVIOUS
<1>1. IInv' /\ CInv'
  BY PassoIInv, PassoCInv DEF DePremios, IInv
<1>2. Serie => Serie'
  BY ParadoSerie DEF Leitura, vars, banco, dinheiro
<1>3. Sozinho => Sozinho'
  BY DEF Sozinho, vars
<1> QED
  BY <1>1, <1>2, <1>3 DEF DePremios

LEMMA SenaParada == DaSena /\ UNCHANGED sena /\ ("sena" \notin concorreu' =>
                            "sena" \notin concorreu) => DaSena'
<1> SUFFICES ASSUME DaSena, UNCHANGED sena, "sena" \notin concorreu' => "sena" \notin concorreu
             PROVE  DaSena'
  OBVIOUS
<1>1. SP!IInv'
  <2>1. UNCHANGED SP!vars
    BY DEF sena, SP!vars, SP!dinheiro
  <2> QED
    BY <2>1, InstanciaDaSena, SP!NextIInv DEF DaSena
<1>2. SP!Serie => SP!Serie'
  BY DEF sena, SP!Serie, SP!VendaCoerente
<1>3. SP!Sozinho => SP!Sozinho'
  BY DEF sena, SP!Sozinho
<1> QED
  BY <1>1, <1>2, <1>3 DEF DaSena

LEMMA NextProdutos ==
    DePremios /\ DaSena /\ [ProdutosNext]_<<vars, sena, concorreu>> => DePremios' /\ DaSena'
<1> SUFFICES ASSUME DePremios, DaSena, [ProdutosNext]_<<vars, sena, concorreu>>
             PROVE  DePremios' /\ DaSena'
  OBVIOUS
<1>1. CASE PassoDePremios
  <2>1. /\ Next /\ UNCHANGED sena
        /\ concorreu' = concorreu \cup {x \in {"premios"} : Sobrepostos(Atores, pedido')}
    BY <1>1 DEF PassoDePremios
  <2>2. DaSena'
    BY <2>1, SenaParada
  <2>3. IInv' /\ CInv'
    BY <2>1, PassoIInv, PassoCInv DEF DePremios, IInv
  <2>4. ASSUME "premios" \notin concorreu' PROVE Serie' /\ Sozinho'
    <3>1. "premios" \notin concorreu /\ ~Sobrepostos(Atores, pedido')
      BY <2>1, <2>4
    <3>2. Sozinho' /\ Serie /\ Sozinho /\ Tipado /\ CInv
      BY <3>1, SemSobrepor DEF DePremios, IInv
    <3> QED
      BY <2>1, <3>2, NextSerie
  <2> QED
    BY <2>2, <2>3, <2>4 DEF DePremios
<1>2. CASE PassoDaSena
  <2>1. /\ SP!Next /\ UNCHANGED vars
        /\ concorreu' = concorreu \cup {x \in {"sena"} : Sobrepostos(PedidosSena, pedidoSena')}
    BY <1>2, MesmoPasso DEF PassoDaSena
  <2>2. DePremios'
    BY <2>1, PremiosParado
  <2>3. SP!IInv'
    BY <2>1, InstanciaDaSena, SP!NextIInv DEF DaSena
  <2>4. ASSUME "sena" \notin concorreu' PROVE SP!Serie' /\ SP!Sozinho'
    <3>1. "sena" \notin concorreu /\ ~Sobrepostos(PedidosSena, pedidoSena')
      BY <2>1, <2>4
    <3>2. SP!Sozinho' /\ SP!Serie /\ SP!Sozinho /\ SP!IInv
      BY <3>1, SemSobrepor DEF DaSena
    <3> QED
      BY <2>1, <3>2, InstanciaDaSena, SP!NextSerie
  <2> QED
    BY <2>2, <2>3, <2>4 DEF DaSena
<1>3. CASE UNCHANGED <<vars, sena, concorreu>>
  BY <1>3, PremiosParado, SenaParada
<1> QED
  BY <1>1, <1>2, <1>3 DEF ProdutosNext

LEMMA ProdutosSempre == ProdutosSpec => [](DePremios /\ DaSena)
BY InitProdutos, NextProdutos, PTL DEF ProdutosSpec
-----------------------------------------------------------------------------
\* The wallets, the cards and the materialisation of the Sena's sales, for any requests of
\* the two products in flight (SenaConfere).
THEOREM SenaSempreConfere == ProdutosSpec => []SenaConfere
<1>1. DaSena => SenaConfere
  <2> SUFFICES ASSUME SP!IInv PROVE SenaConfere
    BY DEF DaSena
  <2>1. Sena!TypeOK
    BY DEF SP!IInv, SP!TypeOK, Sena!TypeOK, SP!StatusVendaSena, Sena!StatusVendaSena,
           SP!Pedido, Sena!Pedido, SP!Passos, Sena!Passos
  <2>2. Sena!SaldosDaSena
    BY MesmaConta DEF SP!IInv, SP!SaldosDaSena, Sena!SaldosDaSena
  <2>3. Sena!CartelasDaSena /\ Sena!DistribuidorDaSenaUmaVez
    BY DEF SP!IInv, SP!CartelasDaSena, Sena!CartelasDaSena, SP!DistribuidorDaSenaUmaVez,
           Sena!DistribuidorDaSenaUmaVez
  <2> QED
    BY <2>1, <2>2, <2>3 DEF SenaConfere
<1> QED
  BY <1>1, ProdutosSempre, PTL

\* A product whose requests came one at a time, failing wherever they may, has every sale's
\* status telling its tickets or cards and its seller's commission (VendaCoerenteEmSerie).
THEOREM VendaSempreCoerenteEmSerie == ProdutosSpec => []VendaCoerenteEmSerie
<1>1. DePremios /\ DaSena => VendaCoerenteEmSerie
  <2>1. SP!VendaCoerente => Sena!VendaCoerente
    BY DEF SP!VendaCoerente, Sena!VendaCoerente
  <2> QED
    BY <2>1 DEF DePremios, DaSena, Serie, SP!Serie, VendaCoerenteEmSerie
<1> QED
  BY <1>1, ProdutosSempre, PTL
-----------------------------------------------------------------------------
(***************************************************************************)
(* The judging beside the sales.  Its steps are those of                   *)
(* CicloSena_proofs, and the sales do not move its variables.              *)
(***************************************************************************)
CP == INSTANCE CicloSena_proofs WITH
          Edicoes <- EdicoesSena, Vendas <- VendasApuradas, EdicaoDaVenda <- EdicaoDaVendaSena,
          Cartelas <- CartelasSena, VendaDe <- VendaDaCartela, Atendimentos <- AtendimentosSena,
          venda <- vendaApurada, atendimento <- atendimentoSena,
          Numeros <- NumerosDaCartela, Extra <- ExtraDaCartela, Pedidos <- PedidosAdmin,
          Jobs <- JobsDoCiclo, status <- edicaoSena, pedido <- admin, concorreu <- apurouJunto

LEMMA MesmaContaSena ==
    /\ \A S : Cardinality(S) = CP!Cardinality(S)
    /\ \A S : Ed!Cardinality(S) = CP!Cardinality(S)
<1>1. \A S : Cardinality(S) = CP!Cardinality(S)
  BY Zenon DEF Cardinality, CP!Cardinality
<1>2. \A S : Ed!Cardinality(S) = CP!Cardinality(S)
  BY Zenon DEF Ed!Cardinality, CP!Cardinality
<1> QED
  BY <1>1, <1>2

LEMMA SuposicaoDaSena == CP!CicloSenaAssumption
BY MesmaContaSena, ApuracaoAssumption DEF CP!CicloSenaAssumption

LEMMA MesmaEdicao == Ed!EdicaoDe = CP!EdicaoDe
BY DEF Ed!EdicaoDe, CP!EdicaoDe

\* The two instances of CicloSena give a card the same band.
LEMMA MesmaFaixa == \A c, r : Ed!Faixa(c, r) = CP!Faixa(c, r)
BY MesmaContaSena, Zenon DEF Ed!Faixa, CP!Faixa

LEMMA MesmoInicioDoCiclo == Ed!SerieInit => CP!SerieInit
BY DEF Ed!SerieInit, CP!SerieInit, Ed!Init, CP!Init, Ed!Ocioso, CP!Ocioso, Ed!CicloOcioso,
       CP!CicloOcioso, Ed!Parado, CP!Parado

\* So do their steps, first those of the counter.
LEMMA MesmoPassoDaVenda == Ed!PassoDaVenda => CP!PassoDaVenda
<1> USE DEF Ed!Atender, CP!Atender, Ed!Parado, CP!Parado, Ed!Largar, CP!Largar
<1>1. /\ \A v : Ed!ComLinha(v) = CP!ComLinha(v)
      /\ \A v : Ed!Emitir(v) => CP!Emitir(v)
  BY DEF Ed!ComLinha, CP!ComLinha, Ed!DaVenda, CP!DaVenda, Ed!TemLinha, CP!TemLinha, Ed!Faixas,
         CP!Faixas, Ed!Emitir, CP!Emitir
<1>2. \A v : /\ Ed!Confirmando(v)' = CP!Confirmando(v)'
             /\ Ed!Cancelando(v)' = CP!Cancelando(v)'
  BY DEF Ed!Confirmando, CP!Confirmando, Ed!Cancelando, CP!Cancelando
<1>3. ASSUME NEW a \in AtendimentosSena, NEW v \in VendasApuradas
      PROVE  /\ Ed!PedirVenda(a, v) => CP!PedirVenda(a, v)
             /\ Ed!LerParaConfirmar(a, v) => CP!LerParaConfirmar(a, v)
             /\ Ed!LerParaCancelar(a, v) => CP!LerParaCancelar(a, v)
  BY DEF Ed!PedirVenda, CP!PedirVenda, Ed!LerParaConfirmar, CP!LerParaConfirmar,
         Ed!LerParaCancelar, CP!LerParaCancelar
<1>4. ASSUME NEW a \in AtendimentosSena
      PROVE  /\ Ed!InserirVenda(a) => CP!InserirVenda(a)
             /\ Ed!InserirManual(a) => CP!InserirManual(a)
             /\ Ed!RecusarVenda(a) => CP!RecusarVenda(a)
             /\ Ed!ConfirmarPagamento(a) => CP!ConfirmarPagamento(a)
  BY <1>1 DEF Ed!InserirVenda, CP!InserirVenda, Ed!InserirManual, CP!InserirManual,
         Ed!RecusarVenda, CP!RecusarVenda, Ed!ConfirmarPagamento, CP!ConfirmarPagamento,
         Ed!Existe, CP!Existe, Ed!StatusEdicaoSena, CP!StatusEdicaoSena
<1>5. ASSUME NEW a \in AtendimentosSena
      PROVE  /\ Ed!VerCartelas(a) => CP!VerCartelas(a)
             /\ Ed!CancelarVenda(a) => CP!CancelarVenda(a)
             /\ Ed!LargarVenda(a) => CP!LargarVenda(a)
  BY <1>1 DEF Ed!VerCartelas, CP!VerCartelas, Ed!CancelarVenda, CP!CancelarVenda,
         Ed!LargarVenda, CP!LargarVenda
<1>6. CP!edicao = Ed!edicao /\ CP!edicao' = Ed!edicao'
  BY DEF CP!edicao, Ed!edicao
<1> QED
  BY <1>2, <1>3, <1>4, <1>5, <1>6 DEF Ed!PassoDaVenda, CP!PassoDaVenda

\* Then those of the ADMIN and of the job.
LEMMA MesmoPassoDaEdicao == Ed!PassoDaEdicao => CP!PassoDaEdicao
<1> USE DEF Ed!edicao, CP!edicao, Ed!Existe, CP!Existe, Ed!StatusEdicaoSena, CP!StatusEdicaoSena
<1>1. ASSUME NEW e \in EdicoesSena
      PROVE  /\ Ed!Passar(e) => CP!Passar(e)
             /\ Ed!Criar(e) => CP!Criar(e)
  BY DEF Ed!Passar, CP!Passar, Ed!Criar, CP!Criar, Ed!Tempos, CP!Tempos
<1>2. Ed!vendas = CP!vendas /\ Ed!vendas' = CP!vendas'
  BY DEF Ed!vendas, CP!vendas
<1>3. ASSUME NEW p \in PedidosAdmin, NEW e \in EdicoesSena
      PROVE  /\ Ed!IniciarEdicao(p, e) => CP!IniciarEdicao(p, e)
             /\ Ed!IniciarAtivacao(p, e) => CP!IniciarAtivacao(p, e)
             /\ Ed!IniciarEncerramento(p, e) => CP!IniciarEncerramento(p, e)
             /\ Ed!IniciarRemocao(p, e) => CP!IniciarRemocao(p, e)
  BY DEF Ed!IniciarEdicao, CP!IniciarEdicao, Ed!IniciarAtivacao, CP!IniciarAtivacao,
         Ed!IniciarEncerramento, CP!IniciarEncerramento, Ed!IniciarRemocao,
         CP!IniciarRemocao, Ed!Novo, CP!Novo, Ed!Ocioso, CP!Ocioso
<1>4. ASSUME NEW p \in PedidosAdmin, NEW e \in EdicoesSena
      PROVE  /\ \A r \in Resultados : Ed!IniciarResultado(p, e, r) => CP!IniciarResultado(p, e, r)
             /\ Ed!IniciarApuracao(p, e) => CP!IniciarApuracao(p, e)
  BY DEF Ed!IniciarResultado, CP!IniciarResultado, Ed!IniciarApuracao, CP!IniciarApuracao
<1>5. ASSUME NEW p \in PedidosAdmin
      PROVE  /\ Ed!Editar(p) => CP!Editar(p)
             /\ Ed!ProcurarConflito(p) => CP!ProcurarConflito(p)
             /\ Ed!Ativar(p) => CP!Ativar(p)
             /\ Ed!EncerrarEdicao(p) => CP!EncerrarEdicao(p)
  BY DEF Ed!Editar, CP!Editar, Ed!ProcurarConflito, CP!ProcurarConflito, Ed!Ativar,
         CP!Ativar, Ed!EncerrarEdicao, CP!EncerrarEdicao, Ed!MudarStatus, CP!MudarStatus,
         Ed!OutraAtiva, CP!OutraAtiva, Ed!Encerrar, CP!Encerrar, Ed!Ocioso, CP!Ocioso,
         Ed!Tempos, CP!Tempos
<1>6. ASSUME NEW p \in PedidosAdmin
      PROVE  /\ Ed!Remover(p) => CP!Remover(p)
             /\ Ed!GravarResultado(p) => CP!GravarResultado(p)
             /\ Ed!Avancar(p) => CP!Avancar(p)
  BY DEF Ed!Remover, CP!Remover, Ed!GravarResultado, CP!GravarResultado, Ed!Avancar,
         CP!Avancar, Ed!MudarStatus, CP!MudarStatus, Ed!SemFilhos, CP!SemFilhos,
         Ed!TemLinha, CP!TemLinha, Ed!Faixas, CP!Faixas, Ed!EdicaoDe, CP!EdicaoDe, Ed!Encerrar, CP!Encerrar, Ed!Ocioso, CP!Ocioso
<1>7. ASSUME NEW p \in PedidosAdmin
      PROVE  /\ Ed!ListarCartelas(p) => CP!ListarCartelas(p)
             /\ \A c \in CartelasSena : Ed!Julgar(p, c) => CP!Julgar(p, c)
  BY MesmaFaixa, MesmaEdicao
     DEF Ed!ListarCartelas, CP!ListarCartelas, Ed!Julgar, CP!Julgar, Ed!TemLinha,
         CP!TemLinha, Ed!Faixas, CP!Faixas
<1>8. ASSUME NEW p \in PedidosAdmin
      PROVE  /\ Ed!Finalizar(p) => CP!Finalizar(p)
             /\ Ed!Falhar(p) => CP!Falhar(p)
  BY DEF Ed!Finalizar, CP!Finalizar, Ed!Falhar, CP!Falhar, Ed!Encerrar, CP!Encerrar,
         Ed!Ocioso, CP!Ocioso
<1>9. ASSUME NEW j \in JobsDoCiclo
      PROVE  /\ Ed!ListarExpiradas(j) => CP!ListarExpiradas(j)
             /\ Ed!EncerrarExpiradas(j) => CP!EncerrarExpiradas(j)
             /\ Ed!ProcurarAtiva(j) => CP!ProcurarAtiva(j)
  BY DEF Ed!ListarExpiradas, CP!ListarExpiradas, Ed!EncerrarExpiradas,
         CP!EncerrarExpiradas, Ed!ProcurarAtiva, CP!ProcurarAtiva, Ed!Expiradas,
         CP!Expiradas, Ed!IrPara, CP!IrPara
<1>10. ASSUME NEW j \in JobsDoCiclo
       PROVE /\ Ed!EscolherRascunho(j) => CP!EscolherRascunho(j)
             /\ Ed!AtivarRascunho(j) => CP!AtivarRascunho(j)
             /\ Ed!FalharCiclo(j) => CP!FalharCiclo(j)
  BY DEF Ed!EscolherRascunho, CP!EscolherRascunho, Ed!AtivarRascunho, CP!AtivarRascunho,
         Ed!FalharCiclo, CP!FalharCiclo, Ed!Rascunhos, CP!Rascunhos, Ed!IrPara, CP!IrPara
<1> QED
  BY <1>1, <1>2, <1>3, <1>4, <1>5, <1>6, <1>7, <1>8, <1>9, <1>10
     DEF Ed!PassoDaEdicao, CP!PassoDaEdicao

LEMMA MesmoPassoDoCiclo == Ed!Next => CP!Next
BY MesmoPassoDaEdicao, MesmoPassoDaVenda DEF Ed!Next, CP!Next

LEMMA MesmaSerie == Ed!SerieNext => CP!SerieNext
<1>1. (Ed!Sobrepostos <=> CP!Sobrepostos) /\ \A p : Ed!Interrompe(p) <=> CP!Interrompe(p)
  BY DEF Ed!Sobrepostos, CP!Sobrepostos, Ed!NoAr, CP!NoAr, Ed!Rodando, CP!Rodando,
         Ed!Interrompe, CP!Interrompe
<1>2. Ed!Sobrepostos' <=> CP!Sobrepostos'
  BY DEF Ed!Sobrepostos, CP!Sobrepostos, Ed!NoAr, CP!NoAr, Ed!Rodando, CP!Rodando
<1> QED
  BY <1>1, <1>2, MesmoPassoDoCiclo DEF Ed!SerieNext, CP!SerieNext

\* The behaviours of the whole are behaviours of the cycle.
LEMMA PlataformaEhCiclo == PlataformaSpec => CP!SerieSpec
<1>1. PlataformaInit => CP!SerieInit
  BY MesmoInicioDoCiclo DEF PlataformaInit
<1>2. [PlataformaNext]_<<vars, sena, concorreu, apuracao>>
         => [CP!SerieNext]_<<CP!vars, CP!historia>>
  <2>1. UNCHANGED apuracao => UNCHANGED <<CP!vars, CP!historia>>
    BY DEF apuracao, CP!vars, CP!edicao, CP!vendas, CP!historia
  <2>2. PassoDaApuracao => CP!SerieNext
    BY MesmaSerie DEF PassoDaApuracao
  <2> QED
    BY <2>1, <2>2 DEF PlataformaNext, PassoDeVendas
<1> QED
  BY <1>1, <1>2, PTL DEF PlataformaSpec, CP!SerieSpec

\* And, without the judging, of the sales.
LEMMA PlataformaEhProdutos == PlataformaSpec => ProdutosSpec
<1>1. PlataformaInit => ProdutosInit
  BY DEF PlataformaInit
<1>2. [PlataformaNext]_<<vars, sena, concorreu, apuracao>> => [ProdutosNext]_<<vars, sena, concorreu>>
  BY DEF PlataformaNext, PassoDeVendas, PassoDaApuracao
<1> QED
  BY <1>1, <1>2, PTL DEF PlataformaSpec, ProdutosSpec

LEMMA MesmosTipos == CP!TypeOK => Ed!TypeOK
<1>1. CP!TiposDaEdicao => Ed!TiposDaEdicao
  BY DEF CP!TiposDaEdicao, Ed!TiposDaEdicao, CP!StatusEdicaoSena, Ed!StatusEdicaoSena,
         CP!Tempos, Ed!Tempos, CP!Cartoes, Ed!Cartoes, CP!Faixas, Ed!Faixas, CP!Pedido,
         Ed!Pedido, CP!Passos, Ed!Passos, CP!PassosDoCiclo, Ed!PassosDoCiclo
<1>2. CP!TiposDaVenda => Ed!TiposDaVenda
  BY DEF CP!TiposDaVenda, Ed!TiposDaVenda, CP!Atendimento, Ed!Atendimento
<1> QED
  BY <1>1, <1>2 DEF CP!TypeOK, Ed!TypeOK

\* The judging beside the sales: results before bands, removals without trace, and the right
\* bands one at a time (ApuracaoConfere).
THEOREM ApuracaoSempreConfere == PlataformaSpec => []ApuracaoConfere
<1>1. CP!ApuracaoConfere => ApuracaoConfere
  <2> SUFFICES ASSUME CP!ApuracaoConfere PROVE ApuracaoConfere
    OBVIOUS
  <2>1. Ed!TypeOK
    BY MesmosTipos DEF CP!ApuracaoConfere
  <2>2. Ed!ResultadoAntesDeApurar /\ Ed!RemovidaSemRastro
    BY DEF CP!ApuracaoConfere, CP!ResultadoAntesDeApurar, Ed!ResultadoAntesDeApurar,
           CP!RemovidaSemRastro, Ed!RemovidaSemRastro, CP!Faixas, Ed!Faixas, CP!EdicaoDe, Ed!EdicaoDe
  <2>3. ~apurouJunto /\ ~interrompida => Ed!FaixasCorretas
    BY MesmaFaixa, MesmaEdicao DEF CP!ApuracaoConfere, CP!FaixasCorretas, Ed!FaixasCorretas, CP!Faixas, Ed!Faixas
  <2> QED
    BY <2>1, <2>2, <2>3 DEF ApuracaoConfere, Ed!ApuracaoConfere
<1>2. CP!SerieSpec => []CP!ApuracaoConfere
  BY SuposicaoDaSena, CP!ApuracaoSempreConfere
<1> QED
  BY <1>1, <1>2, PlataformaEhCiclo, PTL

\* A cancelled sale keeps no card and is not approved again unless it was confirmed as it was
\* cancelled, and the editions walk on their edges one at a time (CicloDaSenaSegue).
THEOREM CicloDaSenaSempreSegue == PlataformaSpec => CicloDaSenaSegue
<1>1. CP!SerieSpec => CP!CicloDaSenaSegue
  BY SuposicaoDaSena, CP!CicloSempreSegue
<1>2. CP!TypeOK /\ CP!CanceladaSemCartela => Ed!TypeOK /\ Ed!CanceladaSemCartela
  BY MesmosTipos DEF CP!CanceladaSemCartela, Ed!CanceladaSemCartela, CP!ComLinha, Ed!ComLinha,
     CP!DaVenda, Ed!DaVenda, CP!TemLinha, Ed!TemLinha, CP!Faixas, Ed!Faixas
<1>3. Ed!vars = CP!vars /\ Ed!vars' = CP!vars'
  BY DEF Ed!vars, CP!vars, Ed!edicao, CP!edicao, Ed!vendas, CP!vendas
<1>4. [\A v \in VendasApuradas \ disputadas' :
          vendaApurada[v] = "CANCELADO" => vendaApurada'[v] # "APROVADO"]_CP!vars
         => [\A v \in VendasApuradas \ disputadas' :
                vendaApurada[v] = "CANCELADO" => vendaApurada'[v] # "APROVADO"]_Ed!vars
  BY <1>3
<1>5. [~apurouJunto' => \A e \in EdicoesSena : CP!CicloPermitido(e)]_<<CP!vars, CP!historia>>
         => [~apurouJunto' => \A e \in EdicoesSena : Ed!CicloPermitido(e)]_<<Ed!vars, Ed!historia>>
  BY <1>3 DEF CP!CicloPermitido, Ed!CicloPermitido, CP!Ciclo, Ed!Ciclo, Ed!historia, CP!historia
<1> QED
  BY <1>1, <1>2, <1>4, <1>5, PlataformaEhCiclo, PTL
     DEF CicloDaSenaSegue, Ed!CicloDaSenaSegue, CP!CicloDaSenaSegue, Ed!CanceladaNaoVolta,
         CP!CanceladaNaoVolta, Ed!AndaEmSerie, CP!AndaEmSerie
=============================================================================
