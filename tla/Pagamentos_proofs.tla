-------------------------- MODULE Pagamentos_proofs ---------------------------
(***************************************************************************)
(* What comes from outside, for any sales, requests and number of          *)
(* notifications: a payment is worth one approval, and a sale that waits   *)
(* is asked about at the provider that charged it, whatever notifications  *)
(* are repeated, crossed, lost with a process or late for their lock; who  *)
(* sold sees the sale and its channels agree; a message of the contact     *)
(* form is saved once in its cooldown, under limits that yield; the        *)
(* payload of a charge keeps its provider and the reason of a              *)
(* cancellation; what is in the database has its record in the trail; and  *)
(* what a channel shows of an edition is what it charges and delivers.     *)
(***************************************************************************)
EXTENDS Canais, Sequences, FiniteSetTheorems, WellFoundedInduction, TLAPS

Pedido == [passo : Passos, v : Vendas \cup {Nulo}, forma : TodasFormas, pago : BOOLEAN]

Recebida(v) == cobranca[v].situacao \in {"paga", "estornada"}

\* A sale and its charge: they come together, a card is at PagBank, what is taken back or
\* given up is of a sale that waits no more, and a sale that waits with its gatewayId names in
\* its payload the provider of its charge.
CobrancaCoerente(v) ==
    /\ venda[v].status = "nenhuma" <=> cobranca[v].situacao = "inexistente"
    /\ venda[v].status = "nenhuma" => ~venda[v].gatewayId
    /\ venda[v].status # "nenhuma" <=> cobranca[v].prov \in Provedores
    /\ venda[v].status # "nenhuma" /\ v \in Cartao => cobranca[v].prov = "PAGBANK"
    /\ venda[v].status = "PENDENTE" =>
           /\ cobranca[v].situacao \notin {"cancelada", "estornada"}
           /\ venda[v].gatewayId /\ v \notin Cartao => venda[v].chave = cobranca[v].prov

\* What a notification says is, or was, so; and who trusts it says that it is paid.
AvisoVerdadeiro(v, pago) == venda[v].status # "nenhuma" /\ (pago => Recebida(v))

\* A request looks for a sale, and goes on to approve it, when the charge was paid.
JaConsultou == {"buscar", "buscarSena", "confirmar", "aprovar"}
PedidoCoerente(p) ==
    pedido[p].passo # "ocioso" =>
        /\ AvisoVerdadeiro(pedido[p].v, pedido[p].pago)
        /\ ConfiaNoCorpo(pedido[p].v) => pedido[p].pago
        /\ pedido[p].passo \in JaConsultou => Recebida(pedido[p].v)

\* Of the requests that serve a sale nobody disputes one has the lock; and a sale that
\* waits, or is about to be approved under its lock, was approved by nobody.
UmPorVez(v) ==
    /\ venda[v].status \in {"nenhuma", "PENDENTE"} => aprovacoes[v] = 0
    /\ v \notin disputada =>
           /\ \A p, q \in Atendem(v) :
                  pedido[p].passo \in ComTrava /\ pedido[q].passo \in ComTrava => p = q
           /\ \A p \in Atendem(v) : pedido[p].passo = "aprovar" => aprovacoes[v] = 0

\* Somebody will approve v: a request that has not given up, or a notification to come, of
\* which the body, where it is trusted, says that it is paid.
AindaAndam == JaConsultou \cup {"trava", "consultar"}
Andamento(v) ==
    \/ \E p \in Atendem(v) : pedido[p].passo \in AindaAndam /\ (ConfiaNoCorpo(v) => pedido[p].pago)
    \/ \E a \in fila : a[1] = v /\ (ConfiaNoCorpo(v) => a[3])
AvisadaAnda(v) ==
    /\ v \in avisada => Recebida(v)
    /\ v \in avisada \ engolida /\ venda[v].status = "PENDENTE" => Andamento(v)

IInv ==
    /\ TypeOK
    /\ \A a \in fila : AvisoVerdadeiro(a[1], a[3])
    /\ \A p \in Pedidos : PedidoCoerente(p)
    /\ \A v \in Vendas : CobrancaCoerente(v) /\ UmPorVez(v) /\ AvisadaAnda(v)
    /\ avisada \subseteq Vendas /\ ConfirmadaUmaVez /\ AprovadaFoiPaga

-----------------------------------------------------------------------------
LEMMA OciosoTipado == Ocioso \in Pedido /\ Ocioso.passo = "ocioso" /\ Ocioso.v = Nulo
BY DEF Ocioso, Pedido, Passos, TodasFormas, FormasFsPay, FormasAgilizePay, FormasMercadoPago,
   FormasPagBankPix

LEMMA PedidosTipados ==
    ASSUME TypeOK
    PROVE  /\ pedido \in [Pedidos -> Pedido]
           /\ \A p \in Pedidos : pedido[p].passo # "ocioso" => pedido[p].v \in Vendas
BY DEF TypeOK, Pedido

LEMMA InitIInv == Init => IInv
<1> SUFFICES ASSUME Init PROVE IInv
  OBVIOUS
<1>1. TypeOK
  BY OciosoTipado, PagamentosAssumption DEF Init, TypeOK, Pedido
<1>2. \A p \in Pedidos : PedidoCoerente(p) /\ pedido[p].v = Nulo
  BY OciosoTipado DEF Init, PedidoCoerente
<1>3. ASSUME NEW v \in Vendas PROVE CobrancaCoerente(v) /\ UmPorVez(v) /\ AvisadaAnda(v)
  <2>1. Atendem(v) = {}
    BY <1>2, PagamentosAssumption DEF Atendem
  <2> QED
    BY <2>1, PagamentosAssumption DEF Init, CobrancaCoerente, UmPorVez, AvisadaAnda
<1>4. ConfirmadaUmaVez /\ AprovadaFoiPaga
  BY DEF Init, ConfirmadaUmaVez, AprovadaFoiPaga
<1> QED
  BY <1>1, <1>2, <1>3, <1>4 DEF IInv, Init
-----------------------------------------------------------------------------
(* The requests. *)

\* A request goes on with its sale, or ends; the rows and the gateway stay.  It looks for the
\* sale when it was paid, comes by a lock alone or in a dispute, approves what waits, and gives
\* up a notification that was processed only when that is recorded.
LEMMA PedidoAndaIInv ==
    ASSUME IInv, NEW p \in Pedidos, NEW r \in Pedido, NEW v, v = pedido[p].v,
           pedido[p].passo # "ocioso", pedido' = [pedido EXCEPT ![p] = r],
           r = Ocioso \/ (r.v = v /\ r.pago = pedido[p].pago /\ r.passo # "ocioso"),
           r.passo \in JaConsultou => Recebida(v),
           r.passo \in ComTrava =>
               \/ pedido[p].passo \in ComTrava \/ v \in disputada'
               \/ \A q \in Atendem(v) \ {p} : pedido[q].passo \notin ComTrava,
           r.passo = "aprovar" => venda[v].status = "PENDENTE",
           v \in avisada' \ engolida' /\ venda[v].status = "PENDENTE" =>
               \/ r.passo \in AindaAndam
               \/ pedido[p].passo \notin AindaAndam /\ v \in avisada,
           trava' \in [Chaves -> Pedidos \cup {Nulo}],
           UNCHANGED <<venda, gateway, aprovacoes, pelaTela>>,
           disputada \subseteq disputada', engolida \subseteq engolida',
           avisada' = avisada \/ (avisada' = avisada \cup {v} /\ Recebida(v))
    PROVE  IInv'
<1> USE DEF gateway
<1>1. v \in Vendas /\ pedido \in [Pedidos -> Pedido] /\ TypeOK /\ avisada' \subseteq Vendas
  BY PedidosTipados DEF IInv
<1>2. pedido'[p] = r /\ \A q \in Pedidos \ {p} : pedido'[q] = pedido[q]
  BY <1>1
<1>3. r.v = Nulo <=> r.passo = "ocioso"
  BY <1>1, OciosoTipado, PagamentosAssumption
<1>4. TypeOK'
  <2>1. pedido' \in [Pedidos -> [passo : Passos, v : Vendas \cup {Nulo},
                                forma : TodasFormas, pago : BOOLEAN]]
    BY <1>1 DEF Pedido
  <2>2. \A q \in Pedidos : pedido'[q].v = Nulo <=> pedido'[q].passo = "ocioso"
    BY <1>1, <1>2, <1>3 DEF TypeOK
  <2> QED
    BY <1>1, <2>1, <2>2 DEF TypeOK
<1>5. \A a \in fila' : AvisoVerdadeiro(a[1], a[3])'
  BY DEF IInv, AvisoVerdadeiro, Recebida
<1>6. ASSUME NEW q \in Pedidos PROVE PedidoCoerente(q)'
  <2>1. PedidoCoerente(p) /\ PedidoCoerente(q)
    BY DEF IInv
  <2>2. CASE q = p
    BY <1>2, <2>1, <2>2, OciosoTipado DEF PedidoCoerente, AvisoVerdadeiro, Recebida, ConfiaNoCorpo
  <2>3. CASE q # p
    BY <1>2, <2>1, <2>3 DEF PedidoCoerente, AvisoVerdadeiro, Recebida, ConfiaNoCorpo
  <2> QED
    BY <2>2, <2>3
<1>7. ASSUME NEW w \in Vendas PROVE CobrancaCoerente(w)' /\ UmPorVez(w)'
  <2>1. CobrancaCoerente(w)'
    BY DEF IInv, CobrancaCoerente
  <2>2. UmPorVez(w)
    BY DEF IInv
  <2>3. CASE w # v
    <3>1. r.v # w
      BY <2>3, OciosoTipado, PagamentosAssumption
    <3>2. Atendem(w)' \subseteq Atendem(w) \ {p}
      BY <1>2, <3>1 DEF Atendem
    <3> QED
      BY <1>2, <2>1, <2>2, <3>2 DEF UmPorVez
  <2>4. CASE w = v
    <3>1. Atendem(v)' \subseteq Atendem(v) /\ p \in Atendem(v)
      BY <1>2 DEF Atendem
    <3>2. venda[v].status \in {"nenhuma", "PENDENTE"} => aprovacoes[v] = 0
      BY <2>2, <2>4 DEF UmPorVez
    <3>3. ASSUME v \notin disputada', NEW a \in Atendem(v)', NEW b \in Atendem(v)',
                 pedido'[a].passo \in ComTrava, pedido'[b].passo \in ComTrava
          PROVE  a = b
      <4>1. a \in Pedidos /\ b \in Pedidos
        BY DEF Atendem
      <4>2. CASE a # p /\ b # p
        BY <1>2, <2>2, <2>4, <3>1, <3>3, <4>1, <4>2 DEF UmPorVez
      <4>3. CASE a = p /\ b # p
        BY <1>2, <2>2, <2>4, <3>1, <3>3, <4>1, <4>3 DEF UmPorVez
      <4>4. CASE a # p /\ b = p
        BY <1>2, <2>2, <2>4, <3>1, <3>3, <4>1, <4>4 DEF UmPorVez
      <4> QED
        BY <4>2, <4>3, <4>4
    <3>4. ASSUME v \notin disputada', NEW a \in Atendem(v)', pedido'[a].passo = "aprovar"
          PROVE  aprovacoes[v] = 0
      <4>1. CASE a = p
        BY <1>2, <3>2, <3>4, <4>1
      <4>2. CASE a # p
        BY <1>2, <2>2, <2>4, <3>1, <3>4, <4>2 DEF UmPorVez, Atendem
      <4> QED
        BY <4>1, <4>2
    <3> QED
      BY <2>1, <2>4, <3>2, <3>3, <3>4 DEF UmPorVez
  <2> QED
    BY <2>3, <2>4
<1>8. ASSUME NEW w \in Vendas PROVE AvisadaAnda(w)'
  <2>1. AvisadaAnda(w) /\ PedidoCoerente(p)
    BY DEF IInv
  <2>2. w \in avisada' => Recebida(w)'
    BY <2>1 DEF AvisadaAnda, Recebida
  <2>3. ASSUME w \in avisada' \ engolida', venda[w].status = "PENDENTE" PROVE Andamento(w)'
    <3>1. CASE w = v /\ r.passo \in AindaAndam
      <4>1. p \in Atendem(w)' /\ pedido'[p].passo \in AindaAndam
        BY <1>2, <3>1, OciosoTipado DEF Atendem, AindaAndam, JaConsultou
      <4>2. ConfiaNoCorpo(w)' => pedido'[p].pago
        BY <1>2, <2>1, <3>1, <4>1, OciosoTipado
        DEF PedidoCoerente, ConfiaNoCorpo, AindaAndam, JaConsultou
      <4> QED
        BY <4>1, <4>2 DEF Andamento
    <3>2. CASE w # v \/ r.passo \notin AindaAndam
      <4>1. Andamento(w) /\ (w = v => pedido[p].passo \notin AindaAndam)
        BY <2>1, <2>3, <3>2 DEF AvisadaAnda
      <4>2. ASSUME NEW q \in Atendem(w), pedido[q].passo \in AindaAndam,
                   ConfiaNoCorpo(w) => pedido[q].pago
            PROVE  Andamento(w)'
        <5>1. q # p /\ q \in Pedidos /\ q \in Atendem(w)' /\ pedido'[q] = pedido[q]
          BY <1>2, <4>1, <4>2 DEF Atendem
        <5> QED
          BY <4>2, <5>1 DEF Andamento, ConfiaNoCorpo
      <4>3. ASSUME NEW a \in fila, a[1] = w, ConfiaNoCorpo(w) => a[3] PROVE Andamento(w)'
        BY <4>3 DEF Andamento, ConfiaNoCorpo
      <4> QED
        BY <4>1, <4>2, <4>3 DEF Andamento
    <3> QED
      BY <3>1, <3>2
  <2> QED
    BY <2>2, <2>3 DEF AvisadaAnda
<1>9. ConfirmadaUmaVez' /\ AprovadaFoiPaga'
  BY DEF IInv, ConfirmadaUmaVez, AprovadaFoiPaga
<1> QED
  BY <1>1, <1>4, <1>5, <1>6, <1>7, <1>8, <1>9 DEF IInv
\* The same of a request that goes on to another step.
LEMMA SegueIInv ==
    ASSUME IInv, NEW p \in Pedidos, NEW x \in Passos \ {"ocioso"}, NEW v, v = pedido[p].v,
           pedido[p].passo # "ocioso", Seguir(p, x),
           x \in JaConsultou => Recebida(v),
           x \in ComTrava =>
               \/ pedido[p].passo \in ComTrava \/ v \in disputada'
               \/ \A q \in Atendem(v) \ {p} : pedido[q].passo \notin ComTrava,
           x = "aprovar" => venda[v].status = "PENDENTE",
           v \in avisada' \ engolida' /\ venda[v].status = "PENDENTE" =>
               \/ x \in AindaAndam
               \/ pedido[p].passo \notin AindaAndam /\ v \in avisada,
           trava' \in [Chaves -> Pedidos \cup {Nulo}],
           UNCHANGED <<venda, gateway, aprovacoes, pelaTela>>,
           disputada \subseteq disputada', engolida \subseteq engolida',
           avisada' = avisada \/ (avisada' = avisada \cup {v} /\ Recebida(v))
    PROVE  IInv'
<1> DEFINE r == [pedido[p] EXCEPT !.passo = x]
<1>1. pedido \in [Pedidos -> Pedido]
  BY PedidosTipados DEF IInv
<1>2. pedido' = [pedido EXCEPT ![p] = r]
  BY DEF Seguir
<1>3. r \in Pedido /\ r.v = v /\ r.pago = pedido[p].pago /\ r.passo = x
  BY <1>1 DEF Pedido
<1>4. x # "ocioso"
  OBVIOUS
<1> HIDE DEF r
<1> QED
  BY <1>2, <1>3, <1>4, PedidoAndaIInv

\* A sale that waits, of which a payment was processed, is paid; whoever gives it up records it.
LEMMA AvisadaPaga ==
    ASSUME IInv, NEW v \in avisada, venda[v].status = "PENDENTE" PROVE Paga(v)
BY DEF IInv, AvisadaAnda, Recebida, CobrancaCoerente, Paga

LEMMA EngolirIInv ==
    ASSUME IInv, NEW p \in Pedidos, pedido[p].passo # "ocioso", Engolir(p)
    PROVE  /\ engolida \subseteq engolida'
           /\ pedido[p].v \in avisada /\ venda[pedido[p].v].status = "PENDENTE" =>
                  pedido[p].v \in engolida'
BY AvisadaPaga DEF Engolir

LEMMA TravarIInv == ASSUME IInv, NEW p \in Pedidos, Travar(p) PROVE IInv'
<1> DEFINE v == pedido[p].v
           x == IF ConfiaNoCorpo(v) THEN "buscar" ELSE "consultar"
<1>1. x \in Passos \ {"ocioso"} /\ Seguir(p, x) /\ pedido[p].passo = "trava"
  BY DEF Travar, Passos
<1>2. PedidoCoerente(p) /\ TypeOK
  BY DEF IInv
<1>3. x \in JaConsultou => Recebida(v)
  BY <1>1, <1>2 DEF PedidoCoerente, AvisoVerdadeiro, JaConsultou
<1>4. v \in disputada' \/ \A q \in Atendem(v) \ {p} : pedido[q].passo \notin ComTrava
  BY PagamentosAssumption DEF Travar, TravaLivre, Atendem
<1>5. trava' \in [Chaves -> Pedidos \cup {Nulo}]
  BY <1>2 DEF Travar, TypeOK
<1>6. x \in AindaAndam
  BY DEF AindaAndam, JaConsultou
<1>7. x # "aprovar"
  OBVIOUS
<1>8. UNCHANGED <<venda, gateway, aprovacoes, pelaTela, engolida, avisada>> /\ disputada \subseteq disputada'
  BY DEF Travar
<1>9. v = pedido[p].v
  OBVIOUS
<1> HIDE DEF v, x
<1> QED
  BY <1>1, <1>3, <1>4, <1>5, <1>6, <1>7, <1>8, <1>9, SegueIInv

LEMMA DispensarIInv == ASSUME IInv, NEW p \in Pedidos, Dispensar(p) PROVE IInv'
<1>1. /\ pedido[p].passo = "trava" /\ Engolir(p) /\ pedido' = [pedido EXCEPT ![p] = Ocioso]
      /\ UNCHANGED <<venda, trava, gateway, aprovacoes, pelaTela, disputada, avisada>>
  BY DEF Dispensar, Encerrar
<1>2. Ocioso.passo \notin JaConsultou \cup ComTrava
  BY OciosoTipado DEF JaConsultou, ComTrava
<1>3. trava' \in [Chaves -> Pedidos \cup {Nulo}]
  BY <1>1 DEF IInv, TypeOK
<1> QED
  BY <1>1, <1>2, <1>3, OciosoTipado, EngolirIInv, PedidoAndaIInv DEF JaConsultou

\* The steps that ask, read, look and tell.
LEMMA ConsultarIInv == ASSUME IInv, NEW p \in Pedidos, Consultar(p) PROVE IInv'
<1> DEFINE v == pedido[p].v
           x == IF Paga(v) THEN "buscar" ELSE "liberar"
<1>1. /\ pedido[p].passo = "consultar" /\ Seguir(p, x) /\ x \in Passos \ {"ocioso"} /\ x # "aprovar"
      /\ UNCHANGED <<venda, trava, gateway, historia>>
  BY DEF Consultar, Passos
<1>2. x \in JaConsultou => Recebida(v)
  BY DEF JaConsultou, Recebida, Paga
<1>3. v \in avisada /\ venda[v].status = "PENDENTE" => x \in AindaAndam
  BY AvisadaPaga DEF AindaAndam, JaConsultou
<1>4. trava' \in [Chaves -> Pedidos \cup {Nulo}]
  BY <1>1 DEF IInv, TypeOK
<1>5. v = pedido[p].v
  OBVIOUS
<1> HIDE DEF v, x
<1> QED
  BY <1>1, <1>2, <1>3, <1>4, <1>5, SegueIInv DEF historia, ComTrava, Passos

LEMMA ErrarIInv == ASSUME IInv, NEW p \in Pedidos, Errar(p) PROVE IInv'
<1>1. /\ pedido[p].passo \in {"consultar", "aprovar"} /\ Seguir(p, "liberar") /\ Engolir(p)
      /\ UNCHANGED <<venda, trava, gateway, aprovacoes, pelaTela, disputada, avisada>>
  BY DEF Errar
<1>2. "liberar" \in Passos \ {"ocioso"} /\ "liberar" \notin JaConsultou
  BY DEF Passos, JaConsultou
<1>3. trava' \in [Chaves -> Pedidos \cup {Nulo}]
  BY <1>1 DEF IInv, TypeOK
<1> QED
  BY <1>1, <1>2, <1>3, EngolirIInv, SegueIInv DEF ComTrava, Passos

LEMMA AcharIInv ==
    ASSUME IInv, NEW p \in Pedidos, pedido[p].passo \in {"buscar", "buscarSena"}, Achar(p),
           UNCHANGED <<venda, trava, gateway, aprovacoes, pelaTela, disputada>>
    PROVE  IInv'
<1> DEFINE v == pedido[p].v
           x == IF venda[v].status = "PENDENTE" THEN "confirmar" ELSE "liberar"
<1>1. /\ Seguir(p, x) /\ x \in Passos \ {"ocioso"} /\ x # "aprovar"
      /\ avisada' = avisada \cup {v} /\ engolida' = engolida
  BY DEF Achar, Passos
<1>2. Recebida(v)
  BY DEF IInv, PedidoCoerente, JaConsultou
<1>3. venda[v].status = "PENDENTE" => x \in AindaAndam
  BY DEF AindaAndam, JaConsultou
<1>4. trava' \in [Chaves -> Pedidos \cup {Nulo}]
  BY DEF IInv, TypeOK
<1>5. v = pedido[p].v
  OBVIOUS
<1> HIDE DEF v, x
<1> QED
  BY <1>1, <1>2, <1>3, <1>4, <1>5, SegueIInv DEF ComTrava, Passos

LEMMA BuscarIInv == ASSUME IInv, NEW p \in Pedidos, Buscar(p) PROVE IInv'
<1>1. /\ pedido[p].passo = "buscar"
      /\ UNCHANGED <<venda, trava, gateway, aprovacoes, pelaTela, disputada>>
      /\ Achar(p) \/ (Seguir(p, "buscarSena") /\ UNCHANGED <<avisada, engolida>>)
  BY DEF Buscar
<1>2. CASE Achar(p)
  BY <1>1, <1>2, AcharIInv
<1>3. CASE Seguir(p, "buscarSena") /\ UNCHANGED <<avisada, engolida>>
  <2>1. Recebida(pedido[p].v)
    BY <1>1 DEF IInv, PedidoCoerente, JaConsultou
  <2>2. "buscarSena" \in Passos \ {"ocioso"} /\ "buscarSena" \in AindaAndam
    BY DEF Passos, AindaAndam, JaConsultou
  <2>3. trava' \in [Chaves -> Pedidos \cup {Nulo}]
    BY <1>1 DEF IInv, TypeOK
  <2> QED
    BY <1>1, <1>3, <2>1, <2>2, <2>3, SegueIInv DEF ComTrava, Passos
<1> QED
  BY <1>1, <1>2, <1>3

LEMMA BuscarSenaIInv == ASSUME IInv, NEW p \in Pedidos, BuscarSena(p) PROVE IInv'
<1>1. /\ pedido[p].passo = "buscarSena"
      /\ UNCHANGED <<venda, trava, gateway, aprovacoes, pelaTela, disputada>>
      /\ Achar(p) \/ (Engolir(p) /\ Seguir(p, "liberar") /\ UNCHANGED avisada)
  BY DEF BuscarSena
<1>2. CASE Achar(p)
  BY <1>1, <1>2, AcharIInv
<1>3. CASE Engolir(p) /\ Seguir(p, "liberar") /\ UNCHANGED avisada
  <2>1. "liberar" \in Passos \ {"ocioso"} /\ "liberar" \notin JaConsultou
    BY DEF Passos, JaConsultou
  <2>2. trava' \in [Chaves -> Pedidos \cup {Nulo}]
    BY <1>1 DEF IInv, TypeOK
  <2> QED
    BY <1>1, <1>3, <2>1, <2>2, EngolirIInv, SegueIInv DEF ComTrava, Passos
<1> QED
  BY <1>1, <1>2, <1>3

LEMMA LerParaConfirmarIInv == ASSUME IInv, NEW p \in Pedidos, LerParaConfirmar(p) PROVE IInv'
<1> DEFINE v == pedido[p].v
           x == IF venda[v].status = "PENDENTE" THEN "aprovar" ELSE "liberar"
<1>1. /\ pedido[p].passo = "confirmar" /\ Seguir(p, x) /\ x \in Passos \ {"ocioso"}
      /\ UNCHANGED <<venda, trava, gateway, historia>>
  BY DEF LerParaConfirmar, Passos
<1>2. Recebida(v)
  BY <1>1 DEF IInv, PedidoCoerente, JaConsultou
<1>3. /\ x = "aprovar" => venda[v].status = "PENDENTE"
      /\ venda[v].status = "PENDENTE" => x \in AindaAndam
  BY DEF AindaAndam, JaConsultou
<1>4. trava' \in [Chaves -> Pedidos \cup {Nulo}]
  BY <1>1 DEF IInv, TypeOK
<1>5. v = pedido[p].v
  OBVIOUS
<1> HIDE DEF v, x
<1> QED
  BY <1>1, <1>2, <1>3, <1>4, <1>5, SegueIInv DEF historia, ComTrava, Passos

LEMMA NotificarN8nIInv == ASSUME IInv, NEW p \in Pedidos, NotificarN8n(p) PROVE IInv'
<1>1. /\ pedido[p].passo = "notificar" /\ Seguir(p, "liberar")
      /\ UNCHANGED <<venda, trava, gateway, historia>>
  BY DEF NotificarN8n
<1>2. /\ "liberar" \in Passos \ {"ocioso"} /\ "liberar" \notin JaConsultou
      /\ "notificar" \notin AindaAndam
  BY DEF Passos, JaConsultou, AindaAndam
<1>3. trava' \in [Chaves -> Pedidos \cup {Nulo}]
  BY <1>1 DEF IInv, TypeOK
<1> QED
  BY <1>1, <1>2, <1>3, SegueIInv DEF historia, ComTrava, Passos

LEMMA LiberarIInv == ASSUME IInv, NEW p \in Pedidos, Liberar(p) PROVE IInv'
<1>1. /\ pedido[p].passo = "liberar" /\ pedido' = [pedido EXCEPT ![p] = Ocioso]
      /\ UNCHANGED <<venda, gateway, historia>>
  BY DEF Liberar, Encerrar
<1>2. Ocioso.passo \notin JaConsultou \cup ComTrava /\ pedido[p].passo \notin AindaAndam
  BY <1>1, OciosoTipado DEF JaConsultou, ComTrava, AindaAndam
<1>3. trava' \in [Chaves -> Pedidos \cup {Nulo}]
  BY DEF IInv, TypeOK, Liberar
<1> QED
  BY <1>1, <1>2, <1>3, OciosoTipado, PedidoAndaIInv DEF historia, JaConsultou
LEMMA AprovarIInv == ASSUME IInv, NEW p \in Pedidos, Aprovar(p) PROVE IInv'
<1> DEFINE v == pedido[p].v
           x == IF v \in Sena THEN "liberar" ELSE "notificar"
           r == [pedido[p] EXCEPT !.passo = x]
<1>1. /\ pedido[p].passo = "aprovar" /\ pedido' = [pedido EXCEPT ![p] = r]
      /\ venda' = [venda EXCEPT ![v].status = "APROVADO", ![v].chave = ChaveAposAprovar(v)]
      /\ aprovacoes' = [aprovacoes EXCEPT ![v] = @ + 1]
      /\ UNCHANGED <<trava, gateway, pelaTela, disputada, engolida, avisada>>
  BY DEF Aprovar, Seguir
<1>2. TypeOK /\ v \in Vendas /\ pedido \in [Pedidos -> Pedido]
  BY <1>1, PedidosTipados DEF IInv
<1>3. r \in Pedido /\ r.v = v /\ r.pago = pedido[p].pago /\ r.passo = x /\ x \in {"liberar", "notificar"}
  BY <1>2 DEF Pedido, Passos
<1>4. /\ Recebida(v) /\ venda[v].status # "nenhuma"
      /\ v \notin disputada => aprovacoes[v] = 0 /\ \A q \in Atendem(v) \ {p} : pedido[q].passo \notin ComTrava
  <2>1. PedidoCoerente(p) /\ UmPorVez(v) /\ p \in Atendem(v)
    BY <1>2 DEF IInv, Atendem
  <2>2. "aprovar" \in JaConsultou \cap ComTrava
    BY DEF JaConsultou, ComTrava, Passos
  <2> QED
    BY <1>1, <2>1, <2>2 DEF PedidoCoerente, AvisoVerdadeiro, UmPorVez
<1> HIDE DEF r, x
<1>5. pedido'[p] = r /\ \A q \in Pedidos \ {p} : pedido'[q] = pedido[q]
  BY <1>1, <1>2
<1>6. /\ venda'[v].status = "APROVADO" /\ venda'[v].gatewayId = venda[v].gatewayId
      /\ aprovacoes'[v] = aprovacoes[v] + 1
      /\ \A w \in Vendas \ {v} : venda'[w] = venda[w] /\ aprovacoes'[w] = aprovacoes[w]
  BY <1>1, <1>2 DEF TypeOK
<1>7. \A w \in Vendas : Atendem(w)' = Atendem(w)
  BY <1>3, <1>5 DEF Atendem
<1>8. TypeOK'
  <2>1. ChaveAposAprovar(v) \in Provedores \cup {Nulo}
    BY <1>2 DEF TypeOK, ChaveAposAprovar
  <2>2. pedido' \in [Pedidos -> Pedido]
    BY <1>1, <1>2, <1>3
  <2>3. \A q \in Pedidos : pedido'[q].v = Nulo <=> pedido'[q].passo = "ocioso"
    BY <1>2, <1>3, <1>5, PagamentosAssumption DEF TypeOK
  <2>4. venda' \in [Vendas -> [status : {"nenhuma", "PENDENTE", "APROVADO", "CANCELADO"},
                             gatewayId : BOOLEAN, chave : Provedores \cup {Nulo}]]
    <3> DEFINE Linha == [status : {"nenhuma", "PENDENTE", "APROVADO", "CANCELADO"},
                         gatewayId : BOOLEAN, chave : Provedores \cup {Nulo}]
               nova == [venda[v] EXCEPT !.status = "APROVADO", !.chave = ChaveAposAprovar(v)]
    <3>1. venda' = [venda EXCEPT ![v] = nova] /\ venda \in [Vendas -> Linha]
      BY <1>1, <1>2 DEF TypeOK
    <3>2. nova \in Linha
      BY <1>2, <2>1, <3>1
    <3> HIDE DEF nova, Linha
    <3>3. venda' \in [Vendas -> Linha]
      BY <3>1, <3>2
    <3> QED
      BY <3>3 DEF Linha
  <2>5. aprovacoes' \in [Vendas -> Nat]
    BY <1>1, <1>2 DEF TypeOK
  <2> QED
    BY <1>1, <1>2, <2>2, <2>3, <2>4, <2>5 DEF TypeOK, Pedido, gateway
<1>9. \A a \in fila' : AvisoVerdadeiro(a[1], a[3])'
  BY <1>1, <1>2, <1>6 DEF IInv, AvisoVerdadeiro, Recebida, gateway, TypeOK
<1>10. ASSUME NEW q \in Pedidos PROVE PedidoCoerente(q)'
  <2>1. PedidoCoerente(q) /\ (q = p => pedido[q].passo # "ocioso")
    BY <1>1 DEF IInv
  <2>2. pedido[q].passo # "ocioso" => venda'[pedido[q].v].status # "nenhuma"
    BY <1>2, <1>6, <2>1, PedidosTipados DEF PedidoCoerente, AvisoVerdadeiro
  <2> QED
    BY <1>1, <1>3, <1>4, <1>5, <2>1, <2>2 DEF PedidoCoerente, AvisoVerdadeiro, Recebida, ConfiaNoCorpo, gateway
<1>11. ASSUME NEW w \in Vendas PROVE CobrancaCoerente(w)' /\ UmPorVez(w)'
  <2>1. CobrancaCoerente(w) /\ UmPorVez(w)
    BY DEF IInv
  <2>2. CASE w = v
    <3>1. CobrancaCoerente(w)'
      BY <1>1, <1>4, <1>6, <2>1, <2>2 DEF CobrancaCoerente, gateway
    <3>2. \A q \in Atendem(w) : q # p => pedido'[q] = pedido[q]
      BY <1>5 DEF Atendem
    <3>3. disputada' = disputada /\ venda'[w].status = "APROVADO" /\ pedido'[p].passo # "aprovar"
      BY <1>1, <1>3, <1>5, <1>6, <2>2
    <3>4. w \notin disputada => \A q \in Atendem(w) \ {p} : pedido'[q].passo \notin ComTrava
      BY <1>4, <2>2, <3>2
    <3>5. "aprovar" \in ComTrava
      BY DEF ComTrava, Passos
    <3>6. UmPorVez(w)'
      BY <1>7, <3>3, <3>4, <3>5 DEF UmPorVez
    <3> QED
      BY <3>1, <3>6
  <2>3. CASE w # v
    <3>1. p \notin Atendem(w) /\ \A q \in Atendem(w) : pedido'[q] = pedido[q]
      BY <1>5, <2>3 DEF Atendem
    <3>2. CobrancaCoerente(w)'
      BY <1>1, <1>6, <2>1, <2>3 DEF CobrancaCoerente, gateway
    <3>3. /\ venda'[w] = venda[w] /\ aprovacoes'[w] = aprovacoes[w] /\ disputada' = disputada
          /\ Atendem(w)' = Atendem(w)
      BY <1>1, <1>6, <1>7, <2>3
    <3>4. UmPorVez(w)'
      BY <2>1, <3>1, <3>3 DEF UmPorVez
    <3> QED
      BY <3>2, <3>4
  <2> QED
    BY <2>2, <2>3
<1>12. ASSUME NEW w \in Vendas PROVE AvisadaAnda(w)'
  <2>1. AvisadaAnda(w)
    BY DEF IInv
  <2>2. CASE w = v
    BY <1>1, <1>6, <2>1, <2>2 DEF AvisadaAnda, Recebida, gateway
  <2>3. CASE w # v
    <3>1. p \notin Atendem(w) /\ \A q \in Atendem(w) : pedido'[q] = pedido[q]
      BY <1>5, <2>3 DEF Atendem
    <3> QED
      BY <1>1, <1>6, <1>7, <2>1, <2>3, <3>1 DEF AvisadaAnda, Andamento, Recebida, ConfiaNoCorpo, gateway
  <2> QED
    BY <2>2, <2>3
<1>13. ConfirmadaUmaVez'
  BY <1>1, <1>2, <1>4, <1>6 DEF IInv, ConfirmadaUmaVez, TypeOK
<1>14. AprovadaFoiPaga'
  BY <1>1, <1>4, <1>6 DEF IInv, AprovadaFoiPaga, Recebida, gateway
<1>15. avisada' \subseteq Vendas
  BY <1>1 DEF IInv
<1> QED
  BY <1>8, <1>9, <1>10, <1>11, <1>12, <1>13, <1>14, <1>15 DEF IInv

-----------------------------------------------------------------------------
(* The notifications. *)

LEMMA ReceberIInv == ASSUME IInv, NEW p \in Pedidos, NEW a \in fila, Receber(p, a) PROVE IInv'
<1> DEFINE r == [passo |-> "trava", v |-> a[1], forma |-> a[2], pago |-> a[3]]
<1>1. /\ pedido[p].passo = "ocioso" /\ fila' = fila \ {a}
      /\ \/ ConfiaNoCorpo(a[1]) /\ ~a[3] /\ UNCHANGED pedido
         \/ ~(ConfiaNoCorpo(a[1]) /\ ~a[3]) /\ pedido' = [pedido EXCEPT ![p] = r]
      /\ UNCHANGED <<provedor, cobranca, enviados, venda, trava, historia>>
  BY DEF Receber
<1>2. TypeOK /\ pedido \in [Pedidos -> Pedido] /\ a[1] \in Vendas /\ pedido[p].v = Nulo
  BY <1>1, PedidosTipados DEF IInv, TypeOK
<1>3. r \in Pedido /\ r.v = a[1] /\ r.passo = "trava" /\ r.pago = a[3]
  BY <1>2 DEF Pedido, Passos, TypeOK
<1>4. AvisoVerdadeiro(a[1], a[3])
  BY DEF IInv
<1> HIDE DEF r
<1>5. /\ pedido'[p] = pedido[p] \/ (pedido'[p] = r /\ (ConfiaNoCorpo(a[1]) => a[3]))
      /\ \A q \in Pedidos \ {p} : pedido'[q] = pedido[q]
      /\ pedido' \in [Pedidos -> Pedido]
  BY <1>1, <1>2, <1>3
<1>6. TypeOK'
  <2>1. \A q \in Pedidos : pedido'[q].v = Nulo <=> pedido'[q].passo = "ocioso"
    BY <1>2, <1>3, <1>5, PagamentosAssumption DEF TypeOK
  <2> QED
    BY <1>1, <1>2, <1>5, <2>1 DEF TypeOK, Pedido, historia
<1>7. \A b \in fila' : AvisoVerdadeiro(b[1], b[3])'
  BY <1>1 DEF IInv, AvisoVerdadeiro, Recebida
<1>8. ASSUME NEW q \in Pedidos PROVE PedidoCoerente(q)'
  <2>1. PedidoCoerente(q)
    BY DEF IInv
  <2> QED
    BY <1>1, <1>3, <1>4, <1>5, <2>1
    DEF PedidoCoerente, AvisoVerdadeiro, Recebida, ConfiaNoCorpo, JaConsultou
<1>9. ASSUME NEW w \in Vendas PROVE CobrancaCoerente(w)' /\ UmPorVez(w)'
  <2>1. CobrancaCoerente(w)'
    BY <1>1 DEF IInv, CobrancaCoerente
  <2>2. \A q \in Atendem(w)' :
           \/ q \in Atendem(w) /\ pedido'[q] = pedido[q]
           \/ pedido'[q].passo = "trava"
    BY <1>3, <1>5 DEF Atendem
  <2>3. "trava" \notin ComTrava
    BY DEF ComTrava
  <2>4. UmPorVez(w)
    BY DEF IInv
  <2> QED
    BY <1>1, <2>1, <2>2, <2>3, <2>4 DEF UmPorVez, historia
<1>10. ASSUME NEW w \in Vendas PROVE AvisadaAnda(w)'
  <2>1. AvisadaAnda(w)
    BY DEF IInv
  <2>2. \A q \in Atendem(w) : q \in Atendem(w)' /\ pedido'[q] = pedido[q]
    BY <1>2, <1>5, PagamentosAssumption DEF Atendem
  <2>3. ASSUME Andamento(w) PROVE Andamento(w)'
    <3>1. CASE \E q \in Atendem(w) : pedido[q].passo \in AindaAndam /\ (ConfiaNoCorpo(w) => pedido[q].pago)
      BY <1>1, <2>2, <3>1 DEF Andamento, ConfiaNoCorpo
    <3>2. ASSUME NEW b \in fila, b[1] = w, ConfiaNoCorpo(w) => b[3] PROVE Andamento(w)'
      <4>1. CASE b # a
        BY <1>1, <3>2, <4>1 DEF Andamento, ConfiaNoCorpo
      <4>2. CASE b = a
        <5>1. pedido'[p] = r
          BY <1>1, <1>2, <3>2, <4>2
        <5>2. p \in Atendem(w)' /\ pedido'[p].passo \in AindaAndam
          BY <1>3, <3>2, <4>2, <5>1 DEF Atendem, AindaAndam
        <5> QED
          BY <1>1, <1>3, <3>2, <4>2, <5>1, <5>2 DEF Andamento, ConfiaNoCorpo
      <4> QED
        BY <4>1, <4>2
    <3> QED
      BY <2>3, <3>1, <3>2 DEF Andamento
  <2> QED
    BY <1>1, <2>1, <2>3 DEF AvisadaAnda, Recebida, historia
<1>11. ConfirmadaUmaVez' /\ AprovadaFoiPaga' /\ avisada' \subseteq Vendas
  BY <1>1 DEF IInv, ConfirmadaUmaVez, AprovadaFoiPaga, historia
<1> QED
  BY <1>6, <1>7, <1>8, <1>9, <1>10, <1>11 DEF IInv

LEMMA CairIInv == ASSUME IInv, NEW p \in Pedidos, Cair(p) PROVE IInv'
<1> DEFINE a == <<pedido[p].v, pedido[p].forma, pedido[p].pago>>
<1>1. /\ pedido[p].passo # "ocioso" /\ fila' = fila \cup {a}
      /\ pedido' = [pedido EXCEPT ![p] = Ocioso]
      /\ UNCHANGED <<provedor, cobranca, enviados, venda, trava, historia>>
  BY DEF Cair, Encerrar
<1>2. TypeOK /\ pedido \in [Pedidos -> Pedido] /\ pedido[p].v \in Vendas
  BY <1>1, PedidosTipados DEF IInv
<1>3. a \in Vendas \X TodasFormas \X BOOLEAN /\ a[1] = pedido[p].v /\ a[3] = pedido[p].pago
  BY <1>2 DEF Pedido
<1>4. PedidoCoerente(p)
  BY DEF IInv
<1>5. AvisoVerdadeiro(a[1], a[3])
  BY <1>1, <1>3, <1>4 DEF PedidoCoerente
<1> HIDE DEF a
<1>6. /\ pedido'[p] = Ocioso /\ pedido' \in [Pedidos -> Pedido]
      /\ \A q \in Pedidos \ {p} : pedido'[q] = pedido[q]
  BY <1>1, <1>2, OciosoTipado
<1>7. TypeOK'
  <2>1. \A q \in Pedidos : pedido'[q].v = Nulo <=> pedido'[q].passo = "ocioso"
    BY <1>2, <1>6, OciosoTipado DEF TypeOK
  <2> QED
    BY <1>1, <1>2, <1>3, <1>6, <2>1 DEF TypeOK, Pedido, historia
<1>8. \A b \in fila' : AvisoVerdadeiro(b[1], b[3])'
  BY <1>1, <1>5 DEF IInv, AvisoVerdadeiro, Recebida
<1>9. ASSUME NEW q \in Pedidos PROVE PedidoCoerente(q)'
  <2>1. PedidoCoerente(q)
    BY DEF IInv
  <2> QED
    BY <1>1, <1>6, <2>1, OciosoTipado DEF PedidoCoerente, AvisoVerdadeiro, Recebida, ConfiaNoCorpo
<1>10. ASSUME NEW w \in Vendas PROVE CobrancaCoerente(w)' /\ UmPorVez(w)' /\ AvisadaAnda(w)'
  <2>1. CobrancaCoerente(w)'
    BY <1>1 DEF IInv, CobrancaCoerente
  <2>2. Atendem(w)' \subseteq Atendem(w) \ {p} /\ Atendem(w) \ {p} \subseteq Atendem(w)'
    BY <1>6, OciosoTipado, PagamentosAssumption DEF Atendem
  <2>3. UmPorVez(w) /\ AvisadaAnda(w) /\ \A q \in Atendem(w) \ {p} : pedido'[q] = pedido[q]
    BY <1>6 DEF IInv, Atendem
  <2>4. UmPorVez(w)'
    BY <1>1, <2>2, <2>3 DEF UmPorVez, historia
  <2>5. ASSUME Andamento(w) PROVE Andamento(w)'
    <3>1. ASSUME NEW q \in Atendem(w), q # p, pedido[q].passo \in AindaAndam,
                 ConfiaNoCorpo(w) => pedido[q].pago
          PROVE  Andamento(w)'
      BY <1>1, <2>2, <2>3, <3>1 DEF Andamento, ConfiaNoCorpo
    <3>2. ASSUME p \in Atendem(w), ConfiaNoCorpo(w) => pedido[p].pago PROVE Andamento(w)'
      BY <1>1, <1>3, <3>2 DEF Andamento, ConfiaNoCorpo, Atendem
    <3>3. ASSUME NEW b \in fila, b[1] = w, ConfiaNoCorpo(w) => b[3] PROVE Andamento(w)'
      BY <1>1, <3>3 DEF Andamento, ConfiaNoCorpo
    <3> QED
      BY <2>5, <3>1, <3>2, <3>3 DEF Andamento
  <2>6. AvisadaAnda(w)'
    BY <1>1, <2>3, <2>5 DEF AvisadaAnda, Recebida, historia
  <2> QED
    BY <2>1, <2>4, <2>6
<1>11. ConfirmadaUmaVez' /\ AprovadaFoiPaga' /\ avisada' \subseteq Vendas
  BY <1>1 DEF IInv, ConfirmadaUmaVez, AprovadaFoiPaga, historia
<1> QED
  BY <1>7, <1>8, <1>9, <1>10, <1>11 DEF IInv

\* One more notification on its way, or one given up.
LEMMA FilaIInv ==
    ASSUME IInv, fila' \subseteq Vendas \X TodasFormas \X BOOLEAN, enviados' \in [Vendas -> 0..MaxAvisos],
           \A a \in fila' : a \in fila \/ AvisoVerdadeiro(a[1], a[3]),
           engolida \subseteq engolida',
           \A a \in fila \ fila' : a[1] \in avisada /\ venda[a[1]].status = "PENDENTE" => a[1] \in engolida',
           UNCHANGED <<servico, provedor, cobranca, aprovacoes, pelaTela, disputada, avisada>>
    PROVE  IInv'
<1> USE DEF servico
<1>1. TypeOK'
  BY DEF IInv, TypeOK
<1>2. \A a \in fila' : AvisoVerdadeiro(a[1], a[3])'
  BY DEF IInv, AvisoVerdadeiro, Recebida
<1>3. \A q \in Pedidos : PedidoCoerente(q)'
  BY DEF IInv, PedidoCoerente, AvisoVerdadeiro, Recebida, ConfiaNoCorpo
<1>4. ASSUME NEW w \in Vendas PROVE CobrancaCoerente(w)' /\ UmPorVez(w)' /\ AvisadaAnda(w)'
  <2>1. CobrancaCoerente(w)' /\ UmPorVez(w)' /\ AvisadaAnda(w)
    BY DEF IInv, CobrancaCoerente, UmPorVez, Atendem
  <2>2. ASSUME w \in avisada \ engolida', venda[w].status = "PENDENTE" PROVE Andamento(w)'
    BY <2>1, <2>2 DEF AvisadaAnda, Andamento, ConfiaNoCorpo, Atendem
  <2> QED
    BY <2>1, <2>2 DEF AvisadaAnda, Recebida
<1>5. ConfirmadaUmaVez' /\ AprovadaFoiPaga' /\ avisada' \subseteq Vendas
  BY DEF IInv, ConfirmadaUmaVez, AprovadaFoiPaga
<1> QED
  BY <1>1, <1>2, <1>3, <1>4, <1>5 DEF IInv

LEMMA NotificarIInv ==
    ASSUME IInv, NEW v \in Vendas, NEW f \in TodasFormas, Notificar(v, f) PROVE IInv'
<1> DEFINE a == <<v, f, Paga(v)>>
<1>1. /\ f \in Formas(v) /\ enviados[v] < MaxAvisos /\ fila' = fila \cup {a}
      /\ enviados' = [enviados EXCEPT ![v] = @ + 1]
      /\ UNCHANGED <<provedor, cobranca, servico, historia>>
  BY DEF Notificar
<1>2. cobranca[v].prov \in Provedores
  BY <1>1 DEF Formas, Provedores
<1>3. AvisoVerdadeiro(v, Paga(v))
  BY <1>2 DEF IInv, CobrancaCoerente, AvisoVerdadeiro, Recebida, Paga
<1>4. a \in Vendas \X TodasFormas \X BOOLEAN /\ a[1] = v /\ a[3] = Paga(v)
  BY DEF Paga
<1>5. fila' \subseteq Vendas \X TodasFormas \X BOOLEAN
  BY <1>1, <1>4 DEF IInv, TypeOK
<1>6. enviados' \in [Vendas -> 0..MaxAvisos]
  <2>1. enviados \in [Vendas -> 0..MaxAvisos] /\ enviados[v] + 1 \in 0..MaxAvisos
    BY <1>1, PagamentosAssumption DEF IInv, TypeOK
  <2> QED
    BY <1>1, <2>1
<1> HIDE DEF a
<1> QED
  BY <1>1, <1>3, <1>4, <1>5, <1>6, FilaIInv DEF historia

LEMMA DescartarIInv == ASSUME IInv, NEW a \in fila, DescartarCodigo(a) PROVE IInv'
<1>1. /\ fila' = fila \ {a} /\ engolida' = engolida \cup {v \in {a[1]} : Paga(v)}
      /\ UNCHANGED <<provedor, cobranca, enviados, servico, aprovacoes, pelaTela, disputada, avisada>>
  BY DEF DescartarCodigo
<1>2. fila' \subseteq Vendas \X TodasFormas \X BOOLEAN /\ enviados' \in [Vendas -> 0..MaxAvisos]
  BY <1>1 DEF IInv, TypeOK
<1>3. a[1] \in avisada /\ venda[a[1]].status = "PENDENTE" => a[1] \in engolida'
  BY <1>1, AvisadaPaga
<1> QED
  BY <1>1, <1>2, <1>3, FilaIInv
-----------------------------------------------------------------------------
(* The rows, the charges, the lock and the environment. *)

\* A row and its charge change: what was charged, or paid, stays so.
LEMMA LinhaIInv ==
    ASSUME IInv, NEW v \in Vendas, TypeOK', UNCHANGED <<fila, pedido, engolida, avisada>>,
           \A w \in Vendas \ {v} : /\ venda'[w] = venda[w] /\ cobranca'[w] = cobranca[w]
                                   /\ aprovacoes'[w] = aprovacoes[w],
           pelaTela \subseteq pelaTela', disputada \subseteq disputada',
           CobrancaCoerente(v)', UmPorVez(v)',
           Recebida(v) => Recebida(v)',
           venda[v].status # "nenhuma" =>
               venda'[v].status # "nenhuma" /\ cobranca'[v].prov = cobranca[v].prov,
           venda'[v].status = "PENDENTE" => venda[v].status \in {"nenhuma", "PENDENTE"},
           v \notin disputada' => aprovacoes'[v] <= 1,
           venda'[v].status = "APROVADO" /\ v \notin pelaTela' => Recebida(v)'
    PROVE  IInv'
<1>1. \A w \in Vendas : /\ Recebida(w) => Recebida(w)'
                        /\ venda[w].status # "nenhuma" =>
                               venda'[w].status # "nenhuma" /\ cobranca'[w].prov = cobranca[w].prov
  BY DEF Recebida
<1>2. \A w \in Vendas, pago \in BOOLEAN : AvisoVerdadeiro(w, pago) => AvisoVerdadeiro(w, pago)'
  BY <1>1 DEF AvisoVerdadeiro
<1>3. \A a \in fila' : AvisoVerdadeiro(a[1], a[3])'
  <2>1. \A a \in fila : a[1] \in Vendas /\ a[3] \in BOOLEAN
    BY DEF IInv, TypeOK
  <2> QED
    BY <1>2, <2>1 DEF IInv
<1>4. ASSUME NEW q \in Pedidos PROVE PedidoCoerente(q)'
  <2>1. PedidoCoerente(q) /\ TypeOK
    BY DEF IInv
  <2>2. pedido[q].passo # "ocioso" => pedido[q].v \in Vendas /\ pedido[q].pago \in BOOLEAN
    BY <2>1 DEF TypeOK
  <2> QED
    BY <1>1, <1>2, <2>1, <2>2 DEF PedidoCoerente, AvisoVerdadeiro, ConfiaNoCorpo
<1>5. ASSUME NEW w \in Vendas PROVE CobrancaCoerente(w)' /\ UmPorVez(w)'
  <2>1. CASE w = v
    BY <2>1
  <2>2. CASE w # v
    <3>1. CobrancaCoerente(w) /\ UmPorVez(w) /\ (w \in disputada => w \in disputada')
      BY DEF IInv
    <3>2. CobrancaCoerente(w)'
      BY <2>2, <3>1 DEF CobrancaCoerente
    <3> QED
      BY <2>2, <3>1, <3>2 DEF UmPorVez, Atendem
  <2> QED
    BY <2>1, <2>2
<1>6. ASSUME NEW w \in Vendas PROVE AvisadaAnda(w)'
  <2>1. AvisadaAnda(w) /\ CobrancaCoerente(w)
    BY DEF IInv
  <2>2. w \in avisada => venda[w].status # "nenhuma"
    BY <2>1 DEF AvisadaAnda, CobrancaCoerente, Recebida
  <2>3. w \in avisada /\ venda'[w].status = "PENDENTE" => venda[w].status = "PENDENTE"
    BY <2>2
  <2>4. ASSUME w \in avisada, Andamento(w) PROVE Andamento(w)'
    BY <1>1, <2>2, <2>4 DEF Andamento, ConfiaNoCorpo, Atendem
  <2> QED
    BY <1>1, <2>1, <2>3, <2>4 DEF AvisadaAnda
<1>7. ConfirmadaUmaVez'
  BY DEF IInv, ConfirmadaUmaVez
<1>8. AprovadaFoiPaga'
  BY DEF IInv, AprovadaFoiPaga, Recebida
<1>9. avisada' \subseteq Vendas
  BY DEF IInv
<1> QED
  BY <1>3, <1>4, <1>5, <1>6, <1>7, <1>8, <1>9 DEF IInv

Linha == [status : {"nenhuma", "PENDENTE", "APROVADO", "CANCELADO"}, gatewayId : BOOLEAN,
          chave : Provedores \cup {Nulo}]
Cobranca == [prov : Provedores \cup {Nulo},
             situacao : {"inexistente", "aberta", "paga", "expirada", "cancelada", "estornada"}]

\* What LinhaIInv asks of the types and of the other rows, of a new row l with a charge c.
LEMMA LinhaTipada ==
    ASSUME IInv, NEW v \in Vendas, NEW l \in Linha, NEW c \in Cobranca,
           venda' = [venda EXCEPT ![v] = l], cobranca' = [cobranca EXCEPT ![v] = c],
           \/ aprovacoes' = aprovacoes
           \/ aprovacoes' = [aprovacoes EXCEPT ![v] = @ + 1],
           UNCHANGED <<provedor, fila, enviados, trava, pedido>>
    PROVE  /\ TypeOK' /\ venda'[v] = l /\ cobranca'[v] = c
           /\ \A w \in Vendas \ {v} : /\ venda'[w] = venda[w] /\ cobranca'[w] = cobranca[w]
                                      /\ aprovacoes'[w] = aprovacoes[w]
<1>1. TypeOK
  BY DEF IInv
<1>2. venda \in [Vendas -> Linha] /\ cobranca \in [Vendas -> Cobranca] /\ aprovacoes \in [Vendas -> Nat]
  BY <1>1 DEF TypeOK, Linha, Cobranca
<1>3. venda' \in [Vendas -> Linha] /\ cobranca' \in [Vendas -> Cobranca] /\ aprovacoes' \in [Vendas -> Nat]
  BY <1>2
<1>4. TypeOK'
  BY <1>1, <1>3 DEF TypeOK, Linha, Cobranca
<1> QED
  BY <1>2, <1>4

LEMMA LinhasTipadas ==
    ASSUME IInv, NEW v \in Vendas
    PROVE  venda \in [Vendas -> Linha] /\ cobranca \in [Vendas -> Cobranca] /\ venda[v] \in Linha
           /\ cobranca[v] \in Cobranca /\ provedor \in Provedores /\ aprovacoes \in [Vendas -> Nat]
           /\ CobrancaCoerente(v) /\ UmPorVez(v) /\ AvisadaAnda(v)
BY DEF IInv, TypeOK, Linha, Cobranca

\* Nobody serves a sale that is not charged.
LEMMA SemCobrancaSemPedido ==
    ASSUME IInv, NEW v \in Vendas, venda[v].status = "nenhuma" PROVE Atendem(v) = {}
BY PagamentosAssumption DEF IInv, TypeOK, PedidoCoerente, AvisoVerdadeiro, Atendem

LEMMA CriarIInv == ASSUME IInv, NEW v \in Vendas, CriarCobranca(v) PROVE IInv'
<1> DEFINE l == [venda[v] EXCEPT !.status = "PENDENTE"]
           c == [prov |-> ProvedorAtual(v), situacao |-> "aberta"]
<1>1. /\ venda[v].status = "nenhuma"
      /\ venda' = [venda EXCEPT ![v] = l] /\ cobranca' = [cobranca EXCEPT ![v] = c]
      /\ UNCHANGED <<provedor, fila, enviados, trava, pedido, historia>>
  BY DEF CriarCobranca
<1>2. /\ l \in Linha /\ c \in Cobranca /\ l.status = "PENDENTE" /\ l.gatewayId = venda[v].gatewayId
      /\ c.prov \in Provedores /\ c.situacao = "aberta" /\ (v \in Cartao => c.prov = "PAGBANK")
  BY LinhasTipadas DEF Linha, Cobranca, ProvedorAtual, Provedores
<1>3. CobrancaCoerente(v) /\ UmPorVez(v)
  BY DEF IInv
<1> HIDE DEF l, c
<1>4. /\ TypeOK' /\ venda'[v] = l /\ cobranca'[v] = c
      /\ \A w \in Vendas \ {v} : /\ venda'[w] = venda[w] /\ cobranca'[w] = cobranca[w]
                                 /\ aprovacoes'[w] = aprovacoes[w]
  BY <1>1, <1>2, LinhaTipada DEF historia
<1>5. CobrancaCoerente(v)' /\ ~Recebida(v)
  BY <1>1, <1>2, <1>3, <1>4 DEF CobrancaCoerente, Recebida
<1>6. aprovacoes'[v] = 0 /\ UmPorVez(v)'
  BY <1>1, <1>3, SemCobrancaSemPedido DEF UmPorVez, Atendem, historia
<1> QED
  BY <1>1, <1>2, <1>4, <1>5, <1>6, LinhaIInv DEF historia

LEMMA GravarIInv == ASSUME IInv, NEW v \in Vendas, GravarCobranca(v) PROVE IInv'
<1> DEFINE k == IF v \in Cartao THEN Nulo ELSE cobranca[v].prov
           l == [venda[v] EXCEPT !.gatewayId = TRUE, !.chave = k]
<1>1. /\ cobranca[v].situacao # "inexistente" /\ venda' = [venda EXCEPT ![v] = l]
      /\ UNCHANGED <<gateway, trava, pedido, historia>>
  BY DEF GravarCobranca
<1>2. /\ l \in Linha /\ l.status = venda[v].status /\ l.gatewayId
      /\ v \notin Cartao => l.chave = cobranca[v].prov
  BY LinhasTipadas DEF Linha, Cobranca
<1>3. /\ cobranca[v] \in Cobranca /\ cobranca' = [cobranca EXCEPT ![v] = cobranca[v]]
      /\ CobrancaCoerente(v) /\ UmPorVez(v)
  BY <1>1, LinhasTipadas DEF gateway
<1> HIDE DEF l, k
<1>4. /\ TypeOK' /\ venda'[v] = l /\ cobranca'[v] = cobranca[v]
      /\ \A w \in Vendas \ {v} : /\ venda'[w] = venda[w] /\ cobranca'[w] = cobranca[w]
                                 /\ aprovacoes'[w] = aprovacoes[w]
  BY <1>1, <1>2, <1>3, LinhaTipada DEF historia, gateway
<1>5. CobrancaCoerente(v)' /\ Recebida(v)' = Recebida(v)
  BY <1>1, <1>2, <1>3, <1>4 DEF CobrancaCoerente, Recebida
<1>6. UmPorVez(v)'
  BY <1>1, <1>2, <1>3, <1>4 DEF UmPorVez, Atendem, historia
<1>7. /\ v \notin disputada => aprovacoes[v] <= 1
      /\ venda[v].status = "APROVADO" /\ v \notin pelaTela => Recebida(v)
  BY DEF IInv, ConfirmadaUmaVez, AprovadaFoiPaga, Recebida
<1>8. venda'[v].status = "PENDENTE" => venda[v].status \in {"nenhuma", "PENDENTE"}
  BY <1>2, <1>4
<1> QED
  BY <1>1, <1>2, <1>4, <1>5, <1>6, <1>7, <1>8, LinhaIInv DEF historia, gateway

\* An open charge is paid, or expires.
LEMMA CobrancaMudaIInv ==
    ASSUME IInv, NEW v \in Vendas, NEW s \in {"paga", "expirada"}, cobranca[v].situacao = "aberta",
           cobranca' = [cobranca EXCEPT ![v].situacao = s],
           UNCHANGED <<provedor, fila, enviados, servico, historia>>
    PROVE  IInv'
<1> DEFINE c == [cobranca[v] EXCEPT !.situacao = s]
<1>1. cobranca' = [cobranca EXCEPT ![v] = c]
  OBVIOUS
<1>2. c \in Cobranca /\ c.prov = cobranca[v].prov /\ c.situacao = s
  BY LinhasTipadas DEF Cobranca
<1>3. /\ venda[v] \in Linha /\ venda' = [venda EXCEPT ![v] = venda[v]]
      /\ CobrancaCoerente(v) /\ UmPorVez(v)
  BY LinhasTipadas DEF servico
<1> HIDE DEF c
<1>4. /\ TypeOK' /\ venda'[v] = venda[v] /\ cobranca'[v] = c
      /\ \A w \in Vendas \ {v} : /\ venda'[w] = venda[w] /\ cobranca'[w] = cobranca[w]
                                 /\ aprovacoes'[w] = aprovacoes[w]
  <2>1. aprovacoes' = aprovacoes /\ UNCHANGED <<provedor, fila, enviados, trava, pedido>>
    BY DEF historia, servico
  <2> QED
    BY <1>1, <1>2, <1>3, <2>1, LinhaTipada
<1>5. CobrancaCoerente(v)' /\ ~Recebida(v)
  BY <1>2, <1>3, <1>4 DEF CobrancaCoerente, Recebida
<1>6. UmPorVez(v)'
  BY <1>3, <1>4 DEF UmPorVez, Atendem, historia, servico
<1>7. /\ v \notin disputada => aprovacoes[v] <= 1
      /\ venda[v].status = "APROVADO" /\ v \notin pelaTela => Recebida(v)
  BY DEF IInv, ConfirmadaUmaVez, AprovadaFoiPaga, Recebida
<1>8. venda'[v].status = "PENDENTE" => venda[v].status \in {"nenhuma", "PENDENTE"}
  BY <1>4
<1> QED
  BY <1>2, <1>4, <1>5, <1>6, <1>7, <1>8, LinhaIInv DEF historia, servico

LEMMA PelaTelaIInv == ASSUME IInv, NEW v \in Vendas, ConfirmarPelaTela(v) PROVE IInv'
<1> DEFINE l == [venda[v] EXCEPT !.status = "APROVADO"]
<1>1. /\ venda[v].status = "PENDENTE" /\ venda' = [venda EXCEPT ![v] = l]
      /\ aprovacoes' = [aprovacoes EXCEPT ![v] = @ + 1] /\ pelaTela' = pelaTela \cup {v}
      /\ disputada' = disputada \cup {w \in {v} : Atendem(w) # {}}
      /\ UNCHANGED <<trava, pedido, gateway, engolida, avisada>>
  BY DEF ConfirmarPelaTela
<1>2. l \in Linha /\ l.status = "APROVADO" /\ l.gatewayId = venda[v].gatewayId
  BY LinhasTipadas DEF Linha
<1>3. /\ cobranca[v] \in Cobranca /\ cobranca' = [cobranca EXCEPT ![v] = cobranca[v]]
      /\ CobrancaCoerente(v) /\ UmPorVez(v) /\ aprovacoes \in [Vendas -> Nat]
  BY <1>1, LinhasTipadas DEF gateway
<1> HIDE DEF l
<1>4. /\ TypeOK' /\ venda'[v] = l /\ cobranca'[v] = cobranca[v]
      /\ \A w \in Vendas \ {v} : /\ venda'[w] = venda[w] /\ cobranca'[w] = cobranca[w]
                                 /\ aprovacoes'[w] = aprovacoes[w]
  BY <1>1, <1>2, <1>3, LinhaTipada DEF gateway
<1>5. CobrancaCoerente(v)' /\ Recebida(v)' = Recebida(v)
  BY <1>1, <1>2, <1>3, <1>4 DEF CobrancaCoerente, Recebida
<1>6. aprovacoes'[v] = 1
  BY <1>1, <1>3 DEF UmPorVez
<1>7. v \notin disputada' => Atendem(v)' = {}
  BY <1>1 DEF Atendem
<1>8. UmPorVez(v)'
  BY <1>2, <1>4, <1>7 DEF UmPorVez
<1> QED
  BY <1>1, <1>2, <1>4, <1>5, <1>6, <1>8, LinhaIInv DEF gateway

LEMMA CancelarIInv == ASSUME IInv, NEW v \in Vendas, Cancelar(v) PROVE IInv'
<1> DEFINE l == [venda[v] EXCEPT !.status = "CANCELADO"]
           s == CobrancaCancelada(v)
           c == IF Consultavel(v) /\ ProvedorParaConsulta(v) = cobranca[v].prov
                THEN [cobranca[v] EXCEPT !.situacao = s] ELSE cobranca[v]
<1>1. /\ venda[v].status \in {"PENDENTE", "APROVADO", "RECUSADO"} /\ venda' = [venda EXCEPT ![v] = l]
      /\ UNCHANGED <<provedor, fila, enviados, trava, pedido, historia>>
  BY DEF Cancelar
<1>2. l \in Linha /\ l.status = "CANCELADO" /\ l.gatewayId = venda[v].gatewayId
  BY LinhasTipadas DEF Linha
<1>3. /\ cobranca[v] \in Cobranca /\ cobranca \in [Vendas -> Cobranca]
      /\ CobrancaCoerente(v) /\ UmPorVez(v)
  BY LinhasTipadas
<1>4. /\ s \in {"aberta", "paga", "expirada", "cancelada", "estornada"}
      /\ Recebida(v) => s \in {"paga", "estornada"}
  BY <1>1, <1>3 DEF CobrancaCoerente, Cobranca, Recebida, CobrancaCancelada, CancelarFsPay,
     CancelarAgilizePay, CancelarPagBankPix, CancelarMercadoPago, CancelarCartao
<1> HIDE DEF s
<1>5. /\ c \in Cobranca /\ c.prov = cobranca[v].prov /\ c.situacao # "inexistente"
      /\ Recebida(v) => c.situacao \in {"paga", "estornada"}
  <2>1. cobranca[v].situacao # "inexistente"
    BY <1>1, <1>3 DEF CobrancaCoerente
  <2> QED
    BY <1>3, <1>4, <2>1 DEF Cobranca, Recebida
<1>6. cobranca' = [cobranca EXCEPT ![v] = c]
  BY <1>3 DEF Cancelar, s
<1> HIDE DEF l, c
<1>7. /\ TypeOK' /\ venda'[v] = l /\ cobranca'[v] = c
      /\ \A w \in Vendas \ {v} : /\ venda'[w] = venda[w] /\ cobranca'[w] = cobranca[w]
                                 /\ aprovacoes'[w] = aprovacoes[w]
  BY <1>1, <1>2, <1>5, <1>6, LinhaTipada DEF historia
<1>8. CobrancaCoerente(v)' /\ (Recebida(v) => Recebida(v)')
  BY <1>1, <1>2, <1>3, <1>5, <1>7 DEF CobrancaCoerente, Recebida
<1>9. UmPorVez(v)'
  BY <1>1, <1>2, <1>3, <1>7 DEF UmPorVez, Atendem, historia
<1>10. v \notin disputada => aprovacoes[v] <= 1
  BY DEF IInv, ConfirmadaUmaVez
<1> QED
  BY <1>1, <1>2, <1>5, <1>7, <1>8, <1>9, <1>10, LinhaIInv DEF historia

\* The lock and the provider of the day are in no part of the invariant but the types.
LEMMA AmbienteIInv ==
    ASSUME IInv, provedor' \in Provedores, trava' \in [Chaves -> Pedidos \cup {Nulo}],
           UNCHANGED <<venda, pedido, cobranca, fila, enviados, historia>>
    PROVE  IInv'
<1> USE DEF historia
<1>1. TypeOK'
  BY DEF IInv, TypeOK
<1>2. /\ \A a \in fila' : AvisoVerdadeiro(a[1], a[3])'
      /\ \A p \in Pedidos : PedidoCoerente(p)'
  BY DEF IInv, AvisoVerdadeiro, Recebida, PedidoCoerente, ConfiaNoCorpo
<1>3. ASSUME NEW w \in Vendas PROVE CobrancaCoerente(w)' /\ UmPorVez(w)' /\ AvisadaAnda(w)'
  <2>1. CobrancaCoerente(w)' /\ UmPorVez(w)'
    BY DEF IInv, CobrancaCoerente, UmPorVez, Atendem
  <2>2. AvisadaAnda(w)'
    BY DEF IInv, AvisadaAnda, Andamento, Atendem, Recebida, ConfiaNoCorpo
  <2> QED
    BY <2>1, <2>2
<1>4. avisada' \subseteq Vendas /\ ConfirmadaUmaVez' /\ AprovadaFoiPaga'
  BY DEF IInv, ConfirmadaUmaVez, AprovadaFoiPaga
<1> QED
  BY <1>1, <1>2, <1>3, <1>4 DEF IInv

-----------------------------------------------------------------------------
LEMMA PassoIInv == IInv /\ [Next]_vars => IInv'
<1> SUFFICES ASSUME IInv, [Next]_vars PROVE IInv'
  OBVIOUS
<1>0. trava \in [Chaves -> Pedidos \cup {Nulo}] /\ provedor \in Provedores
  BY DEF IInv, TypeOK
<1>1. CASE UNCHANGED vars
  BY <1>0, <1>1, AmbienteIInv DEF vars, servico, gateway
<1>2. CASE \E g \in Provedores : TrocarProvedor(g)
  BY <1>0, <1>2, AmbienteIInv DEF TrocarProvedor, servico
<1>3. CASE \E k \in Chaves : ExpirarTrava(k)
  BY <1>0, <1>3, AmbienteIInv DEF ExpirarTrava, gateway
<1>4. ASSUME NEW v \in Vendas,
             \/ CriarCobranca(v) \/ GravarCobranca(v) \/ Pagar(v) \/ Vencer(v)
             \/ ConfirmarPelaTela(v) \/ Cancelar(v)
      PROVE  IInv'
  <2>1. CASE Pagar(v) \/ Vencer(v)
    BY <2>1, CobrancaMudaIInv DEF Pagar, Vencer
  <2> QED
    BY <1>4, <2>1, CriarIInv, GravarIInv, PelaTelaIInv, CancelarIInv
<1>5. ASSUME NEW v \in Vendas, NEW f \in TodasFormas, Notificar(v, f) PROVE IInv'
  BY <1>5, NotificarIInv
<1>6. ASSUME NEW p \in Pedidos, NEW a \in fila, Receber(p, a) PROVE IInv'
  BY <1>6, ReceberIInv
<1>7. ASSUME NEW p \in Pedidos,
             \/ Travar(p) \/ Dispensar(p) \/ Consultar(p) \/ Errar(p) \/ Buscar(p) \/ BuscarSena(p)
      PROVE  IInv'
  BY <1>7, TravarIInv, DispensarIInv, ConsultarIInv, ErrarIInv, BuscarIInv, BuscarSenaIInv
<1>8. ASSUME NEW p \in Pedidos,
             LerParaConfirmar(p) \/ Aprovar(p) \/ NotificarN8n(p) \/ Liberar(p) \/ Cair(p)
      PROVE  IInv'
  BY <1>8, LerParaConfirmarIInv, AprovarIInv, NotificarN8nIInv, LiberarIInv, CairIInv
<1>9. CASE \E a \in fila : DescartarCodigo(a)
  BY <1>9, DescartarIInv
<1> QED
  BY <1>1, <1>2, <1>3, <1>4, <1>5, <1>6, <1>7, <1>8, <1>9 DEF Next

LEMMA Invariante == Spec => []IInv
<1>1. Init => IInv
  BY InitIInv
<1>2. IInv /\ [Next]_vars => IInv'
  BY PassoIInv
<1> QED
  BY <1>1, <1>2, PTL DEF Spec

\* A payment is worth one approval (PagamentosService.processarWebhook*, under the lock of the
\* charge, and confirmarPagamento): a sale nobody disputed is approved once however often its
\* payment is notified; what no ADMIN approved by hand was paid; and a processed payment that
\* nobody gave up leaves no sale waiting without a request or a notification to come.
THEOREM PagamentoSempreAprovaUmaVez == Spec => []PagamentoAprovaUmaVez
<1>1. IInv => PagamentoAprovaUmaVez
  <2> SUFFICES ASSUME IInv PROVE AvisadaNaoEspera
    BY DEF IInv, PagamentoAprovaUmaVez
  <2>1. \A v \in avisada \ engolida : venda[v].status = "PENDENTE" => Andamento(v)
    BY DEF IInv, AvisadaAnda
  <2> QED
    BY <2>1 DEF AvisadaNaoEspera, Andamento
<1> QED
  BY <1>1, Invariante, PTL

\* While a sale waits, its charge is asked about, and cancelled, at the provider that made it
\* (PaymentGatewayFactory.getGatewayParaConsulta), however often the provider of the day changes.
THEOREM EsperaSempreNoProvedorCerto == Spec => []EsperaNoProvedorCerto
<1>1. IInv => EsperaNoProvedorCerto
  <2> SUFFICES ASSUME IInv, NEW v \in Vendas, venda[v].status = "PENDENTE", Consultavel(v)
               PROVE  ProvedorParaConsulta(v) = cobranca[v].prov
    BY DEF EsperaNoProvedorCerto
  <2>1. CobrancaCoerente(v) /\ venda[v].gatewayId
    BY DEF IInv, Consultavel
  <2> QED
    BY <2>1, PagamentosAssumption DEF CobrancaCoerente, ProvedorParaConsulta, ProvedorAtual
<1> QED
  BY <1>1, Invariante, PTL

-----------------------------------------------------------------------------
(* Who looks for a sale, and what is answered (Consultas). *)
LinhaDaConsulta == [passo : {"livre", "gateway", "confirmar"}, x : Compras \cup {Nulo},
                    canal : {"pos", "painel", "whatsapp", Nulo}]

\* The tickets of a sale are those of its cards while it is approved, and none otherwise.
LinhaCoerente(x) ==
    Q!Existe(x) =>
        /\ linha[x].bilhetes = IF linha[x].status = "APROVADO" THEN Q!Comprados(x) ELSE 0
        /\ linha[x].status = "APROVADO" => x \in aprovou

\* A poll in flight has read a sale that was waiting: whoever closed it since crossed the poll.
ConsultaCoerente(r) ==
    consulta[r].passo # "livre" =>
        /\ consulta[r].x \in Compras /\ Q!Existe(consulta[r].x)
        /\ linha[consulta[r].x].status \in {"RECUSADO", "CANCELADO"} => consulta[r].x \in cruzou

\* The sale that gave a customer its link is of the customer and has the pair of the link.
DonaCoerente(c) ==
    dona[c] # Nulo =>
        /\ Q!Existe(dona[c])
        /\ linha[dona[c]].c = c /\ linha[dona[c]].v = vinculo[c].v /\ linha[dona[c]].d = vinculo[c].d

ConsultaInv ==
    /\ Q!TypeOK
    /\ consulta \in [Pedidos -> LinhaDaConsulta]
    /\ \A x \in Compras : LinhaCoerente(x)
    /\ \A r \in Pedidos : ConsultaCoerente(r)
    /\ \A c \in Clientes : DonaCoerente(c)
    /\ Q!PagoFoiAprovada

-----------------------------------------------------------------------------
LEMMA CompradosPositivos ==
    ASSUME NEW x \in Compras
    PROVE  Q!Comprados(x) \in Nat \ {0}
<1>1. Quantidade[x] \in Nat \ {0} /\ Chances[x] \in Nat \ {0}
  BY ConsultasAssumption
<1>2. \A m, n \in Nat \ {0} : m * n \in Nat \ {0}
  OBVIOUS
<1> QED
  BY <1>1, <1>2 DEF Q!Comprados

\* A row of the table is a sale that exists, and the other is none.
LEMMA ExisteELinha ==
    ASSUME Q!TypeOK, NEW x \in Compras
    PROVE  /\ Q!Existe(x) <=> linha[x] \in Q!Linha
           /\ ~Q!Existe(x) => linha[x] = Q!SemVenda
BY DEF Q!TypeOK, Q!Existe, Q!Linha, Q!SemVenda

LEMMA ConsultaInicial == Q!Init => ConsultaInv
<1> SUFFICES ASSUME Q!Init PROVE ConsultaInv
  OBVIOUS
<1>1. Q!TypeOK
  BY ConsultasAssumption DEF Q!Init, Q!TypeOK, Q!Filtros, Q!Livre, Q!SemVenda
<1>2. consulta \in [Pedidos -> LinhaDaConsulta]
  BY DEF Q!Init, Q!Livre, LinhaDaConsulta
<1>3. \A x \in Compras : ~Q!Existe(x)
  BY DEF Q!Init, Q!Existe
<1>4. (\A r \in Pedidos : consulta[r].passo = "livre") /\ (\A c \in Clientes : dona[c] = Nulo)
  BY DEF Q!Init, Q!Livre
<1>5. Q!PagoFoiAprovada
  BY DEF Q!Init, Q!PagoFoiAprovada
<1> QED
  BY <1>1, <1>2, <1>3, <1>4, <1>5 DEF ConsultaInv, LinhaCoerente, ConsultaCoerente, DonaCoerente

LEMMA VenderConserva ==
    ASSUME ConsultaInv, NEW x \in Compras, NEW c \in Clientes, NEW canal \in {"pos", "painel", "whatsapp"},
           NEW v \in Vendedores \cup {Nulo}, NEW d \in Distribuidores \cup {Nulo},
           Q!Vender(x, c, canal, v, d)
    PROVE  ConsultaInv'
<1> DEFINE nova == [c |-> c, v |-> v, d |-> d, canal |-> canal, status |-> "PENDENTE", bilhetes |-> 0]
<1>1. nova \in Q!Linha /\ nova # Q!SemVenda /\ linha' = [linha EXCEPT ![x] = nova] /\ ~Q!Existe(x)
  BY DEF Q!Vender, Q!Linha, Q!SemVenda
<1>2. /\ rede' = rede /\ paga' = paga /\ consulta' = consulta /\ resposta' = resposta
      /\ aprovou' = aprovou /\ cruzou' = cruzou
      /\ vinculo' = IF d # Nulo THEN [vinculo EXCEPT ![c] = [v |-> v, d |-> d]] ELSE vinculo
      /\ dona' = IF d # Nulo THEN [dona EXCEPT ![c] = x] ELSE dona
  BY DEF Q!Vender, Q!Segue
<1>3. Q!TypeOK /\ Q!TypeOK'
  <2>1. linha' \in [Compras -> Q!Linha \cup {Q!SemVenda}]
    BY <1>1 DEF ConsultaInv, Q!TypeOK
  <2>2. vinculo' \in [Clientes -> Q!Filtros] /\ dona' \in [Clientes -> Compras \cup {Nulo}]
    BY <1>2 DEF ConsultaInv, Q!TypeOK, Q!Filtros
  <2> QED
    BY <1>2, <2>1, <2>2 DEF ConsultaInv, Q!TypeOK
<1> HIDE DEF nova
<1>4. /\ linha'[x] = nova /\ \A y \in Compras \ {x} : linha'[y] = linha[y]
      /\ \A y \in Compras : Q!Existe(y) => y # x /\ linha'[y] = linha[y] /\ Q!Existe(y)'
  BY <1>1, <1>3 DEF Q!TypeOK, Q!Existe
<1>5. nova.status = "PENDENTE" /\ nova.bilhetes = 0 /\ nova.c = c /\ nova.v = v /\ nova.d = d
  BY DEF nova
<1>6. \A y \in Compras : LinhaCoerente(y)'
  BY <1>2, <1>4, <1>5 DEF ConsultaInv, LinhaCoerente, Q!Existe, Q!Comprados
<1>7. \A r \in Pedidos : ConsultaCoerente(r)'
  BY <1>2, <1>4 DEF ConsultaInv, ConsultaCoerente
<1>8. \A k \in Clientes : DonaCoerente(k)'
  <2> TAKE k \in Clientes
  <2>1. CASE k = c /\ d # Nulo
    <3>1. dona'[k] = x /\ vinculo'[k] = [v |-> v, d |-> d]
      BY <1>2, <1>3, <2>1 DEF Q!TypeOK
    <3>2. Q!Existe(x)'
      BY <1>1, <1>4 DEF Q!Existe, nova
    <3> QED
      BY <1>4, <1>5, <2>1, <3>1, <3>2 DEF DonaCoerente
  <2>2. CASE ~(k = c /\ d # Nulo)
    <3>1. dona'[k] = dona[k] /\ vinculo'[k] = vinculo[k] /\ dona[k] \in Compras \cup {Nulo}
      BY <1>2, <1>3, <2>2 DEF Q!TypeOK
    <3> QED
      BY <1>4, <3>1 DEF ConsultaInv, DonaCoerente
  <2> QED
    BY <2>1, <2>2
<1>9. Q!PagoFoiAprovada'
  BY <1>2 DEF ConsultaInv, Q!PagoFoiAprovada
<1> QED
  BY <1>2, <1>3, <1>6, <1>7, <1>8, <1>9 DEF ConsultaInv

LEMMA ReligarConserva ==
    ASSUME ConsultaInv, NEW c \in Clientes, NEW v \in Vendedores \cup {Nulo},
           NEW d \in Distribuidores \cup {Nulo}, Q!Religar(c, v, d)
    PROVE  ConsultaInv'
<1>1. /\ vinculo' = [vinculo EXCEPT ![c] = [v |-> v, d |-> d]] /\ dona' = [dona EXCEPT ![c] = Nulo]
      /\ rede' = rede /\ linha' = linha /\ paga' = paga /\ consulta' = consulta
      /\ resposta' = resposta /\ aprovou' = aprovou /\ cruzou' = cruzou
  BY DEF Q!Religar
<1>2. Q!TypeOK'
  BY <1>1 DEF ConsultaInv, Q!TypeOK, Q!Filtros
<1>3. \A k \in Clientes : DonaCoerente(k)'
  <2> TAKE k \in Clientes
  <2>1. k # c => dona'[k] = dona[k] /\ vinculo'[k] = vinculo[k]
    BY <1>1 DEF ConsultaInv, Q!TypeOK
  <2>2. k = c => dona'[k] = Nulo
    BY <1>1 DEF ConsultaInv, Q!TypeOK
  <2> QED
    BY <1>1, <2>1, <2>2 DEF ConsultaInv, DonaCoerente, Q!Existe
<1> QED
  BY <1>1, <1>2, <1>3
     DEF ConsultaInv, LinhaCoerente, ConsultaCoerente, Q!PagoFoiAprovada, Q!Existe, Q!Comprados

\* What touches neither a sale, a link nor a poll: the seller is moved, a charge is paid.
LEMMA DeForaConserva ==
    ASSUME ConsultaInv,
           \/ \E v \in Vendedores, d \in Distribuidores : Q!Transferir(v, d)
           \/ \E x \in Compras : Q!Pagar(x)
    PROVE  ConsultaInv'
<1>1. /\ vinculo' = vinculo /\ linha' = linha /\ consulta' = consulta /\ resposta' = resposta
      /\ aprovou' = aprovou /\ cruzou' = cruzou /\ dona' = dona
  BY DEF Q!Transferir, Q!Pagar, Q!historia
<1>2. rede' \in [Vendedores -> Distribuidores] /\ paga' \subseteq Compras
  BY DEF ConsultaInv, Q!TypeOK, Q!Transferir, Q!Pagar
<1>3. Q!TypeOK'
  BY <1>1, <1>2 DEF ConsultaInv, Q!TypeOK
<1> QED
  BY <1>1, <1>3 DEF ConsultaInv, LinhaCoerente, ConsultaCoerente, DonaCoerente, Q!PagoFoiAprovada,
                    Q!Existe, Q!Comprados

\* The change of one row, approved or closed, and of one poll: who is told that the sale is
\* paid is told of an approval, or was crossed by who closed it.
LEMMA VendaMuda ==
    ASSUME ConsultaInv, NEW x \in Compras, Q!Existe(x), NEW nova \in Q!Linha,
           nova.c = linha[x].c /\ nova.v = linha[x].v /\ nova.d = linha[x].d,
           nova.bilhetes = IF nova.status = "APROVADO" THEN Q!Comprados(x) ELSE 0,
           nova.status = "APROVADO" => x \in aprovou',
           nova.status \in {"RECUSADO", "CANCELADO"} =>
               x \in cruzou' \/ \A r \in Pedidos : consulta[r].x # x,
           linha' = [linha EXCEPT ![x] = nova],
           rede' = rede /\ vinculo' = vinculo /\ paga' = paga /\ dona' = dona,
           aprovou \subseteq aprovou' /\ aprovou' \subseteq Compras,
           cruzou \subseteq cruzou' /\ cruzou' \subseteq Compras,
           consulta' \in [Pedidos -> LinhaDaConsulta],
           \A r \in Pedidos : consulta'[r] = consulta[r] \/ consulta'[r].passo = "livre",
           resposta' = resposta \/ Q!PagoFoiAprovada'
    PROVE  ConsultaInv'
<1>1. Q!TypeOK /\ Q!TypeOK'
  <2>1. Q!TypeOK
    BY DEF ConsultaInv
  <2>2. linha' \in [Compras -> Q!Linha \cup {Q!SemVenda}]
    BY <2>1 DEF Q!TypeOK
  <2>3. \A r \in Pedidos : consulta'[r].passo \in {"livre", "gateway", "confirmar"}
    BY DEF LinhaDaConsulta
  <2> QED
    BY <2>1, <2>2, <2>3 DEF Q!TypeOK
<1>2. nova # Q!SemVenda
  BY DEF Q!Linha, Q!SemVenda
<1>3. /\ linha'[x] = nova /\ \A y \in Compras \ {x} : linha'[y] = linha[y]
      /\ \A y \in Compras : Q!Existe(y)' <=> Q!Existe(y)
  BY <1>1, <1>2 DEF Q!TypeOK, Q!Existe
<1>4. \A y \in Compras : LinhaCoerente(y)'
  <2> TAKE y \in Compras
  <2>1. Q!Comprados(y)' = Q!Comprados(y)
    BY DEF Q!Comprados
  <2>2. CASE y = x
    BY <1>3, <2>1, <2>2 DEF LinhaCoerente
  <2>3. CASE y # x
    BY <1>3, <2>1, <2>3 DEF ConsultaInv, LinhaCoerente
  <2> QED
    BY <2>2, <2>3
<1>5. \A r \in Pedidos : ConsultaCoerente(r)'
  <2> TAKE r \in Pedidos
  <2>1. ConsultaCoerente(r) /\ (consulta'[r] = consulta[r] \/ consulta'[r].passo = "livre")
    BY DEF ConsultaInv
  <2> QED
    BY <1>3, <2>1 DEF ConsultaCoerente
<1>6. \A c \in Clientes : DonaCoerente(c)'
  <2> TAKE c \in Clientes
  <2>1. DonaCoerente(c) /\ dona[c] \in Compras \cup {Nulo}
    BY <1>1 DEF ConsultaInv, Q!TypeOK
  <2> QED
    BY <1>3, <2>1 DEF DonaCoerente
<1>7. Q!PagoFoiAprovada'
  BY DEF ConsultaInv, Q!PagoFoiAprovada
<1> QED
  BY <1>1, <1>4, <1>5, <1>6, <1>7 DEF ConsultaInv

LEMMA AprovarFecharConserva ==
    ASSUME ConsultaInv, NEW x \in Compras, NEW status \in {"RECUSADO", "CANCELADO"},
           Q!Aprovar(x) \/ Q!Fechar(x, status)
    PROVE  ConsultaInv'
<1>1. Q!TypeOK /\ Q!Existe(x) /\ linha[x] \in Q!Linha
  <2>1. linha[x].status \in {"PENDENTE", "APROVADO", "RECUSADO"}
    BY DEF Q!Aprovar, Q!Fechar
  <2>2. linha[x] # Q!SemVenda
    BY <2>1 DEF Q!SemVenda
  <2> QED
    BY <2>2 DEF ConsultaInv, Q!TypeOK, Q!Existe
<1>2. Q!Comprados(x) \in Nat
  BY CompradosPositivos
<1>3. CASE Q!Aprovar(x)
  <2>1. Q!Aprovada(x) \in Q!Linha /\ Q!Aprovada(x).status = "APROVADO"
        /\ Q!Aprovada(x).bilhetes = Q!Comprados(x)
        /\ Q!Aprovada(x).c = linha[x].c /\ Q!Aprovada(x).v = linha[x].v /\ Q!Aprovada(x).d = linha[x].d
    BY <1>1, <1>2 DEF Q!Aprovada, Q!Linha
  <2>2. /\ linha' = [linha EXCEPT ![x] = Q!Aprovada(x)] /\ aprovou' = aprovou \cup {x}
        /\ rede' = rede /\ vinculo' = vinculo /\ paga' = paga /\ consulta' = consulta
        /\ resposta' = resposta /\ cruzou' = cruzou /\ dona' = dona
    BY <1>3 DEF Q!Aprovar
  <2>3. consulta' \in [Pedidos -> LinhaDaConsulta] /\ aprovou \subseteq Compras /\ cruzou \subseteq Compras
    BY <2>2 DEF ConsultaInv, Q!TypeOK
  <2> QED
    BY <1>1, <2>1, <2>2, <2>3, VendaMuda
<1>4. CASE Q!Fechar(x, status)
  <2>1. Q!Encerrada(x, status) \in Q!Linha /\ Q!Encerrada(x, status).status = status
        /\ Q!Encerrada(x, status).bilhetes = 0
        /\ Q!Encerrada(x, status).c = linha[x].c /\ Q!Encerrada(x, status).v = linha[x].v
        /\ Q!Encerrada(x, status).d = linha[x].d
    BY <1>1 DEF Q!Encerrada, Q!Linha
  <2>2. /\ linha' = [linha EXCEPT ![x] = Q!Encerrada(x, status)]
        /\ cruzou' = IF Q!LidaPor(x) = {} THEN cruzou ELSE cruzou \cup {x}
        /\ rede' = rede /\ vinculo' = vinculo /\ paga' = paga /\ consulta' = consulta
        /\ resposta' = resposta /\ aprovou' = aprovou /\ dona' = dona
    BY <1>4 DEF Q!Fechar
  <2>3. consulta' \in [Pedidos -> LinhaDaConsulta] /\ aprovou \subseteq Compras /\ cruzou \subseteq Compras
    BY <2>2 DEF ConsultaInv, Q!TypeOK
  <2>4. x \in cruzou' \/ \A r \in Pedidos : consulta[r].x # x
    BY <2>2 DEF Q!LidaPor
  <2> QED
    BY <1>1, <2>1, <2>2, <2>3, <2>4, VendaMuda
<1> QED
  BY <1>3, <1>4
\* A step of the polls that writes no row: each poll is as it was, at rest, or at work on a sale
\* that exists and was not closed under it; what is answered is true.
LEMMA PollMuda ==
    ASSUME ConsultaInv, UNCHANGED <<Q!linhas, Q!historia>>,
           consulta' \in [Pedidos -> LinhaDaConsulta],
           \A s \in Pedidos : ConsultaCoerente(s)',
           Q!PagoFoiAprovada'
    PROVE  ConsultaInv'
<1>1. /\ rede' = rede /\ vinculo' = vinculo /\ linha' = linha /\ paga' = paga
      /\ aprovou' = aprovou /\ cruzou' = cruzou /\ dona' = dona
  BY DEF Q!linhas, Q!historia
<1>2. Q!TypeOK'
  BY <1>1 DEF ConsultaInv, Q!TypeOK, LinhaDaConsulta
<1> QED
  BY <1>1, <1>2 DEF ConsultaInv, LinhaCoerente, DonaCoerente, Q!Existe, Q!Comprados

LEMMA LerConserva ==
    ASSUME ConsultaInv, NEW r \in Pedidos, NEW canal \in {"pos", "painel", "whatsapp"},
           NEW x \in Compras, Q!Ler(r, canal, x)
    PROVE  ConsultaInv'
<1>1. Q!TypeOK /\ UNCHANGED <<Q!linhas, Q!historia>>
  BY DEF ConsultaInv, Q!Ler
<1>2. linha' = linha /\ cruzou' = cruzou /\ aprovou' = aprovou
  BY <1>1 DEF Q!linhas, Q!historia
<1>3. CASE /\ Q!PerguntaAoGateway(canal, x) /\ resposta' = resposta
           /\ consulta' = [consulta EXCEPT ![r] = [passo |-> "gateway", x |-> x, canal |-> canal]]
  <2>1. linha[x].status = "PENDENTE" /\ Q!Existe(x)
    BY <1>3 DEF Q!PerguntaAoGateway, Q!Existe, Q!SemVenda
  <2>2. consulta' \in [Pedidos -> LinhaDaConsulta]
    BY <1>3 DEF ConsultaInv, LinhaDaConsulta
  <2>3. \A s \in Pedidos : ConsultaCoerente(s)'
    BY <1>2, <1>3, <2>1 DEF ConsultaInv, ConsultaCoerente, Q!Existe
  <2>4. Q!PagoFoiAprovada'
    BY <1>2, <1>3 DEF ConsultaInv, Q!PagoFoiAprovada
  <2> QED
    BY <1>1, <2>2, <2>3, <2>4, PollMuda
<1>4. CASE Q!Responder(r, canal, x, linha[x].status = "APROVADO")
  <2>1. resposta' = [x |-> x, canal |-> canal, pago |-> linha[x].status = "APROVADO"]
        /\ consulta' = [consulta EXCEPT ![r] = Q!Livre]
    BY <1>4 DEF Q!Responder
  <2>2. consulta' \in [Pedidos -> LinhaDaConsulta]
    BY <2>1 DEF ConsultaInv, LinhaDaConsulta, Q!Livre
  <2>3. \A s \in Pedidos : ConsultaCoerente(s)'
    BY <1>2, <2>1 DEF ConsultaInv, ConsultaCoerente, Q!Livre, Q!Existe
  <2>4. linha[x].status = "APROVADO" => x \in aprovou
    BY DEF ConsultaInv, LinhaCoerente, Q!Existe, Q!SemVenda
  <2>5. Q!PagoFoiAprovada'
    BY <1>2, <2>1, <2>4 DEF Q!PagoFoiAprovada
  <2> QED
    BY <1>1, <2>2, <2>3, <2>5, PollMuda
<1> QED
  BY <1>3, <1>4 DEF Q!Ler

LEMMA PerguntarConserva ==
    ASSUME ConsultaInv, NEW r \in Pedidos, Q!Perguntar(r)
    PROVE  ConsultaInv'
<1>1. Q!TypeOK /\ UNCHANGED <<Q!linhas, Q!historia>> /\ consulta[r].passo = "gateway"
  BY DEF ConsultaInv, Q!Perguntar
<1>2. linha' = linha /\ cruzou' = cruzou /\ aprovou' = aprovou
  BY <1>1 DEF Q!linhas, Q!historia
<1>3. CASE resposta' = resposta /\ consulta' = [consulta EXCEPT ![r].passo = "confirmar"]
  <2>1. consulta' \in [Pedidos -> LinhaDaConsulta]
    BY <1>3 DEF ConsultaInv, LinhaDaConsulta
  <2>2. \A s \in Pedidos : ConsultaCoerente(s)'
    BY <1>1, <1>2, <1>3 DEF ConsultaInv, ConsultaCoerente, Q!Existe, LinhaDaConsulta
  <2>3. Q!PagoFoiAprovada'
    BY <1>2, <1>3 DEF ConsultaInv, Q!PagoFoiAprovada
  <2> QED
    BY <1>1, <2>1, <2>2, <2>3, PollMuda
<1>4. CASE Q!Responder(r, consulta[r].canal, consulta[r].x,
                       consulta[r].canal = "whatsapp" /\ Q!RespostaDoBot(consulta[r].x))
  <2>1. ~resposta'.pago /\ consulta' = [consulta EXCEPT ![r] = Q!Livre]
    BY <1>4 DEF Q!Responder, Q!RespostaDoBot
  <2>2. consulta' \in [Pedidos -> LinhaDaConsulta]
    BY <2>1 DEF ConsultaInv, LinhaDaConsulta, Q!Livre
  <2>3. \A s \in Pedidos : ConsultaCoerente(s)'
    BY <1>2, <2>1 DEF ConsultaInv, ConsultaCoerente, Q!Livre, Q!Existe
  <2>4. Q!PagoFoiAprovada'
    BY <2>1 DEF Q!PagoFoiAprovada
  <2> QED
    BY <1>1, <2>2, <2>3, <2>4, PollMuda
<1> QED
  BY <1>3, <1>4 DEF Q!Perguntar

LEMMA ConfirmarConserva ==
    ASSUME ConsultaInv, NEW r \in Pedidos, Q!Confirmar(r)
    PROVE  ConsultaInv'
<1> DEFINE x == consulta[r].x
<1>1. /\ Q!TypeOK /\ ConsultaCoerente(r) /\ consulta[r].passo = "confirmar" /\ x \in Compras /\ Q!Existe(x)
  BY DEF ConsultaInv, Q!Confirmar, ConsultaCoerente
<1>2. linha[x] \in Q!Linha /\ Q!Comprados(x) \in Nat
  BY <1>1, CompradosPositivos, ExisteELinha
<1>3. /\ rede' = rede /\ vinculo' = vinculo /\ paga' = paga /\ cruzou' = cruzou /\ dona' = dona
      /\ consulta' = [consulta EXCEPT ![r] = Q!Livre]
  BY DEF Q!Confirmar, Q!Responder
<1>4. /\ consulta' \in [Pedidos -> LinhaDaConsulta] /\ aprovou \subseteq Compras /\ cruzou \subseteq Compras
      /\ \A s \in Pedidos : consulta'[s] = consulta[s] \/ consulta'[s].passo = "livre"
  BY <1>3 DEF ConsultaInv, Q!TypeOK, LinhaDaConsulta, Q!Livre
<1> HIDE DEF x
<1>5. CASE /\ linha[x].status = "PENDENTE" /\ linha' = [linha EXCEPT ![x] = Q!Aprovada(x)]
           /\ aprovou' = aprovou \cup {x} /\ resposta' = [x |-> x, canal |-> consulta[r].canal, pago |-> TRUE]
  <2>1. Q!Aprovada(x) \in Q!Linha /\ Q!Aprovada(x).status = "APROVADO"
        /\ Q!Aprovada(x).bilhetes = Q!Comprados(x)
        /\ Q!Aprovada(x).c = linha[x].c /\ Q!Aprovada(x).v = linha[x].v /\ Q!Aprovada(x).d = linha[x].d
    BY <1>2 DEF Q!Aprovada, Q!Linha
  <2>2. Q!PagoFoiAprovada'
    BY <1>5 DEF Q!PagoFoiAprovada
  <2> QED
    BY <1>1, <1>3, <1>4, <1>5, <2>1, <2>2, VendaMuda
<1>6. CASE /\ linha[x].status # "PENDENTE" /\ linha' = linha /\ aprovou' = aprovou
           /\ resposta' = [x |-> x, canal |-> consulta[r].canal,
                           pago |-> consulta[r].canal = "pos" \/ linha[x].status = "APROVADO"]
  <2>1. UNCHANGED <<Q!linhas, Q!historia>>
    BY <1>3, <1>6 DEF Q!linhas, Q!historia
  <2>2. \A s \in Pedidos : ConsultaCoerente(s)'
    BY <1>3, <1>4, <1>6 DEF ConsultaInv, ConsultaCoerente, Q!Existe
  <2>3. linha[x].status = "APROVADO" => x \in aprovou
    BY <1>1 DEF ConsultaInv, LinhaCoerente
  <2>4. linha[x].status # "APROVADO" => x \in cruzou
    BY <1>1, <1>2, <1>6 DEF ConsultaCoerente, Q!Linha, x
  <2>5. Q!PagoFoiAprovada'
    BY <1>3, <1>6, <2>3, <2>4 DEF Q!PagoFoiAprovada
  <2> QED
    BY <1>4, <2>1, <2>2, <2>5, PollMuda
<1> QED
  BY <1>5, <1>6 DEF Q!Confirmar, Q!Responder, x

LEMMA ConsultaPasso == ConsultaInv /\ [Q!Next]_consultas => ConsultaInv'
<1> SUFFICES ASSUME ConsultaInv, [Q!Next]_consultas PROVE ConsultaInv'
  OBVIOUS
<1>1. CASE UNCHANGED consultas
  <2>1. /\ rede' = rede /\ vinculo' = vinculo /\ linha' = linha /\ paga' = paga /\ consulta' = consulta
        /\ resposta' = resposta /\ aprovou' = aprovou /\ cruzou' = cruzou /\ dona' = dona
    BY <1>1 DEF consultas
  <2> QED
    BY <2>1 DEF ConsultaInv, LinhaCoerente, ConsultaCoerente, DonaCoerente, Q!TypeOK, Q!PagoFoiAprovada,
                Q!Existe, Q!Comprados
<1>2. CASE \E c \in Clientes, v \in Vendedores \cup {Nulo}, d \in Distribuidores \cup {Nulo} :
               \/ Q!Religar(c, v, d)
               \/ \E x \in Compras, canal \in {"pos", "painel", "whatsapp"} : Q!Vender(x, c, canal, v, d)
  BY <1>2, ReligarConserva, VenderConserva
<1>3. CASE \E v \in Vendedores, d \in Distribuidores : Q!Transferir(v, d)
  BY <1>3, DeForaConserva
<1>4. CASE \E x \in Compras :
              \/ Q!Pagar(x) \/ Q!Aprovar(x) \/ Q!Fechar(x, "RECUSADO") \/ Q!Fechar(x, "CANCELADO")
              \/ \E r \in Pedidos, canal \in {"pos", "painel", "whatsapp"} : Q!Ler(r, canal, x)
  BY <1>4, DeForaConserva, AprovarFecharConserva, LerConserva
<1>5. CASE \E r \in Pedidos : Q!Perguntar(r) \/ Q!Confirmar(r)
  BY <1>5, PerguntarConserva, ConfirmarConserva
<1> QED
  BY <1>1, <1>2, <1>3, <1>4, <1>5 DEF Q!Next

\* Who finds a sale, from the invariant.
LEMMA ConsultaVe == ConsultaInv => VeQuemVendeu
<1> SUFFICES ASSUME ConsultaInv PROVE VeQuemVendeu
  OBVIOUS
<1>1. Q!TypeOK
  BY DEF ConsultaInv
<1>2. Q!FiltroNaoAlarga
  BY DEF Q!FiltroNaoAlarga, Q!Painel
<1>3. Q!PosEPainelConcordam
  <2> SUFFICES ASSUME NEW u \in Vendedores \cup Distribuidores
               PROVE  Q!NoPos(u) \cap Q!DoPainel = {x \in Q!Hierarquia(u) : linha[x].canal = "pos"}
    BY DEF Q!PosEPainelConcordam
  <2>1. u \in Vendedores <=> u \notin Distribuidores
    BY ConsultasAssumption
  <2> QED
    BY <2>1 DEF Q!NoPos, Q!DoPainel, Q!Hierarquia, Q!Dona
<1>4. ASSUME NEW c \in Clientes \ Mascarados, dona[c] \in Q!DoPainel,
             NEW u \in ({linha[dona[c]].v} \cap Vendedores) \cup ({linha[dona[c]].d} \cap Distribuidores)
      PROVE  dona[c] \in Q!PorCpf(u, CpfDe[c])
  <2>1. dona[c] \in Compras /\ dona[c] # Nulo
    BY <1>4, ConsultasAssumption DEF Q!DoPainel
  <2>2. linha[dona[c]].c = c /\ linha[dona[c]].v = vinculo[c].v /\ linha[dona[c]].d = vinculo[c].d
    BY <1>4, <2>1 DEF ConsultaInv, DonaCoerente
  <2>3. u \in Vendedores <=> u \notin Distribuidores
    BY ConsultasAssumption
  <2>4. (u \in Vendedores => linha[dona[c]].v = u) /\ (u \in Distribuidores => linha[dona[c]].d = u)
    BY <2>3, ConsultasAssumption
  <2>5. c \in Q!Limpos(CpfDe[c]) /\ c \in Q!Carteira(u)
    BY <2>2, <2>4 DEF Q!Limpos, Q!Carteira
  <2>6. dona[c] \in Q!Premiadas(c) /\ dona[c] \in Q!Hierarquia(u)
    BY <1>4, <2>2, <2>4 DEF Q!Premiadas, Q!Hierarquia
  <2> QED
    BY <2>5, <2>6 DEF Q!PorCpf
<1>5. ASSUME NEW x \in Q!DoPainel
      PROVE  linha[x].c \in Mascarados <=> \A cpf \in Cpfs : x \notin Q!PorCpf(Admin, cpf)
  <2>1. linha[x].c \in Clientes
    BY DEF ConsultaInv, Q!TypeOK, Q!DoPainel, Q!Existe, Q!Linha
  <2>2. x \in Q!Hierarquia(Admin) /\ \A c : c \in Q!Carteira(Admin) <=> c \in Clientes
    BY ConsultasAssumption DEF Q!Hierarquia, Q!Carteira
  <2>3. \A c : x \in Q!Premiadas(c) <=> linha[x].c = c
    BY DEF Q!Premiadas
  <2>4. \A cpf : x \in Q!PorCpf(Admin, cpf) <=> linha[x].c \in Q!Limpos(cpf)
    BY <2>1, <2>2, <2>3 DEF Q!PorCpf, Q!Limpos
  <2>5. CpfDe[linha[x].c] \in Cpfs
    BY <2>1, ConsultasAssumption
  <2> QED
    BY <2>1, <2>4, <2>5 DEF Q!Limpos
<1> QED
  BY <1>1, <1>2, <1>3, <1>4, <1>5 DEF VeQuemVendeu, Q!AchaPorCpf

\* What the channels answer, from the invariant.
LEMMA ConsultaResponde == ConsultaInv => RespostasConcordam
<1> SUFFICES ASSUME ConsultaInv PROVE RespostasConcordam
  OBVIOUS
<1>1. ASSUME NEW x \in Compras, Q!Existe(x)
      PROVE  IF ProdutoDe[x] = "sena" THEN Q!CartelasDaSena(x) = Q!Comprados(x)
             ELSE /\ {Q!CartelasNoPainel(x), Q!CartelasNoArquivo(x), Q!CartelasNoWhatsapp(x)} = {Q!Comprados(x)}
                  /\ linha[x].status = "APROVADO" => Q!CartelasNaLoja(x) = Q!Comprados(x)
  <2>1. Q!Comprados(x) \in Nat \ {0}
    BY CompradosPositivos
  <2>2. linha[x].bilhetes = IF linha[x].status = "APROVADO" THEN Q!Comprados(x) ELSE 0
    BY <1>1 DEF ConsultaInv, LinhaCoerente
  <2>3. CASE ProdutoDe[x] = "sena"
    <3>1. Quantidade[x] \in Nat /\ Chances[x] = 1
      BY <2>3, ConsultasAssumption
    <3> QED
      BY <2>3, <3>1 DEF Q!CartelasDaSena, Q!Comprados
  <2>4. CASE ProdutoDe[x] # "sena"
    <3>1. Q!CartelasNoArquivo(x) = Q!Comprados(x)
      BY DEF Q!CartelasNoArquivo, Q!Contar
    <3>2. Q!CartelasNoWhatsapp(x) = Q!Comprados(x)
      BY <2>1, <2>2 DEF Q!CartelasNoWhatsapp
    <3>3. Q!CartelasNoPainel(x) = Q!Comprados(x)
      BY <2>1, <2>2 DEF Q!CartelasNoPainel, Q!Contar, Q!SeHouver
    <3>4. linha[x].status = "APROVADO" => Q!CartelasNaLoja(x) = Q!Comprados(x)
      BY <2>1, <2>2 DEF Q!CartelasNaLoja, Q!Contar
    <3> QED
      BY <2>4, <3>1, <3>2, <3>3, <3>4
  <2> QED
    BY <2>3, <2>4
<1>2. Q!CanaisContamIgual
  BY <1>1 DEF Q!CanaisContamIgual
<1> QED
  BY <1>2 DEF RespostasConcordam, ConsultaInv

-----------------------------------------------------------------------------
(* The contact form (FaleConosco). *)
Envio == [passo : {"livre", "guarda", "gravar"} \cup F!Janelas, c : Cpfs \cup {Nulo},
          t : Mensagens \cup {Nulo}, total : Nat]
Cooldown(c, t) == <<"cooldown", c, t>>
Conta(r) == envio[r].total = 1

\* A request knows who writes and what; it has counted in one of the limits, or not yet.
EnvioCoerente(r) ==
    /\ envio[r].passo = "livre" <=> envio[r] = F!Livre
    /\ envio[r].passo # "livre" => envio[r].c \in Cpfs /\ envio[r].t \in Mensagens
    /\ envio[r].total > 0 => comRedis /\ envio[r].passo \in {"ip", "cpf"}

\* Who made a counter is alone in it, and the counter has no TTL until it gives it one.
ContadorSeu(r) ==
    Conta(r) =>
        /\ conta[F!Chave(envio[r])] > 0 /\ F!Chave(envio[r]) \notin prazo
        /\ \A s \in Pedidos : Conta(s) /\ F!Chave(envio[s]) = F!Chave(envio[r]) => s = r

ChaveCede(k) ==
    conta[k] > 0 =>
        \/ k \in prazo \cup parou
        \/ \E r \in Pedidos : Conta(r) /\ F!Chave(envio[r]) = k

\* A request that is saving a message saves one that is not in its cooldown, and with Redis
\* the key of the cooldown is its own.
Gravando(r, c, t) == envio[r].passo = "gravar" /\ envio[r].c = c /\ envio[r].t = t
MensagemCoerente(c, t) ==
    /\ ~juntos => \A i, j \in F!NoCooldown(c, t) : i = j
    /\ ~juntos => \A r \in Pedidos : Gravando(r, c, t) => F!NoCooldown(c, t) = {}
    /\ comRedis => \A r, s \in Pedidos : Gravando(r, c, t) /\ Gravando(s, c, t) => r = s
    /\ comRedis => \A r \in Pedidos : Gravando(r, c, t) => conta[Cooldown(c, t)] > 0
    /\ comRedis /\ F!NoCooldown(c, t) # {} => conta[Cooldown(c, t)] > 0
    /\ conta[Cooldown(c, t)] > 0 =>
           \/ F!NoCooldown(c, t) # {} \/ <<c, t>> \in perdida
           \/ \E r \in Pedidos : Gravando(r, c, t)

\* Without Redis nothing is counted; and alone means that one request is in flight.
SemRedis == ~comRedis => prazo = {} /\ \A k \in F!Chaves : conta[k] = 0
Sozinho == ~comRedis /\ ~juntos => \A r, s \in F!EmVoo : r = s

ContatoInv ==
    /\ F!TypeOK /\ envio \in [Pedidos -> Envio]
    /\ \A r \in Pedidos : EnvioCoerente(r) /\ ContadorSeu(r)
    /\ \A k \in F!Chaves : ChaveCede(k)
    /\ \A c \in Cpfs, t \in Mensagens : MensagemCoerente(c, t)
    /\ SemRedis /\ Sozinho

-----------------------------------------------------------------------------
\* The keys of different kinds, customers and messages differ.
LEMMA ChavesDiferem ==
    /\ <<"guarda">> # <<"ip">> /\ <<"bloqueio">> # <<"ip">> /\ <<"guarda">> # <<"bloqueio">>
    /\ \A c : /\ <<"cpf", c>> # <<"guarda">> /\ <<"cpf", c>> # <<"bloqueio">> /\ <<"cpf", c>> # <<"ip">>
    /\ \A c, t : /\ Cooldown(c, t) # <<"guarda">> /\ Cooldown(c, t) # <<"bloqueio">> /\ Cooldown(c, t) # <<"ip">>
                 /\ \A b : Cooldown(c, t) # <<"cpf", b>>
                 /\ \A b, u : Cooldown(c, t) = Cooldown(b, u) => c = b /\ t = u
BY DEF Cooldown

LEMMA ChavesDoPedido ==
    ASSUME NEW r \in Pedidos, EnvioCoerente(r)
    PROVE  /\ envio[r].passo = "ip" => F!Chave(envio[r]) = <<"ip">>
           /\ envio[r].passo = "cpf" => F!Chave(envio[r]) = <<"cpf", envio[r].c>>
           /\ envio[r].passo = "cooldown" => F!Chave(envio[r]) = Cooldown(envio[r].c, envio[r].t)
           /\ envio[r].passo \in F!Janelas => F!Chave(envio[r]) \in F!Chaves
           /\ Conta(r) => F!Chave(envio[r]) \in {<<"ip">>} \cup {<<"cpf", c>> : c \in Cpfs}
<1>1. /\ envio[r].passo = "ip" => F!Chave(envio[r]) = <<"ip">>
      /\ envio[r].passo = "cpf" => F!Chave(envio[r]) = <<"cpf", envio[r].c>>
      /\ envio[r].passo = "cooldown" => F!Chave(envio[r]) = Cooldown(envio[r].c, envio[r].t)
  BY DEF F!Chave, Cooldown
<1>2. envio[r].passo \in F!Janelas => envio[r].c \in Cpfs /\ envio[r].t \in Mensagens
  BY DEF EnvioCoerente, F!Janelas
<1> QED
  BY <1>1, <1>2 DEF F!Janelas, F!Chaves, Cooldown, Conta, EnvioCoerente

LEMMA ContatoInicial == F!Init => ContatoInv
<1> SUFFICES ASSUME F!Init PROVE ContatoInv
  OBVIOUS
<1>1. /\ conta = [k \in F!Chaves |-> 0] /\ prazo = {} /\ parou = {} /\ perdida = {} /\ juntos = FALSE
      /\ envio = [r \in Pedidos |-> F!Livre] /\ gravadas = << >> /\ comRedis \in BOOLEAN
  BY DEF F!Init
<1>2. F!TypeOK
  <2>1. gravadas \in Seq(F!Linha)
    BY <1>1
  <2>2. conta \in [F!Chaves -> Nat] /\ prazo \subseteq {k \in F!Chaves : conta[k] > 0}
    BY <1>1
  <2>3. juntos \in BOOLEAN
    BY <1>1
  <2>5. \A S : {} \subseteq S
    OBVIOUS
  <2>4. \A r \in Pedidos : envio[r].passo \in {"livre", "guarda", "gravar"} \cup F!Janelas
    BY <1>1 DEF F!Livre
  <2> QED
    BY <1>1, <2>1, <2>2, <2>3, <2>4, <2>5, Zenon DEF F!TypeOK
<1>3. envio \in [Pedidos -> Envio] /\ \A r \in Pedidos : EnvioCoerente(r) /\ ContadorSeu(r)
  BY <1>1 DEF Envio, F!Livre, EnvioCoerente, ContadorSeu, Conta
<1>4. \A k \in F!Chaves : ChaveCede(k)
  BY <1>1 DEF ChaveCede
<1>5. \A c \in Cpfs, t \in Mensagens : MensagemCoerente(c, t)
  <2> TAKE c \in Cpfs, t \in Mensagens
  <2>1. F!NoCooldown(c, t) = {} /\ conta[Cooldown(c, t)] = 0 /\ \A r \in Pedidos : ~Gravando(r, c, t)
    BY <1>1 DEF F!NoCooldown, Cooldown, F!Chaves, Gravando, F!Livre
  <2> QED
    BY <2>1 DEF MensagemCoerente
<1>6. SemRedis /\ Sozinho
  BY <1>1 DEF SemRedis, Sozinho, F!EmVoo
<1> QED
  BY <1>2, <1>3, <1>4, <1>5, <1>6 DEF ContatoInv

\* Of the step that a request takes: alone it leaves no other in flight.
Junta == juntos' = (juntos \/ (~comRedis /\ \E r, s \in F!EmVoo' : r # s))

LEMMA JuntaSozinho ==
    ASSUME ContatoInv, Junta, comRedis' = comRedis
    PROVE  /\ juntos' \in BOOLEAN /\ (~juntos' => ~juntos) /\ Sozinho'
           /\ ~comRedis /\ ~juntos' =>
                  \A r, s \in Pedidos : envio'[r] # F!Livre /\ envio'[s] # F!Livre => r = s
<1>1. juntos \in BOOLEAN /\ comRedis \in BOOLEAN
  BY DEF ContatoInv, F!TypeOK
<1>2. ~comRedis /\ ~juntos' => \A r, s \in F!EmVoo' : r = s
  BY <1>1 DEF Junta
<1>3. juntos' \in BOOLEAN /\ (~juntos' => ~juntos)
  BY <1>1 DEF Junta
<1>4. F!EmVoo' = {r \in Pedidos : envio'[r] # F!Livre}
  BY DEF F!EmVoo, F!Livre
<1> QED
  BY <1>2, <1>3, <1>4 DEF Sozinho

\* A request moves and the others stay.
LEMMA UmAnda ==
    ASSUME ContatoInv, comRedis' = comRedis, NEW r \in Pedidos, NEW q \in Envio,
           envio' = [envio EXCEPT ![r] = q],
           q.passo = "livre" <=> q = F!Livre,
           q.passo # "livre" => q.c \in Cpfs /\ q.t \in Mensagens,
           q.total > 0 => comRedis /\ q.passo \in {"ip", "cpf"}
    PROVE  /\ envio' \in [Pedidos -> Envio] /\ envio'[r] = q
           /\ \A s \in Pedidos \ {r} : envio'[s] = envio[s]
           /\ \A s \in Pedidos : EnvioCoerente(s)'
<1>1. envio \in [Pedidos -> Envio] /\ \A s \in Pedidos : EnvioCoerente(s)
  BY DEF ContatoInv
<1>2. envio' \in [Pedidos -> Envio] /\ envio'[r] = q /\ \A s \in Pedidos \ {r} : envio'[s] = envio[s]
  BY <1>1
<1>3. ASSUME NEW s \in Pedidos PROVE EnvioCoerente(s)'
  <2>1. F!Livre' = F!Livre
    BY DEF F!Livre
  <2>2. CASE s = r
    BY <1>2, <2>1, <2>2 DEF EnvioCoerente
  <2>3. CASE s # r
    BY <1>1, <1>2, <2>1, <2>3 DEF EnvioCoerente
  <2> QED
    BY <2>2, <2>3
<1> QED
  BY <1>2, <1>3

\* The limits are as they were: of the other keys, one that is set gets its TTL at once.
ChavesDeLimite == {<<"ip">>} \cup {<<"cpf", c>> : c \in Cpfs}
LEMMA ContadorFica ==
    ASSUME ContatoInv,
           \A s \in Pedidos : (Conta(s)' <=> Conta(s)) /\ (Conta(s) => envio'[s] = envio[s]),
           \A k \in ChavesDeLimite : conta'[k] = conta[k] /\ (k \in prazo' <=> k \in prazo),
           \A k \in F!Chaves : conta'[k] = conta[k] \/ k \in prazo',
           prazo \subseteq prazo', parou \subseteq parou'
    PROVE  (\A s \in Pedidos : ContadorSeu(s)') /\ \A k \in F!Chaves : ChaveCede(k)'
<1>1. \A s \in Pedidos : Conta(s) => /\ F!Chave(envio[s])' = F!Chave(envio[s])
                                     /\ F!Chave(envio[s]) \in ChavesDeLimite
  BY ChavesDoPedido DEF ContatoInv, F!Chave, ChavesDeLimite
<1>2. \A s \in Pedidos : ContadorSeu(s)'
  <2> TAKE s \in Pedidos
  <2>1. ContadorSeu(s)
    BY DEF ContatoInv
  <2> QED
    BY <1>1, <2>1 DEF ContadorSeu
<1>3. \A k \in F!Chaves : ChaveCede(k)'
  <2> TAKE k \in F!Chaves
  <2>1. ChaveCede(k)
    BY DEF ContatoInv
  <2> QED
    BY <1>1, <2>1 DEF ChaveCede
<1> QED
  BY <1>2, <1>3

\* The messages, the cooldowns and who is saving are as they were.
LEMMA MensagemFica ==
    ASSUME ContatoInv, comRedis' = comRedis, gravadas' = gravadas, ~juntos' => ~juntos,
           perdida \subseteq perdida',
           \A c \in Cpfs, t \in Mensagens : conta'[Cooldown(c, t)] = conta[Cooldown(c, t)],
           \A r \in Pedidos, c \in Cpfs, t \in Mensagens : Gravando(r, c, t)' <=> Gravando(r, c, t)
    PROVE  \A c \in Cpfs, t \in Mensagens : MensagemCoerente(c, t)'
<1> TAKE c \in Cpfs, t \in Mensagens
<1>1. MensagemCoerente(c, t) /\ F!NoCooldown(c, t)' = F!NoCooldown(c, t) /\ Cooldown(c, t)' = Cooldown(c, t)
  BY DEF ContatoInv, F!NoCooldown, Cooldown
<1>2. /\ conta'[Cooldown(c, t)] = conta[Cooldown(c, t)]
      /\ \A r \in Pedidos : Gravando(r, c, t)' <=> Gravando(r, c, t)
  OBVIOUS
<1> QED
  BY <1>1, <1>2 DEF MensagemCoerente

\* A step of a request that writes no key and no row: it moves on, or ends.
LEMMA SoAnda ==
    ASSUME ContatoInv, Junta, NEW r \in Pedidos, NEW q \in Envio,
           envio' = [envio EXCEPT ![r] = q],
           q.passo = "livre" <=> q = F!Livre,
           q.passo # "livre" => q.c \in Cpfs /\ q.t \in Mensagens,
           q.total = 0, ~Conta(r), q.passo # "gravar", envio[r].passo # "gravar",
           UNCHANGED <<comRedis, conta, prazo, gravadas, parou, perdida>>
    PROVE  ContatoInv'
<1>1. /\ comRedis' = comRedis /\ conta' = conta /\ prazo' = prazo /\ gravadas' = gravadas
      /\ parou' = parou /\ perdida' = perdida
  OBVIOUS
<1>2. /\ envio' \in [Pedidos -> Envio] /\ envio'[r] = q
      /\ \A s \in Pedidos \ {r} : envio'[s] = envio[s]
      /\ \A s \in Pedidos : EnvioCoerente(s)'
  <2>1. ~(q.total > 0)
    OBVIOUS
  <2> QED
    BY <1>1, <2>1, UmAnda
<1>3. juntos' \in BOOLEAN /\ (~juntos' => ~juntos) /\ Sozinho'
  BY <1>1, JuntaSozinho
<1>4. F!TypeOK'
  BY <1>1, <1>2, <1>3 DEF ContatoInv, F!TypeOK, Envio
<1>5. (\A s \in Pedidos : ContadorSeu(s)') /\ \A k \in F!Chaves : ChaveCede(k)'
  <2>1. \A s \in Pedidos : (Conta(s)' <=> Conta(s)) /\ (Conta(s) => envio'[s] = envio[s])
    BY <1>2 DEF Conta
  <2> QED
    BY <1>1, <2>1, ContadorFica
<1>6. \A c \in Cpfs, t \in Mensagens : MensagemCoerente(c, t)'
  <2>1. \A s \in Pedidos, c \in Cpfs, t \in Mensagens : Gravando(s, c, t)' <=> Gravando(s, c, t)
    BY <1>2 DEF Gravando
  <2> QED
    BY <1>1, <1>3, <2>1, MensagemFica
<1>7. SemRedis'
  BY <1>1 DEF ContatoInv, SemRedis
<1> QED
  BY <1>2, <1>3, <1>4, <1>5, <1>6, <1>7 DEF ContatoInv

LEMMA LivreEUmEnvio == F!Livre \in Envio /\ F!Livre.total = 0 /\ F!Livre.passo = "livre"
BY DEF F!Livre, Envio

\* Where a request goes on to, with nothing counted.
LEMMA Seguinte ==
    ASSUME ContatoInv, NEW r \in Pedidos, envio[r].passo \in {"guarda", "ip", "cpf", "cooldown"}, F!Seguir(r)
    PROVE  \E q \in Envio :
              /\ envio' = [envio EXCEPT ![r] = q]
              /\ q.total = 0 /\ q.passo = F!Depois(envio[r].passo)
              /\ q.passo \in F!Janelas \cup {"gravar"} /\ q # F!Livre
              /\ q.c = envio[r].c /\ q.t = envio[r].t /\ q.c \in Cpfs /\ q.t \in Mensagens
<1> DEFINE q == [envio[r] EXCEPT !.passo = F!Depois(envio[r].passo), !.total = 0]
<1>1. envio[r] \in Envio /\ envio[r].c \in Cpfs /\ envio[r].t \in Mensagens
  BY DEF ContatoInv, EnvioCoerente
<1>2. F!Depois(envio[r].passo) \in F!Janelas \cup {"gravar"}
  BY DEF F!Depois, F!Janelas
<1>3. envio' = [envio EXCEPT ![r] = q]
  BY DEF F!Seguir, F!Ir
<1>4. q \in Envio /\ q.total = 0 /\ q.passo = F!Depois(envio[r].passo) /\ q.c = envio[r].c /\ q.t = envio[r].t
  BY <1>1, <1>2 DEF Envio, F!Janelas
<1>5. q # F!Livre
  BY <1>2, <1>4 DEF F!Livre, F!Janelas
<1> HIDE DEF q
<1> QED
  BY <1>1, <1>2, <1>3, <1>4, <1>5

LEMMA ChegarConserva ==
    ASSUME ContatoInv, Junta, NEW r \in Pedidos, NEW c \in Cpfs, NEW t \in Mensagens, F!Chegar(r, c, t)
    PROVE  ContatoInv'
<1> DEFINE q == [passo |-> "guarda", c |-> c, t |-> t, total |-> 0]
<1>1. q \in Envio /\ q # F!Livre /\ q.passo = "guarda" /\ q.c = c /\ q.t = t /\ q.total = 0
  BY DEF Envio, F!Livre
<1>2. /\ envio' = [envio EXCEPT ![r] = q] /\ envio[r] = F!Livre
      /\ UNCHANGED <<comRedis, conta, prazo, gravadas, parou, perdida>>
  BY DEF F!Chegar, F!Ir, F!redis
<1>3. ~Conta(r) /\ envio[r].passo # "gravar"
  BY <1>2, LivreEUmEnvio DEF Conta
<1> HIDE DEF q
<1> QED
  BY <1>1, <1>2, <1>3, SoAnda

LEMMA GuardarNaMemoriaConserva ==
    ASSUME ContatoInv, Junta, NEW r \in Pedidos, F!GuardarNaMemoria(r)
    PROVE  ContatoInv'
<1>1. /\ envio[r].passo = "guarda" /\ UNCHANGED <<comRedis, conta, prazo, gravadas, parou, perdida>>
  BY DEF F!GuardarNaMemoria, F!redis
<1>2. ~Conta(r)
  BY <1>1 DEF ContatoInv, EnvioCoerente, Conta
<1>3. CASE F!Recusar(r)
  BY <1>1, <1>2, <1>3, LivreEUmEnvio, SoAnda DEF F!Recusar, F!Ir
<1>4. CASE F!Seguir(r)
  <2>1. PICK q \in Envio :
              /\ envio' = [envio EXCEPT ![r] = q]
              /\ q.total = 0 /\ q.passo = "ip" /\ q # F!Livre /\ q.c \in Cpfs /\ q.t \in Mensagens
    BY <1>1, <1>4, Seguinte DEF F!Depois
  <2> QED
    BY <1>1, <1>2, <2>1, SoAnda
<1> QED
  BY <1>3, <1>4 DEF F!GuardarNaMemoria

\* The script of the throttler: its keys get their TTL with their count.
LEMMA GuardarConserva ==
    ASSUME ContatoInv, Junta, NEW r \in Pedidos, F!Guardar(r)
    PROVE  ContatoInv'
<1>1. /\ envio[r].passo = "guarda" /\ comRedis /\ comRedis' = comRedis /\ gravadas' = gravadas
      /\ parou' = parou /\ perdida' = perdida
  BY DEF F!Guardar
<1>2. ~Conta(r)
  BY <1>1 DEF ContatoInv, EnvioCoerente, Conta
<1>3. PICK q \in Envio :
          /\ envio' = [envio EXCEPT ![r] = q] /\ q.total = 0 /\ q.passo # "gravar"
          /\ q.passo = "livre" <=> q = F!Livre
          /\ q.passo # "livre" => q.c \in Cpfs /\ q.t \in Mensagens
  <2>1. CASE F!Recusar(r)
    BY <2>1, LivreEUmEnvio DEF F!Recusar, F!Ir
  <2>2. CASE F!Seguir(r)
    <3>1. PICK q \in Envio :
              /\ envio' = [envio EXCEPT ![r] = q]
              /\ q.total = 0 /\ q.passo = "ip" /\ q # F!Livre /\ q.c \in Cpfs /\ q.t \in Mensagens
      BY <1>1, <2>2, Seguinte DEF F!Depois
    <3> QED
      BY <3>1
  <2> QED
    BY <2>1, <2>2 DEF F!Guardar
<1>4. /\ <<"guarda">> \in F!Chaves /\ <<"bloqueio">> \in F!Chaves
      /\ \A k \in ChavesDeLimite : k # <<"guarda">> /\ k # <<"bloqueio">>
      /\ \A c \in Cpfs, t \in Mensagens :
            Cooldown(c, t) \in F!Chaves /\ Cooldown(c, t) # <<"guarda">> /\ Cooldown(c, t) # <<"bloqueio">>
  BY ChavesDiferem DEF F!Chaves, ChavesDeLimite, Cooldown
<1>5. conta \in [F!Chaves -> Nat] /\ prazo \subseteq {k \in F!Chaves : conta[k] > 0}
  BY DEF ContatoInv, F!TypeOK
<1>6. /\ conta' \in [F!Chaves -> Nat] /\ prazo' \subseteq {k \in F!Chaves : conta'[k] > 0}
      /\ prazo \subseteq prazo' /\ prazo' \subseteq prazo \cup {<<"guarda">>, <<"bloqueio">>}
      /\ \A k \in F!Chaves : conta'[k] = conta[k] \/ k \in prazo'
      /\ \A k \in F!Chaves \ {<<"guarda">>, <<"bloqueio">>} : conta'[k] = conta[k]
  <2>1. CASE conta' = conta /\ prazo' = prazo
    BY <1>5, <2>1
  <2>2. CASE /\ conta' = [conta EXCEPT ![<<"guarda">>] = conta[<<"guarda">>] + 1]
             /\ prazo' = prazo \cup {<<"guarda">>}
    <3> DEFINE g == <<"guarda">>
    <3>1. g \in F!Chaves /\ conta' = [conta EXCEPT ![g] = conta[g] + 1] /\ prazo' = prazo \cup {g}
      BY <1>4, <2>2
    <3> HIDE DEF g
    <3>2. /\ conta' \in [F!Chaves -> Nat] /\ conta'[g] > 0 /\ \A k \in F!Chaves \ {g} : conta'[k] = conta[k]
      BY <1>5, <3>1
    <3>3. /\ prazo' \subseteq {k \in F!Chaves : conta'[k] > 0}
          /\ \A k \in F!Chaves : conta'[k] = conta[k] \/ k \in prazo'
      BY <1>5, <3>1, <3>2
    <3> QED
      BY <3>1, <3>2, <3>3 DEF g
  <2>3. CASE /\ conta' = [conta EXCEPT ![<<"guarda">>] = conta[<<"guarda">>] + 1, ![<<"bloqueio">>] = 1]
             /\ prazo' = prazo \cup {<<"guarda">>, <<"bloqueio">>}
    <3> DEFINE g == <<"guarda">>
               b == <<"bloqueio">>
    <3>1. /\ g \in F!Chaves /\ b \in F!Chaves /\ g # b /\ prazo' = prazo \cup {g, b}
          /\ conta' = [conta EXCEPT ![g] = conta[g] + 1, ![b] = 1]
      BY <1>4, <2>3, ChavesDiferem
    <3> HIDE DEF g, b
    <3>2. /\ conta' \in [F!Chaves -> Nat] /\ conta'[g] > 0 /\ conta'[b] > 0
          /\ \A k \in F!Chaves \ {g, b} : conta'[k] = conta[k]
      BY <1>5, <3>1
    <3>3. /\ prazo' \subseteq {k \in F!Chaves : conta'[k] > 0}
          /\ \A k \in F!Chaves : conta'[k] = conta[k] \/ k \in prazo'
      BY <1>5, <3>1, <3>2
    <3> QED
      BY <3>1, <3>2, <3>3 DEF g, b
  <2> QED
    BY <2>1, <2>2, <2>3 DEF F!Guardar, F!redis
<1>7. /\ envio' \in [Pedidos -> Envio] /\ envio'[r] = q
      /\ \A s \in Pedidos \ {r} : envio'[s] = envio[s]
      /\ \A s \in Pedidos : EnvioCoerente(s)'
  <2>1. ~(q.total > 0)
    BY <1>3
  <2> QED
    BY <1>1, <1>3, <2>1, UmAnda
<1>8. juntos' \in BOOLEAN /\ (~juntos' => ~juntos) /\ Sozinho'
  BY <1>1, JuntaSozinho
<1>9. F!TypeOK'
  BY <1>1, <1>6, <1>7, <1>8 DEF ContatoInv, F!TypeOK, Envio
<1>10. (\A s \in Pedidos : ContadorSeu(s)') /\ \A k \in F!Chaves : ChaveCede(k)'
  <2>1. \A s \in Pedidos : (Conta(s)' <=> Conta(s)) /\ (Conta(s) => envio'[s] = envio[s])
    BY <1>2, <1>3, <1>7 DEF Conta
  <2>2. \A k \in ChavesDeLimite : k \in F!Chaves
    BY DEF ChavesDeLimite, F!Chaves
  <2>3. \A k \in ChavesDeLimite : conta'[k] = conta[k] /\ (k \in prazo' <=> k \in prazo)
    BY <1>4, <1>6, <2>2
  <2>4. parou \subseteq parou'
    BY <1>1
  <2> QED
    BY <1>6, <2>1, <2>3, <2>4, ContadorFica
<1>11. \A c \in Cpfs, t \in Mensagens : MensagemCoerente(c, t)'
  <2>1. \A s \in Pedidos, c \in Cpfs, t \in Mensagens : Gravando(s, c, t)' <=> Gravando(s, c, t)
    BY <1>1, <1>3, <1>7 DEF Gravando
  <2>2. \A c \in Cpfs, t \in Mensagens : conta'[Cooldown(c, t)] = conta[Cooldown(c, t)]
    BY <1>4, <1>6
  <2>3. perdida \subseteq perdida'
    BY <1>1
  <2> QED
    BY <1>1, <1>8, <2>1, <2>2, <2>3, MensagemFica
<1>12. SemRedis'
  BY <1>1 DEF SemRedis
<1> QED
  BY <1>7, <1>8, <1>9, <1>10, <1>11, <1>12 DEF ContatoInv

\* INCR: who finds no counter has made it, and is alone in it.
LEMMA IncrementarConserva ==
    ASSUME ContatoInv, Junta, NEW r \in Pedidos, F!Incrementar(r)
    PROVE  ContatoInv'
<1> DEFINE k == F!Chave(envio[r])
           q == [envio[r] EXCEPT !.total = conta[k] + 1]
<1>1. /\ envio[r].passo \in {"ip", "cpf"} /\ comRedis /\ envio[r].total = 0
      /\ conta' = [conta EXCEPT ![k] = conta[k] + 1] /\ envio' = [envio EXCEPT ![r] = q]
      /\ comRedis' = comRedis /\ prazo' = prazo /\ gravadas' = gravadas /\ parou' = parou /\ perdida' = perdida
  BY DEF F!Incrementar, F!Ir
<1>2. /\ k \in ChavesDeLimite /\ k \in F!Chaves
      /\ envio[r] \in Envio /\ envio[r].c \in Cpfs /\ envio[r].t \in Mensagens
  <2>1. EnvioCoerente(r) /\ envio[r] \in Envio
    BY DEF ContatoInv
  <2> QED
    BY <1>1, <2>1, ChavesDoPedido DEF ChavesDeLimite, EnvioCoerente, F!Janelas
<1>3. conta \in [F!Chaves -> Nat] /\ prazo \subseteq {h \in F!Chaves : conta[h] > 0}
  BY DEF ContatoInv, F!TypeOK
<1>4. /\ q \in Envio /\ q.passo = envio[r].passo /\ q.c = envio[r].c /\ q.t = envio[r].t
      /\ q.total = conta[k] + 1 /\ q # F!Livre
  BY <1>1, <1>2, <1>3 DEF Envio, F!Livre
<1>5. F!Chave(q) = k
  BY <1>1, <1>4 DEF F!Chave
<1> HIDE DEF k, q
<1>6. /\ envio' \in [Pedidos -> Envio] /\ envio'[r] = q
      /\ \A s \in Pedidos \ {r} : envio'[s] = envio[s]
      /\ \A s \in Pedidos : EnvioCoerente(s)'
  <2>1. q.passo \in {"ip", "cpf"} /\ q.c \in Cpfs /\ q.t \in Mensagens /\ q.passo # "livre"
    BY <1>1, <1>2, <1>4
  <2> QED
    BY <1>1, <1>4, <2>1, UmAnda
<1>7. juntos' \in BOOLEAN /\ (~juntos' => ~juntos) /\ Sozinho'
  BY <1>1, JuntaSozinho
<1>8. /\ conta' \in [F!Chaves -> Nat] /\ conta'[k] = conta[k] + 1
      /\ \A h \in F!Chaves \ {k} : conta'[h] = conta[h]
  BY <1>1, <1>2, <1>3
<1>9. F!TypeOK'
  <2>1. prazo' \subseteq {h \in F!Chaves : conta'[h] > 0}
    BY <1>1, <1>3, <1>8
  <2> QED
    BY <1>1, <1>6, <1>7, <1>8, <2>1 DEF ContatoInv, F!TypeOK, Envio
<1>10. /\ \A s \in Pedidos \ {r} : (Conta(s)' <=> Conta(s)) /\ F!Chave(envio[s])' = F!Chave(envio[s])
       /\ ~Conta(r) /\ (Conta(r)' <=> conta[k] = 0) /\ F!Chave(envio[r])' = k
  <2>1. \A s \in Pedidos \ {r} : (Conta(s)' <=> Conta(s)) /\ F!Chave(envio[s])' = F!Chave(envio[s])
    BY <1>6 DEF Conta, F!Chave
  <2>2. ~Conta(r) /\ (Conta(r)' <=> conta[k] = 0)
    <3>1. conta[k] \in Nat
      BY <1>2, <1>3
    <3> QED
      BY <1>1, <1>4, <1>6, <3>1 DEF Conta
  <2>3. F!Chave(envio[r])' = F!Chave(q)
    BY <1>6 DEF F!Chave
  <2> QED
    BY <1>5, <2>1, <2>2, <2>3
<1>11. \A s \in Pedidos : Conta(s) => F!Chave(envio[s]) \in F!Chaves
  <2>1. \A s \in Pedidos : EnvioCoerente(s)
    BY DEF ContatoInv
  <2> QED
    BY <2>1, ChavesDoPedido DEF Conta, EnvioCoerente, F!Janelas
<1>12. \A s \in Pedidos : ContadorSeu(s)'
  <2> TAKE s \in Pedidos
  <2>1. \A o \in Pedidos : ContadorSeu(o)
    BY DEF ContatoInv
  <2>2. CASE s = r
    <3>1. Conta(r)' => conta[k] = 0 /\ k \notin prazo' /\ conta'[k] > 0
      BY <1>1, <1>3, <1>8, <1>10
    <3>2. conta[k] = 0 => \A o \in Pedidos \ {r} : ~(Conta(o) /\ F!Chave(envio[o]) = k)
      BY <1>3, <1>2, <2>1 DEF ContadorSeu
    <3> QED
      BY <1>10, <2>2, <3>1, <3>2 DEF ContadorSeu
  <2>3. CASE s # r
    <3>1. Conta(s) => conta[F!Chave(envio[s])] > 0 /\ F!Chave(envio[s]) \notin prazo
      BY <2>1 DEF ContadorSeu
    <3>2. Conta(s) => conta'[F!Chave(envio[s])] > 0 /\ F!Chave(envio[s]) \notin prazo'
      BY <1>1, <1>2, <1>3, <1>8, <1>11, <3>1
    <3>3. Conta(s) /\ Conta(r)' => F!Chave(envio[s]) # k
      BY <1>2, <1>3, <1>10, <3>1
    <3> QED
      BY <1>10, <2>1, <2>3, <3>2, <3>3 DEF ContadorSeu
  <2> QED
    BY <2>2, <2>3
<1>13. \A h \in F!Chaves : ChaveCede(h)'
  <2> TAKE h \in F!Chaves
  <2>1. ChaveCede(h)
    BY DEF ContatoInv
  <2>2. CASE h = k /\ conta[k] = 0
    BY <1>10, <2>2 DEF ChaveCede
  <2>3. CASE ~(h = k /\ conta[k] = 0)
    <3>1. conta'[h] > 0 => conta[h] > 0
      BY <1>2, <1>3, <1>8, <2>3
    <3> QED
      BY <1>1, <1>10, <2>1, <3>1 DEF ChaveCede
  <2> QED
    BY <2>2, <2>3
<1>14. \A c \in Cpfs, t \in Mensagens : MensagemCoerente(c, t)'
  <2>1. \A s \in Pedidos, c \in Cpfs, t \in Mensagens : Gravando(s, c, t)' <=> Gravando(s, c, t)
    BY <1>1, <1>4, <1>6 DEF Gravando
  <2>2. \A c \in Cpfs, t \in Mensagens : conta'[Cooldown(c, t)] = conta[Cooldown(c, t)]
    <3>1. \A c \in Cpfs, t \in Mensagens : Cooldown(c, t) \in F!Chaves
      BY DEF Cooldown, F!Chaves
    <3>2. \A c \in Cpfs, t \in Mensagens : Cooldown(c, t) # k
      BY <1>2, ChavesDiferem DEF ChavesDeLimite
    <3> QED
      BY <1>8, <3>1, <3>2
  <2>3. perdida \subseteq perdida'
    BY <1>1
  <2> QED
    BY <1>1, <1>7, <2>1, <2>2, <2>3, MensagemFica
<1>15. SemRedis'
  BY <1>1 DEF SemRedis
<1> QED
  BY <1>6, <1>7, <1>9, <1>12, <1>13, <1>14, <1>15 DEF ContatoInv

\* EXPIRE, by who made the counter; then the comparison.
LEMMA ConferirConserva ==
    ASSUME ContatoInv, Junta, NEW r \in Pedidos, F!Conferir(r)
    PROVE  ContatoInv'
<1> DEFINE k == F!Chave(envio[r])
<1>1. /\ envio[r].passo \in {"ip", "cpf"} /\ envio[r].total > 0
      /\ prazo' = IF Conta(r) THEN prazo \cup {k} ELSE prazo
      /\ comRedis' = comRedis /\ conta' = conta /\ gravadas' = gravadas /\ parou' = parou /\ perdida' = perdida
  BY DEF F!Conferir, F!Primeiro, Conta
<1>2. /\ comRedis /\ k \in ChavesDeLimite /\ k \in F!Chaves /\ (Conta(r) => conta[k] > 0)
      /\ \A s \in Pedidos : Conta(r) /\ Conta(s) /\ F!Chave(envio[s]) = k => s = r
  <2>1. EnvioCoerente(r) /\ ContadorSeu(r)
    BY DEF ContatoInv
  <2> QED
    BY <1>1, <2>1, ChavesDoPedido DEF ChavesDeLimite, EnvioCoerente, ContadorSeu, F!Janelas
<1>3. PICK q \in Envio :
          /\ envio' = [envio EXCEPT ![r] = q] /\ q.total = 0 /\ q.passo # "gravar"
          /\ q.passo = "livre" <=> q = F!Livre
          /\ q.passo # "livre" => q.c \in Cpfs /\ q.t \in Mensagens
  <2>1. CASE F!Recusar(r)
    BY <2>1, LivreEUmEnvio DEF F!Recusar, F!Ir
  <2>2. CASE F!Seguir(r)
    <3>1. F!Depois(envio[r].passo) \in {"cpf", "cooldown"}
      BY <1>1 DEF F!Depois
    <3>2. PICK q \in Envio :
              /\ envio' = [envio EXCEPT ![r] = q]
              /\ q.total = 0 /\ q.passo = F!Depois(envio[r].passo) /\ q # F!Livre
              /\ q.c \in Cpfs /\ q.t \in Mensagens
      BY <1>1, <2>2, Seguinte
    <3> QED
      BY <3>1, <3>2
  <2> QED
    BY <2>1, <2>2 DEF F!Conferir
<1> HIDE DEF k
<1>4. /\ envio' \in [Pedidos -> Envio] /\ envio'[r] = q
      /\ \A s \in Pedidos \ {r} : envio'[s] = envio[s]
      /\ \A s \in Pedidos : EnvioCoerente(s)'
  <2>1. ~(q.total > 0)
    BY <1>3
  <2> QED
    BY <1>1, <1>3, <2>1, UmAnda
<1>5. juntos' \in BOOLEAN /\ (~juntos' => ~juntos) /\ Sozinho'
  BY <1>1, JuntaSozinho
<1>6. F!TypeOK'
  <2>1. conta \in [F!Chaves -> Nat] /\ prazo \subseteq {h \in F!Chaves : conta[h] > 0}
    BY DEF ContatoInv, F!TypeOK
  <2>2. conta' \in [F!Chaves -> Nat] /\ prazo' \subseteq {h \in F!Chaves : conta'[h] > 0}
    BY <1>1, <1>2, <2>1
  <2> QED
    BY <1>1, <1>4, <1>5, <2>2 DEF ContatoInv, F!TypeOK, Envio
<1>7. /\ \A s \in Pedidos \ {r} : (Conta(s)' <=> Conta(s)) /\ F!Chave(envio[s])' = F!Chave(envio[s])
      /\ ~Conta(r)'
  <2>1. \A s \in Pedidos \ {r} : (Conta(s)' <=> Conta(s)) /\ F!Chave(envio[s])' = F!Chave(envio[s])
    BY <1>4 DEF Conta, F!Chave
  <2>2. ~Conta(r)'
    BY <1>3, <1>4 DEF Conta
  <2> QED
    BY <2>1, <2>2
<1>8. \A s \in Pedidos : ContadorSeu(s)'
  <2> TAKE s \in Pedidos
  <2>1. ContadorSeu(s)
    BY DEF ContatoInv
  <2>2. s # r /\ Conta(s) => F!Chave(envio[s]) \notin prazo'
    BY <1>1, <1>2, <2>1 DEF ContadorSeu
  <2> QED
    BY <1>1, <1>7, <2>1, <2>2 DEF ContadorSeu
<1>9. \A h \in F!Chaves : ChaveCede(h)'
  <2> TAKE h \in F!Chaves
  <2>1. ChaveCede(h)
    BY DEF ContatoInv
  <2>2. CASE Conta(r) /\ h = k
    BY <1>1, <2>2 DEF ChaveCede
  <2>3. CASE ~(Conta(r) /\ h = k)
    BY <1>1, <1>7, <2>1, <2>3 DEF ChaveCede, k
  <2> QED
    BY <2>2, <2>3
<1>10. \A c \in Cpfs, t \in Mensagens : MensagemCoerente(c, t)'
  <2>1. \A s \in Pedidos, c \in Cpfs, t \in Mensagens : Gravando(s, c, t)' <=> Gravando(s, c, t)
    BY <1>1, <1>3, <1>4 DEF Gravando
  <2>2. \A c \in Cpfs, t \in Mensagens : conta'[Cooldown(c, t)] = conta[Cooldown(c, t)]
    BY <1>1
  <2>3. perdida \subseteq perdida'
    BY <1>1
  <2> QED
    BY <1>1, <1>5, <2>1, <2>2, <2>3, MensagemFica
<1>11. SemRedis'
  BY <1>1, <1>2 DEF SemRedis
<1> QED
  BY <1>4, <1>5, <1>6, <1>8, <1>9, <1>10, <1>11 DEF ContatoInv

\* SET NX: the cooldown of a message that no other request has.
LEMMA EsfriarConserva ==
    ASSUME ContatoInv, Junta, NEW r \in Pedidos, F!Esfriar(r)
    PROVE  ContatoInv'
<1> DEFINE k == F!Chave(envio[r])
<1>1. /\ envio[r].passo = "cooldown" /\ comRedis /\ comRedis' = comRedis /\ gravadas' = gravadas
      /\ parou' = parou /\ perdida' = perdida
  BY DEF F!Esfriar
<1>2. EnvioCoerente(r) /\ ~Conta(r) /\ envio[r].c \in Cpfs /\ envio[r].t \in Mensagens
  BY <1>1 DEF ContatoInv, EnvioCoerente, Conta
<1>3. k = Cooldown(envio[r].c, envio[r].t) /\ k \in F!Chaves /\ k \notin ChavesDeLimite
  BY <1>1, <1>2, ChavesDoPedido, ChavesDiferem DEF ChavesDeLimite, F!Janelas
<1>4. CASE F!Recusar(r) /\ conta' = conta /\ prazo' = prazo
  BY <1>1, <1>2, <1>4, LivreEUmEnvio, SoAnda DEF F!Recusar, F!Ir
<1>5. CASE /\ conta[k] = 0 /\ conta' = [conta EXCEPT ![k] = 1] /\ prazo' = prazo \cup {k} /\ F!Seguir(r)
  <2>1. PICK q \in Envio :
          /\ envio' = [envio EXCEPT ![r] = q] /\ q.total = 0 /\ q.passo = "gravar" /\ q # F!Livre
          /\ q.c = envio[r].c /\ q.t = envio[r].t
    BY <1>1, <1>5, Seguinte DEF F!Depois
  <2> HIDE DEF k
  <2>2. /\ envio' \in [Pedidos -> Envio] /\ envio'[r] = q
        /\ \A s \in Pedidos \ {r} : envio'[s] = envio[s]
        /\ \A s \in Pedidos : EnvioCoerente(s)'
    <3>1. ~(q.total > 0) /\ q.passo # "livre" /\ q.c \in Cpfs /\ q.t \in Mensagens
      BY <1>2, <2>1
    <3> QED
      BY <1>1, <2>1, <3>1, UmAnda
  <2>3. juntos' \in BOOLEAN /\ (~juntos' => ~juntos) /\ Sozinho'
    BY <1>1, JuntaSozinho
  <2>4. conta \in [F!Chaves -> Nat] /\ prazo \subseteq {h \in F!Chaves : conta[h] > 0}
    BY DEF ContatoInv, F!TypeOK
  <2>5. /\ conta' \in [F!Chaves -> Nat] /\ conta'[k] = 1 /\ \A h \in F!Chaves \ {k} : conta'[h] = conta[h]
        /\ prazo' \subseteq {h \in F!Chaves : conta'[h] > 0}
    BY <1>3, <1>5, <2>4
  <2>6. F!TypeOK'
    BY <1>1, <2>2, <2>3, <2>5 DEF ContatoInv, F!TypeOK, Envio
  <2>7. (\A s \in Pedidos : ContadorSeu(s)') /\ \A h \in F!Chaves : ChaveCede(h)'
    <3>1. \A s \in Pedidos : (Conta(s)' <=> Conta(s)) /\ (Conta(s) => envio'[s] = envio[s])
      BY <1>2, <2>1, <2>2 DEF Conta
    <3>2. \A h \in ChavesDeLimite : h \in F!Chaves /\ h # k
      BY <1>3 DEF ChavesDeLimite, F!Chaves
    <3>3. \A h \in ChavesDeLimite : conta'[h] = conta[h] /\ (h \in prazo' <=> h \in prazo)
      BY <1>5, <2>5, <3>2
    <3>4. prazo \subseteq prazo' /\ parou \subseteq parou' /\ \A h \in F!Chaves : conta'[h] = conta[h] \/ h \in prazo'
      BY <1>1, <1>5, <2>5
    <3> QED
      BY <3>1, <3>3, <3>4, ContadorFica
  <2>8. \A c \in Cpfs, t \in Mensagens : MensagemCoerente(c, t)'
    <3> TAKE c \in Cpfs, t \in Mensagens
    <3>1. MensagemCoerente(c, t) /\ F!NoCooldown(c, t)' = F!NoCooldown(c, t) /\ Cooldown(c, t)' = Cooldown(c, t)
      BY <1>1 DEF ContatoInv, F!NoCooldown, Cooldown
    <3>2. CASE c = envio[r].c /\ t = envio[r].t
      <4>1. k = Cooldown(c, t) /\ conta[Cooldown(c, t)] = 0 /\ conta'[Cooldown(c, t)] = 1
        BY <1>3, <1>5, <2>5, <3>2
      <4>2. F!NoCooldown(c, t) = {} /\ \A s \in Pedidos : ~Gravando(s, c, t)
        BY <1>1, <3>1, <4>1 DEF MensagemCoerente
      <4>3. \A s \in Pedidos : Gravando(s, c, t)' <=> s = r
        BY <2>1, <2>2, <3>2, <4>2 DEF Gravando
      <4> QED
        BY <3>1, <4>1, <4>2, <4>3 DEF MensagemCoerente
    <3>3. CASE ~(c = envio[r].c /\ t = envio[r].t)
      <4>1. Cooldown(c, t) \in F!Chaves /\ Cooldown(c, t) # k
        BY <1>3, <3>3, ChavesDiferem DEF F!Chaves, Cooldown
      <4>2. conta'[Cooldown(c, t)] = conta[Cooldown(c, t)]
        BY <2>5, <4>1
      <4>3. \A s \in Pedidos : Gravando(s, c, t)' <=> Gravando(s, c, t)
        BY <1>1, <2>1, <2>2, <3>3 DEF Gravando
      <4> QED
        BY <1>1, <2>3, <3>1, <4>2, <4>3 DEF MensagemCoerente
    <3> QED
      BY <3>2, <3>3
  <2>9. SemRedis'
    BY <1>1 DEF SemRedis
  <2> QED
    BY <2>2, <2>3, <2>6, <2>7, <2>8, <2>9 DEF ContatoInv
<1> QED
  BY <1>4, <1>5 DEF F!Esfriar, F!Nx, F!redis

\* A step without Redis after which the request is saving, or has saved: alone, there is
\* nobody else, and the rows of the cooldown are those it has counted.
LEMMA SemRedisFica ==
    ASSUME ContatoInv, ~comRedis,
           UNCHANGED <<comRedis, conta, prazo, parou, perdida>>,
           envio' \in [Pedidos -> Envio],
           \A s \in Pedidos : EnvioCoerente(s)',
           juntos' \in BOOLEAN, Sozinho', gravadas' \in Seq(F!Linha),
           \A c \in Cpfs, t \in Mensagens : ~juntos' =>
               /\ \A i, j \in F!NoCooldown(c, t)' : i = j
               /\ \A s \in Pedidos : Gravando(s, c, t)' => F!NoCooldown(c, t)' = {}
    PROVE  ContatoInv'
<1>1. /\ comRedis' = comRedis /\ conta' = conta /\ prazo' = prazo /\ parou' = parou /\ perdida' = perdida
  OBVIOUS
<1>2. /\ prazo = {} /\ \A k \in F!Chaves : conta[k] = 0
  BY DEF ContatoInv, SemRedis
<1>3. F!TypeOK'
  BY <1>1 DEF ContatoInv, F!TypeOK, Envio
<1>4. \A s \in Pedidos : ~Conta(s)'
  BY <1>1 DEF Conta, EnvioCoerente
<1>5. (\A s \in Pedidos : ContadorSeu(s)') /\ \A k \in F!Chaves : ChaveCede(k)'
  BY <1>1, <1>2, <1>4 DEF ContadorSeu, ChaveCede
<1>6. \A c \in Cpfs, t \in Mensagens : MensagemCoerente(c, t)'
  <2> TAKE c \in Cpfs, t \in Mensagens
  <2>1. ~(conta'[Cooldown(c, t)] > 0)
    BY <1>1, <1>2 DEF Cooldown, F!Chaves
  <2>2. Cooldown(c, t)' = Cooldown(c, t)
    BY DEF Cooldown
  <2> QED
    BY <1>1, <2>1, <2>2 DEF MensagemCoerente
<1>7. SemRedis'
  BY <1>1, <1>2 DEF SemRedis
<1> QED
  BY <1>3, <1>5, <1>6, <1>7 DEF ContatoInv

LEMMA MesmaContagem == \A S : F!Cardinality(S) = Cardinality(S)
BY Zenon DEF F!Cardinality, Cardinality

\* Positions of a sequence are finitely many.
LEMMA PosicoesFinitas ==
    ASSUME NEW s, s \in Seq(F!Linha), NEW P, P \subseteq DOMAIN s
    PROVE  IsFiniteSet(P) /\ Cardinality(P) \in Nat
<1>1. Len(s) \in Nat /\ DOMAIN s = 1 .. Len(s)
  OBVIOUS
<1>2. IsFiniteSet(1 .. Len(s))
  BY <1>1, FS_Interval
<1>3. IsFiniteSet(P)
  BY <1>1, <1>2, FS_Subset
<1> QED
  BY <1>3, FS_CardinalityType

LEMMA LerLinhasConserva ==
    ASSUME ContatoInv, Junta, NEW r \in Pedidos, F!LerLinhas(r)
    PROVE  ContatoInv'
<1>1. /\ envio[r].passo \in F!Janelas /\ ~comRedis
      /\ UNCHANGED <<comRedis, conta, prazo, gravadas, parou, perdida>>
  BY DEF F!LerLinhas, F!redis
<1>2. EnvioCoerente(r) /\ ~Conta(r) /\ envio[r].c \in Cpfs /\ envio[r].t \in Mensagens
  BY <1>1 DEF ContatoInv, EnvioCoerente, Conta, F!Janelas
<1>3. CASE F!Recusar(r)
  <2>1. envio[r].passo # "gravar"
    BY <1>1 DEF F!Janelas
  <2> QED
    BY <1>1, <1>2, <1>3, <2>1, LivreEUmEnvio, SoAnda DEF F!Recusar, F!Ir
<1>4. CASE F!Seguir(r) /\ envio[r].passo \in {"ip", "cpf"}
  <2>1. F!Depois(envio[r].passo) \in {"cpf", "cooldown"}
    BY <1>4 DEF F!Depois
  <2>2. PICK q \in Envio :
              /\ envio' = [envio EXCEPT ![r] = q]
              /\ q.total = 0 /\ q.passo = F!Depois(envio[r].passo) /\ q # F!Livre
              /\ q.c \in Cpfs /\ q.t \in Mensagens
    BY <1>4, Seguinte
  <2>3. q.passo \notin {"gravar", "livre"} /\ envio[r].passo # "gravar"
    BY <1>4, <2>1, <2>2
  <2> QED
    BY <1>1, <1>2, <2>2, <2>3, SoAnda
<1>5. CASE /\ F!Seguir(r) /\ envio[r].passo = "cooldown"
           /\ ~(Cardinality(F!NaJanela(envio[r])) >= 1)
  <2>1. PICK q \in Envio :
          /\ envio' = [envio EXCEPT ![r] = q] /\ q.total = 0 /\ q.passo = "gravar" /\ q # F!Livre
          /\ q.c = envio[r].c /\ q.t = envio[r].t
    BY <1>5, Seguinte DEF F!Depois
  <2>2. /\ envio' \in [Pedidos -> Envio] /\ envio'[r] = q
        /\ \A s \in Pedidos \ {r} : envio'[s] = envio[s]
        /\ \A s \in Pedidos : EnvioCoerente(s)'
    <3>1. ~(q.total > 0) /\ q.passo # "livre" /\ q.c \in Cpfs /\ q.t \in Mensagens
      BY <1>2, <2>1
    <3> QED
      BY <1>1, <2>1, <3>1, UmAnda
  <2>3. /\ juntos' \in BOOLEAN /\ (~juntos' => ~juntos) /\ Sozinho'
        /\ ~juntos' => \A s, o \in Pedidos : envio'[s] # F!Livre /\ envio'[o] # F!Livre => s = o
    BY <1>1, JuntaSozinho
  <2>4. gravadas \in Seq(F!Linha)
    BY DEF ContatoInv, F!TypeOK
  <2>5. F!NaJanela(envio[r]) = {}
    <3>1. F!NaJanela(envio[r]) \subseteq DOMAIN gravadas
      BY DEF F!NaJanela
    <3>2. IsFiniteSet(F!NaJanela(envio[r])) /\ Cardinality(F!NaJanela(envio[r])) \in Nat
      BY <2>4, <3>1, PosicoesFinitas
    <3>3. Cardinality(F!NaJanela(envio[r])) = 0
      BY <1>5, <3>2
    <3> QED
      BY <3>2, <3>3, FS_EmptySet
  <2>6. F!NoCooldown(envio[r].c, envio[r].t) = {}
    BY <1>5, <2>5 DEF F!NaJanela, F!NoCooldown
  <2>7. ASSUME NEW c \in Cpfs, NEW t \in Mensagens, ~juntos'
        PROVE  /\ \A i, j \in F!NoCooldown(c, t)' : i = j
               /\ \A s \in Pedidos : Gravando(s, c, t)' => F!NoCooldown(c, t)' = {}
    <3>1. MensagemCoerente(c, t) /\ F!NoCooldown(c, t)' = F!NoCooldown(c, t)
      BY <1>1 DEF ContatoInv, F!NoCooldown
    <3>2. ASSUME NEW s \in Pedidos, Gravando(s, c, t)' PROVE F!NoCooldown(c, t) = {}
      <4>1. CASE s = r
        BY <2>1, <2>2, <2>6, <3>2, <4>1 DEF Gravando
      <4>2. CASE s # r
        BY <2>2, <2>3, <2>7, <3>1, <3>2, <4>2 DEF Gravando, MensagemCoerente
      <4> QED
        BY <4>1, <4>2
    <3> QED
      BY <2>3, <2>7, <3>1, <3>2 DEF MensagemCoerente
  <2>8. gravadas' \in Seq(F!Linha)
    BY <1>1, <2>4
  <2> QED
    BY <1>1, <2>2, <2>3, <2>7, <2>8, SemRedisFica
<1>6. F!Seguir(r) => envio[r].passo \in {"ip", "cpf"} \/ ~(Cardinality(F!NaJanela(envio[r])) >= 1)
  <2>1. F!Seguir(r) => ~F!Recusar(r)
    <3>1. ASSUME F!Seguir(r), F!Recusar(r) PROVE FALSE
      <4>1. PICK q \in Envio : envio' = [envio EXCEPT ![r] = q] /\ q # F!Livre
        BY <1>1, <3>1, Seguinte DEF F!Janelas
      <4>2. envio' = [envio EXCEPT ![r] = F!Livre] /\ envio \in [Pedidos -> Envio]
        BY <3>1 DEF F!Recusar, F!Ir, ContatoInv
      <4> QED
        BY <4>1, <4>2
    <3> QED
      BY <3>1
  <2> QED
    BY <1>1, <2>1, MesmaContagem DEF F!LerLinhas, F!Janelas
<1>7. F!Recusar(r) \/ F!Seguir(r)
  BY DEF F!LerLinhas
<1> QED
  BY <1>1, <1>3, <1>4, <1>5, <1>6, <1>7 DEF F!Janelas

\* The message is saved: one more row in its cooldown, and no other row moves.
LEMMA GravarConserva ==
    ASSUME ContatoInv, Junta, NEW r \in Pedidos, F!Gravar(r)
    PROVE  ContatoInv'
<1> DEFINE m == [c |-> envio[r].c, t |-> envio[r].t, janelas |-> F!Janelas]
<1>1. /\ envio[r].passo = "gravar" /\ gravadas' = Append(gravadas, m)
      /\ envio' = [envio EXCEPT ![r] = F!Livre]
      /\ UNCHANGED <<comRedis, conta, prazo, parou, perdida>>
  BY DEF F!Gravar, F!Ir, F!redis
<1>2. EnvioCoerente(r) /\ ~Conta(r) /\ envio[r].c \in Cpfs /\ envio[r].t \in Mensagens
  BY <1>1 DEF ContatoInv, EnvioCoerente, Conta
<1>3. /\ envio' \in [Pedidos -> Envio] /\ envio'[r] = F!Livre
      /\ \A s \in Pedidos \ {r} : envio'[s] = envio[s]
      /\ \A s \in Pedidos : EnvioCoerente(s)'
  <2>1. ~(F!Livre.total > 0)
    BY LivreEUmEnvio
  <2> QED
    BY <1>1, <2>1, LivreEUmEnvio, UmAnda
<1>4. /\ juntos' \in BOOLEAN /\ (~juntos' => ~juntos) /\ Sozinho'
  BY <1>1, JuntaSozinho
<1>5. gravadas \in Seq(F!Linha) /\ m \in F!Linha
  BY <1>2 DEF ContatoInv, F!TypeOK, F!Linha
<1>6. m.c = envio[r].c /\ m.t = envio[r].t /\ "cooldown" \in m.janelas
  BY DEF F!Janelas
<1> HIDE DEF m
<1>7. /\ gravadas' \in Seq(F!Linha) /\ DOMAIN gravadas' = DOMAIN gravadas \cup {Len(gravadas) + 1}
      /\ gravadas'[Len(gravadas) + 1] = m /\ \A i \in DOMAIN gravadas : gravadas'[i] = gravadas[i]
  BY <1>1, <1>5
<1>8. ASSUME NEW c \in Cpfs, NEW t \in Mensagens
      PROVE  F!NoCooldown(c, t)' = IF c = envio[r].c /\ t = envio[r].t
                                   THEN F!NoCooldown(c, t) \cup {Len(gravadas) + 1} ELSE F!NoCooldown(c, t)
  BY <1>6, <1>7 DEF F!NoCooldown
<1>9. \A s \in Pedidos, c \in Cpfs, t \in Mensagens :
          Gravando(s, c, t)' <=> s # r /\ Gravando(s, c, t)
  BY <1>3, LivreEUmEnvio DEF Gravando
<1>10. ASSUME NEW c \in Cpfs, NEW t \in Mensagens, ~juntos'
       PROVE  /\ \A i, j \in F!NoCooldown(c, t)' : i = j
              /\ \A s \in Pedidos : Gravando(s, c, t)' => F!NoCooldown(c, t)' = {}
  <2>1. MensagemCoerente(c, t)
    BY DEF ContatoInv
  <2>2. CASE c = envio[r].c /\ t = envio[r].t
    <3>1. Gravando(r, c, t)
      BY <1>1, <2>2 DEF Gravando
    <3>2. F!NoCooldown(c, t)' = {Len(gravadas) + 1}
      BY <1>4, <1>8, <1>10, <2>1, <2>2, <3>1 DEF MensagemCoerente
    <3>3. \A s \in Pedidos : ~Gravando(s, c, t)'
      <4>1. comRedis => \A s \in Pedidos : Gravando(s, c, t) => s = r
        BY <2>1, <3>1 DEF MensagemCoerente
      <4>2. ~comRedis => \A s \in Pedidos : Gravando(s, c, t) => s = r
        <5>1. Sozinho /\ ~juntos /\ envio[r] # F!Livre
          BY <1>1, <1>4, <1>10, LivreEUmEnvio DEF ContatoInv
        <5> QED
          BY <5>1, LivreEUmEnvio DEF Sozinho, F!EmVoo, F!Livre, Gravando
      <4> QED
        BY <1>9, <4>1, <4>2
    <3> QED
      BY <3>2, <3>3
  <2>3. CASE ~(c = envio[r].c /\ t = envio[r].t)
    <3>1. F!NoCooldown(c, t)' = F!NoCooldown(c, t)
      BY <1>8, <2>3
    <3> QED
      BY <1>4, <1>9, <1>10, <2>1, <3>1 DEF MensagemCoerente
  <2> QED
    BY <2>2, <2>3
<1>11. CASE ~comRedis
  BY <1>1, <1>3, <1>4, <1>7, <1>10, <1>11, SemRedisFica
<1>12. CASE comRedis
  <2>1. /\ comRedis' = comRedis /\ conta' = conta /\ prazo' = prazo /\ parou' = parou /\ perdida' = perdida
    BY <1>1
  <2>2. F!TypeOK'
    BY <1>3, <1>4, <1>7, <2>1 DEF ContatoInv, F!TypeOK, Envio
  <2>3. (\A s \in Pedidos : ContadorSeu(s)') /\ \A k \in F!Chaves : ChaveCede(k)'
    <3>1. \A s \in Pedidos : (Conta(s)' <=> Conta(s)) /\ (Conta(s) => envio'[s] = envio[s])
      BY <1>2, <1>3, LivreEUmEnvio DEF Conta
    <3> QED
      BY <2>1, <3>1, ContadorFica
  <2>4. ASSUME NEW c \in Cpfs, NEW t \in Mensagens PROVE MensagemCoerente(c, t)'
    <3>1. MensagemCoerente(c, t) /\ Cooldown(c, t)' = Cooldown(c, t)
      BY DEF ContatoInv, Cooldown
    <3>2. F!NoCooldown(c, t)' # {} => conta[Cooldown(c, t)] > 0
      <4>1. CASE c = envio[r].c /\ t = envio[r].t
        BY <1>1, <1>12, <3>1, <4>1 DEF MensagemCoerente, Gravando
      <4>2. CASE ~(c = envio[r].c /\ t = envio[r].t)
        BY <1>8, <1>12, <3>1, <4>2 DEF MensagemCoerente
      <4> QED
        BY <4>1, <4>2
    <3>3. conta[Cooldown(c, t)] > 0 =>
              \/ F!NoCooldown(c, t)' # {} \/ <<c, t>> \in perdida
              \/ \E s \in Pedidos : Gravando(s, c, t)'
      <4>1. CASE c = envio[r].c /\ t = envio[r].t
        BY <1>8, <4>1
      <4>2. CASE ~(c = envio[r].c /\ t = envio[r].t)
        <5>1. ~Gravando(r, c, t)
          BY <4>2 DEF Gravando
        <5> QED
          BY <1>8, <1>9, <3>1, <4>2, <5>1 DEF MensagemCoerente
      <4> QED
        BY <4>1, <4>2
    <3>4. comRedis => \A s, o \in Pedidos : Gravando(s, c, t)' /\ Gravando(o, c, t)' => s = o
      BY <1>9, <3>1 DEF MensagemCoerente
    <3>5. comRedis => \A s \in Pedidos : Gravando(s, c, t)' => conta[Cooldown(c, t)] > 0
      BY <1>9, <3>1 DEF MensagemCoerente
    <3> QED
      BY <1>10, <2>1, <3>1, <3>2, <3>3, <3>4, <3>5 DEF MensagemCoerente
  <2>5. SemRedis'
    BY <1>12, <2>1 DEF SemRedis
  <2> QED
    BY <1>3, <1>4, <2>2, <2>3, <2>4, <2>5 DEF ContatoInv
<1> QED
  BY <1>11, <1>12

\* A request stops where it is: its counter is left without a TTL, or its cooldown without a
\* message, and both are remembered.
LEMMA PararConserva ==
    ASSUME ContatoInv, Junta, NEW r \in Pedidos, F!Parar(r)
    PROVE  ContatoInv'
<1> DEFINE k == F!Chave(envio[r])
           c0 == envio[r].c
           t0 == envio[r].t
<1>1. /\ envio' = [envio EXCEPT ![r] = F!Livre] /\ envio[r] # F!Livre
      /\ comRedis' = comRedis /\ conta' = conta /\ prazo' = prazo /\ gravadas' = gravadas
      /\ parou' = IF Conta(r) THEN parou \cup {k} ELSE parou
      /\ perdida' = IF envio[r].passo = "gravar" /\ comRedis THEN perdida \cup {<<c0, t0>>} ELSE perdida
  BY DEF F!Parar, F!Deixar, F!Ir, F!redis, Conta
<1>2. EnvioCoerente(r) /\ c0 \in Cpfs /\ t0 \in Mensagens /\ (Conta(r) => k \in F!Chaves)
  <2>1. EnvioCoerente(r)
    BY DEF ContatoInv
  <2> QED
    BY <1>1, <2>1, ChavesDoPedido DEF EnvioCoerente, Conta, F!Janelas
<1>3. /\ envio' \in [Pedidos -> Envio] /\ envio'[r] = F!Livre
      /\ \A s \in Pedidos \ {r} : envio'[s] = envio[s]
      /\ \A s \in Pedidos : EnvioCoerente(s)'
  <2>1. ~(F!Livre.total > 0)
    BY LivreEUmEnvio
  <2> QED
    BY <1>1, <2>1, LivreEUmEnvio, UmAnda
<1>4. /\ juntos' \in BOOLEAN /\ (~juntos' => ~juntos) /\ Sozinho'
  BY <1>1, JuntaSozinho
<1> HIDE DEF k, c0, t0
<1>5. F!TypeOK'
  <2>1. parou \subseteq F!Chaves /\ perdida \subseteq Cpfs \X Mensagens
    BY DEF ContatoInv, F!TypeOK
  <2>2. <<c0, t0>> \in Cpfs \X Mensagens
    BY <1>2
  <2>3. parou' \subseteq F!Chaves /\ perdida' \subseteq Cpfs \X Mensagens
    BY <1>1, <1>2, <2>1, <2>2
  <2> QED
    BY <1>1, <1>3, <1>4, <2>3 DEF ContatoInv, F!TypeOK, Envio
<1>6. /\ \A s \in Pedidos \ {r} : (Conta(s)' <=> Conta(s)) /\ F!Chave(envio[s])' = F!Chave(envio[s])
      /\ ~Conta(r)'
  <2>1. \A s \in Pedidos \ {r} : (Conta(s)' <=> Conta(s)) /\ F!Chave(envio[s])' = F!Chave(envio[s])
    BY <1>3 DEF Conta, F!Chave
  <2>2. ~Conta(r)'
    BY <1>3, LivreEUmEnvio DEF Conta
  <2> QED
    BY <2>1, <2>2
<1>7. \A s \in Pedidos : ContadorSeu(s)'
  <2> TAKE s \in Pedidos
  <2>1. ContadorSeu(s)
    BY DEF ContatoInv
  <2> QED
    BY <1>1, <1>6, <2>1 DEF ContadorSeu
<1>8. \A h \in F!Chaves : ChaveCede(h)'
  <2> TAKE h \in F!Chaves
  <2>1. ChaveCede(h)
    BY DEF ContatoInv
  <2>2. CASE Conta(r) /\ h = k
    BY <1>1, <2>2 DEF ChaveCede
  <2>3. CASE ~(Conta(r) /\ h = k)
    BY <1>1, <1>6, <2>1, <2>3 DEF ChaveCede, k
  <2> QED
    BY <2>2, <2>3
<1>9. \A s \in Pedidos, c \in Cpfs, t \in Mensagens :
          Gravando(s, c, t)' <=> s # r /\ Gravando(s, c, t)
  BY <1>3, LivreEUmEnvio DEF Gravando
<1>10. ASSUME NEW c \in Cpfs, NEW t \in Mensagens PROVE MensagemCoerente(c, t)'
  <2>1. MensagemCoerente(c, t) /\ F!NoCooldown(c, t)' = F!NoCooldown(c, t) /\ Cooldown(c, t)' = Cooldown(c, t)
    BY <1>1 DEF ContatoInv, F!NoCooldown, Cooldown
  <2>2. conta[Cooldown(c, t)] > 0 => comRedis
    BY DEF ContatoInv, SemRedis, Cooldown, F!Chaves
  <2>3. conta[Cooldown(c, t)] > 0 =>
            \/ F!NoCooldown(c, t) # {} \/ <<c, t>> \in perdida'
            \/ \E s \in Pedidos : Gravando(s, c, t)'
    <3>1. CASE Gravando(r, c, t)
      BY <1>1, <2>2, <3>1 DEF Gravando, c0, t0
    <3>2. CASE ~Gravando(r, c, t)
      BY <1>1, <1>9, <2>1, <3>2 DEF MensagemCoerente
    <3> QED
      BY <3>1, <3>2
  <2>4. /\ ~juntos' => \A i, j \in F!NoCooldown(c, t) : i = j
        /\ ~juntos' => \A s \in Pedidos : Gravando(s, c, t)' => F!NoCooldown(c, t) = {}
        /\ comRedis => \A s, o \in Pedidos : Gravando(s, c, t)' /\ Gravando(o, c, t)' => s = o
        /\ comRedis => \A s \in Pedidos : Gravando(s, c, t)' => conta[Cooldown(c, t)] > 0
        /\ comRedis /\ F!NoCooldown(c, t) # {} => conta[Cooldown(c, t)] > 0
    BY <1>4, <1>9, <2>1 DEF MensagemCoerente
  <2> QED
    BY <1>1, <2>1, <2>3, <2>4 DEF MensagemCoerente
<1>11. SemRedis'
  BY <1>1 DEF ContatoInv, SemRedis
<1> QED
  BY <1>3, <1>4, <1>5, <1>7, <1>8, <1>10, <1>11 DEF ContatoInv

\* INCR was done and its answer lost: the counter that it made is remembered.
LEMMA PerderContaConserva ==
    ASSUME ContatoInv, Junta, NEW r \in Pedidos, F!PerderResposta(r), envio[r].passo \in {"ip", "cpf"}
    PROVE  ContatoInv'
<1> DEFINE k == F!Chave(envio[r])
<1>1. /\ envio' = [envio EXCEPT ![r] = F!Livre] /\ comRedis /\ envio[r].total = 0
      /\ comRedis' = comRedis /\ gravadas' = gravadas /\ perdida' = perdida /\ prazo' = prazo
      /\ conta' = [conta EXCEPT ![k] = conta[k] + 1]
      /\ parou' = IF conta[k] + 1 = 1 THEN parou \cup {k} ELSE parou
  BY DEF F!PerderResposta, F!Deixar, F!Ir
<1>2. ~Conta(r) /\ k \in ChavesDeLimite /\ k \in F!Chaves
  <2>1. EnvioCoerente(r)
    BY DEF ContatoInv
  <2> QED
    BY <1>1, <2>1, ChavesDoPedido DEF EnvioCoerente, Conta, F!Janelas, ChavesDeLimite
<1>3. /\ envio' \in [Pedidos -> Envio] /\ envio'[r] = F!Livre
      /\ \A s \in Pedidos \ {r} : envio'[s] = envio[s]
      /\ \A s \in Pedidos : EnvioCoerente(s)'
  <2>1. ~(F!Livre.total > 0)
    BY LivreEUmEnvio
  <2> QED
    BY <1>1, <2>1, LivreEUmEnvio, UmAnda
<1>4. /\ juntos' \in BOOLEAN /\ (~juntos' => ~juntos) /\ Sozinho'
  BY <1>1, JuntaSozinho
<1> HIDE DEF k
<1>5. conta \in [F!Chaves -> Nat] /\ prazo \subseteq {h \in F!Chaves : conta[h] > 0} /\ parou \subseteq F!Chaves
  BY DEF ContatoInv, F!TypeOK
<1>6. /\ conta' \in [F!Chaves -> Nat] /\ conta'[k] = conta[k] + 1
      /\ \A h \in F!Chaves \ {k} : conta'[h] = conta[h]
      /\ prazo' \subseteq {h \in F!Chaves : conta'[h] > 0} /\ parou' \subseteq F!Chaves
  BY <1>1, <1>2, <1>5
<1>7. F!TypeOK'
  BY <1>1, <1>3, <1>4, <1>6 DEF ContatoInv, F!TypeOK, Envio
<1>8. \A s \in Pedidos : (Conta(s)' <=> Conta(s)) /\ (Conta(s) => s # r /\ F!Chave(envio[s])' = F!Chave(envio[s]))
  <2>1. \A s \in Pedidos \ {r} : (Conta(s)' <=> Conta(s)) /\ F!Chave(envio[s])' = F!Chave(envio[s])
    BY <1>3 DEF Conta, F!Chave
  <2>2. ~Conta(r)'
    BY <1>3, LivreEUmEnvio DEF Conta
  <2> QED
    BY <1>2, <2>1, <2>2
<1>9. \A s \in Pedidos : ContadorSeu(s)'
  <2> TAKE s \in Pedidos
  <2>1. ContadorSeu(s) /\ EnvioCoerente(s)
    BY DEF ContatoInv
  <2>2. Conta(s) => F!Chave(envio[s]) \in F!Chaves
    BY <2>1, ChavesDoPedido DEF Conta, EnvioCoerente, F!Janelas
  <2>3. Conta(s) => conta'[F!Chave(envio[s])] > 0
    BY <1>5, <1>6, <2>1, <2>2 DEF ContadorSeu
  <2> QED
    BY <1>1, <1>8, <2>1, <2>3 DEF ContadorSeu
<1>10. \A h \in F!Chaves : ChaveCede(h)'
  <2> TAKE h \in F!Chaves
  <2>1. ChaveCede(h)
    BY DEF ContatoInv
  <2>2. CASE h = k /\ conta[k] = 0
    BY <1>1, <2>2 DEF ChaveCede
  <2>3. CASE ~(h = k /\ conta[k] = 0)
    <3>1. conta'[h] > 0 => conta[h] > 0
      BY <1>5, <1>6, <2>3
    <3> QED
      BY <1>1, <1>8, <2>1, <3>1 DEF ChaveCede
  <2> QED
    BY <2>2, <2>3
<1>11. \A c \in Cpfs, t \in Mensagens : MensagemCoerente(c, t)'
  <2>1. envio[r].passo # "gravar"
    OBVIOUS
  <2>2. \A s \in Pedidos, c \in Cpfs, t \in Mensagens : Gravando(s, c, t)' <=> Gravando(s, c, t)
    BY <1>3, <2>1, LivreEUmEnvio DEF Gravando
  <2>3. \A c \in Cpfs, t \in Mensagens : conta'[Cooldown(c, t)] = conta[Cooldown(c, t)]
    <3>1. \A c \in Cpfs, t \in Mensagens : Cooldown(c, t) \in F!Chaves
      BY DEF Cooldown, F!Chaves
    <3>2. \A c \in Cpfs, t \in Mensagens : Cooldown(c, t) # k
      BY <1>2, ChavesDiferem DEF ChavesDeLimite
    <3> QED
      BY <1>6, <3>1, <3>2
  <2>4. perdida \subseteq perdida'
    BY <1>1
  <2> QED
    BY <1>1, <1>4, <2>2, <2>3, <2>4, MensagemFica
<1>12. SemRedis'
  BY <1>1 DEF SemRedis
<1> QED
  BY <1>3, <1>4, <1>7, <1>9, <1>10, <1>11, <1>12 DEF ContatoInv

\* SET NX was done and its answer lost: the message is remembered as one that holds back its
\* own retry.
LEMMA PerderCooldownConserva ==
    ASSUME ContatoInv, Junta, NEW r \in Pedidos, F!PerderResposta(r), envio[r].passo = "cooldown"
    PROVE  ContatoInv'
<1> DEFINE k == F!Chave(envio[r])
           c0 == envio[r].c
           t0 == envio[r].t
<1>1. /\ envio' = [envio EXCEPT ![r] = F!Livre] /\ comRedis /\ conta[k] = 0
      /\ comRedis' = comRedis /\ gravadas' = gravadas /\ parou' = parou
      /\ conta' = [conta EXCEPT ![k] = 1] /\ prazo' = prazo \cup {k}
      /\ perdida' = perdida \cup {<<c0, t0>>}
  BY DEF F!PerderResposta, F!Deixar, F!Ir, F!Nx
<1>2. ~Conta(r) /\ k = Cooldown(c0, t0) /\ k \in F!Chaves /\ k \notin ChavesDeLimite
      /\ c0 \in Cpfs /\ t0 \in Mensagens
  <2>1. EnvioCoerente(r)
    BY DEF ContatoInv
  <2> QED
    BY <2>1, ChavesDoPedido, ChavesDiferem DEF EnvioCoerente, Conta, F!Janelas, ChavesDeLimite
<1>3. /\ envio' \in [Pedidos -> Envio] /\ envio'[r] = F!Livre
      /\ \A s \in Pedidos \ {r} : envio'[s] = envio[s]
      /\ \A s \in Pedidos : EnvioCoerente(s)'
  <2>1. ~(F!Livre.total > 0)
    BY LivreEUmEnvio
  <2> QED
    BY <1>1, <2>1, LivreEUmEnvio, UmAnda
<1>4. /\ juntos' \in BOOLEAN /\ (~juntos' => ~juntos) /\ Sozinho'
  BY <1>1, JuntaSozinho
<1>5. \A s \in Pedidos, c \in Cpfs, t \in Mensagens : Gravando(s, c, t)' <=> Gravando(s, c, t)
  BY <1>3, LivreEUmEnvio DEF Gravando
<1> HIDE DEF k, c0, t0
<1>6. /\ conta \in [F!Chaves -> Nat] /\ prazo \subseteq {h \in F!Chaves : conta[h] > 0}
      /\ perdida \subseteq Cpfs \X Mensagens
  BY DEF ContatoInv, F!TypeOK
<1>7. /\ conta' \in [F!Chaves -> Nat] /\ conta'[k] = 1 /\ \A h \in F!Chaves \ {k} : conta'[h] = conta[h]
      /\ prazo' \subseteq {h \in F!Chaves : conta'[h] > 0}
  BY <1>1, <1>2, <1>6
<1>8. F!TypeOK'
  <2>1. <<c0, t0>> \in Cpfs \X Mensagens
    BY <1>2
  <2>2. perdida' \subseteq Cpfs \X Mensagens
    BY <1>1, <1>6, <2>1
  <2> QED
    BY <1>1, <1>3, <1>4, <1>7, <2>2 DEF ContatoInv, F!TypeOK, Envio
<1>9. (\A s \in Pedidos : ContadorSeu(s)') /\ \A h \in F!Chaves : ChaveCede(h)'
  <2>1. \A s \in Pedidos : (Conta(s)' <=> Conta(s)) /\ (Conta(s) => envio'[s] = envio[s])
    BY <1>2, <1>3, LivreEUmEnvio DEF Conta
  <2>2. \A h \in ChavesDeLimite : h \in F!Chaves /\ h # k
    BY <1>2 DEF ChavesDeLimite, F!Chaves
  <2>3. \A h \in ChavesDeLimite : conta'[h] = conta[h] /\ (h \in prazo' <=> h \in prazo)
    BY <1>1, <1>7, <2>2
  <2>4. prazo \subseteq prazo' /\ parou \subseteq parou' /\ \A h \in F!Chaves : conta'[h] = conta[h] \/ h \in prazo'
    BY <1>1, <1>7
  <2> QED
    BY <2>1, <2>3, <2>4, ContadorFica
<1>10. ASSUME NEW c \in Cpfs, NEW t \in Mensagens PROVE MensagemCoerente(c, t)'
  <2>1. MensagemCoerente(c, t) /\ F!NoCooldown(c, t)' = F!NoCooldown(c, t) /\ Cooldown(c, t)' = Cooldown(c, t)
    BY <1>1 DEF ContatoInv, F!NoCooldown, Cooldown
  <2>2. Cooldown(c, t) \in F!Chaves
    BY DEF F!Chaves, Cooldown
  <2>3. CASE c = c0 /\ t = t0
    <3>1. conta[Cooldown(c, t)] = 0 /\ conta'[Cooldown(c, t)] = 1 /\ <<c, t>> \in perdida'
      BY <1>1, <1>2, <1>7, <2>3
    <3> QED
      BY <1>1, <1>4, <1>5, <2>1, <3>1 DEF MensagemCoerente
  <2>4. CASE ~(c = c0 /\ t = t0)
    <3>1. conta'[Cooldown(c, t)] = conta[Cooldown(c, t)]
      BY <1>2, <1>7, <2>2, <2>4, ChavesDiferem
    <3> QED
      BY <1>1, <1>4, <1>5, <2>1, <3>1 DEF MensagemCoerente
  <2> QED
    BY <2>3, <2>4
<1>11. SemRedis'
  BY <1>1 DEF SemRedis
<1> QED
  BY <1>3, <1>4, <1>8, <1>9, <1>10, <1>11 DEF ContatoInv

\* A key goes: of a limit, its counter; of a cooldown, also the window of its message.
LEMMA ExpirarConserva ==
    ASSUME ContatoInv, Junta, NEW k \in F!Chaves, F!Expirar(k)
    PROVE  ContatoInv'
<1>1. /\ k \in prazo /\ conta' = [conta EXCEPT ![k] = 0] /\ prazo' = prazo \ {k}
      /\ comRedis' = comRedis /\ envio' = envio /\ parou' = parou
  BY DEF F!Expirar
<1>2. /\ conta \in [F!Chaves -> Nat] /\ prazo \subseteq {h \in F!Chaves : conta[h] > 0}
      /\ gravadas \in Seq(F!Linha) /\ perdida \subseteq Cpfs \X Mensagens /\ comRedis
  BY <1>1 DEF ContatoInv, F!TypeOK, SemRedis
<1>3. /\ conta' \in [F!Chaves -> Nat] /\ conta'[k] = 0 /\ \A h \in F!Chaves \ {k} : conta'[h] = conta[h]
      /\ prazo' \subseteq {h \in F!Chaves : conta'[h] > 0}
  BY <1>1, <1>2
<1>4. /\ juntos' \in BOOLEAN /\ (~juntos' => ~juntos) /\ Sozinho'
  BY <1>1, JuntaSozinho
<1>5. \A s \in Pedidos : ContadorSeu(s)'
  <2> TAKE s \in Pedidos
  <2>1. ContadorSeu(s) /\ EnvioCoerente(s)
    BY DEF ContatoInv
  <2>2. Conta(s) => F!Chave(envio[s]) \in F!Chaves
    BY <2>1, ChavesDoPedido DEF Conta, EnvioCoerente, F!Janelas
  <2>3. (Conta(s)' <=> Conta(s)) /\ \A o \in Pedidos : (Conta(o)' <=> Conta(o)) /\ F!Chave(envio[o])' = F!Chave(envio[o])
    BY <1>1 DEF Conta, F!Chave
  <2> QED
    BY <1>1, <1>3, <2>1, <2>2, <2>3 DEF ContadorSeu
<1>6. \A h \in F!Chaves : ChaveCede(h)'
  <2> TAKE h \in F!Chaves
  <2>1. ChaveCede(h)
    BY DEF ContatoInv
  <2>2. \A o \in Pedidos : (Conta(o)' <=> Conta(o)) /\ F!Chave(envio[o])' = F!Chave(envio[o])
    BY <1>1 DEF Conta, F!Chave
  <2> QED
    BY <1>1, <1>3, <2>1, <2>2 DEF ChaveCede
<1>7. \A s \in Pedidos, c \in Cpfs, t \in Mensagens : Gravando(s, c, t)' <=> Gravando(s, c, t)
  BY <1>1 DEF Gravando
<1>8. \A c \in Cpfs, t \in Mensagens : Cooldown(c, t) \in F!Chaves
  BY DEF F!Chaves, Cooldown
<1>9. SemRedis'
  BY <1>1, <1>2 DEF SemRedis
<1>10. CASE k[1] # "cooldown"
  <2>1. perdida' = perdida /\ gravadas' = gravadas
    <3>1. perdida' = perdida /\ gravadas' = [i \in DOMAIN gravadas |-> gravadas[i]]
      BY <1>10 DEF F!Expirar
    <3> QED
      BY <1>2, <3>1
  <2>2. \A c \in Cpfs, t \in Mensagens : conta'[Cooldown(c, t)] = conta[Cooldown(c, t)]
    <3>1. \A c \in Cpfs, t \in Mensagens : Cooldown(c, t)[1] = "cooldown"
      BY DEF Cooldown
    <3> QED
      BY <1>3, <1>8, <1>10, <3>1
  <2>3. F!TypeOK'
    BY <1>1, <1>3, <1>4, <2>1 DEF ContatoInv, F!TypeOK, Envio
  <2>4. \A c \in Cpfs, t \in Mensagens : MensagemCoerente(c, t)'
    BY <1>1, <1>4, <1>7, <2>1, <2>2, MensagemFica
  <2>5. envio' \in [Pedidos -> Envio] /\ \A r \in Pedidos : EnvioCoerente(r)'
    BY <1>1 DEF ContatoInv, EnvioCoerente, F!Livre
  <2> QED
    BY <1>4, <1>5, <1>6, <1>9, <2>3, <2>4, <2>5 DEF ContatoInv
<1>11. CASE k[1] = "cooldown"
  <2>1. PICK c0 \in Cpfs, t0 \in Mensagens : k = Cooldown(c0, t0)
    BY <1>11 DEF F!Chaves, Cooldown
  <2>2. k[2] = c0 /\ k[3] = t0
    BY <2>1 DEF Cooldown
  <2>3. /\ \A r \in Pedidos : envio[r].passo = "gravar" => <<envio[r].c, envio[r].t>> # <<c0, t0>>
        /\ perdida' = perdida \ {<<c0, t0>>}
        /\ gravadas' = [i \in DOMAIN gravadas |->
               IF gravadas[i].c = c0 /\ gravadas[i].t = t0
               THEN [gravadas[i] EXCEPT !.janelas = gravadas[i].janelas \ {"cooldown"}] ELSE gravadas[i]]
    BY <1>11, <2>2 DEF F!Expirar
  <2>4. DOMAIN gravadas' = DOMAIN gravadas /\ gravadas' \in Seq(F!Linha)
    <3>1. \A i \in DOMAIN gravadas : gravadas[i] \in F!Linha
      BY <1>2
    <3>2. \A i \in DOMAIN gravadas : [gravadas[i] EXCEPT !.janelas = gravadas[i].janelas \ {"cooldown"}] \in F!Linha
      BY <3>1 DEF F!Linha
    <3>3. Len(gravadas) \in Nat /\ DOMAIN gravadas = 1 .. Len(gravadas)
      BY <1>2
    <3>4. gravadas' \in [1 .. Len(gravadas) -> F!Linha]
      BY <2>3, <3>1, <3>2, <3>3
    <3> QED
      BY <2>3, <3>3, <3>4
  <2>5. ASSUME NEW c \in Cpfs, NEW t \in Mensagens
        PROVE  F!NoCooldown(c, t)' = IF c = c0 /\ t = t0 THEN {} ELSE F!NoCooldown(c, t)
    <3>1. \A i \in DOMAIN gravadas : gravadas[i] \in F!Linha
      BY <1>2
    <3>2. \A i \in DOMAIN gravadas :
              /\ gravadas'[i].c = gravadas[i].c /\ gravadas'[i].t = gravadas[i].t
              /\ "cooldown" \in gravadas'[i].janelas
                   <=> "cooldown" \in gravadas[i].janelas /\ ~(gravadas[i].c = c0 /\ gravadas[i].t = t0)
      BY <2>3, <3>1 DEF F!Linha
    <3> QED
      BY <2>4, <3>2 DEF F!NoCooldown
  <2>6. F!TypeOK'
    <3>1. perdida' \subseteq Cpfs \X Mensagens
      BY <1>2, <2>3
    <3> QED
      BY <1>1, <1>3, <1>4, <2>4, <3>1 DEF ContatoInv, F!TypeOK, Envio
  <2>7. ASSUME NEW c \in Cpfs, NEW t \in Mensagens PROVE MensagemCoerente(c, t)'
    <3>1. MensagemCoerente(c, t) /\ Cooldown(c, t)' = Cooldown(c, t)
      BY DEF ContatoInv, Cooldown
    <3>2. CASE c = c0 /\ t = t0
      <4>1. conta'[Cooldown(c, t)] = 0 /\ F!NoCooldown(c, t)' = {}
        BY <1>3, <2>1, <2>5, <3>2
      <4>2. \A r \in Pedidos : ~Gravando(r, c, t)
        BY <2>3, <3>2 DEF Gravando
      <4> QED
        BY <1>7, <3>1, <4>1, <4>2 DEF MensagemCoerente
    <3>3. CASE ~(c = c0 /\ t = t0)
      <4>1. conta'[Cooldown(c, t)] = conta[Cooldown(c, t)]
        BY <1>3, <1>8, <2>1, <3>3, ChavesDiferem
      <4>2. F!NoCooldown(c, t)' = F!NoCooldown(c, t) /\ (<<c, t>> \in perdida' <=> <<c, t>> \in perdida)
        BY <2>3, <2>5, <3>3
      <4> QED
        BY <1>1, <1>4, <1>7, <3>1, <4>1, <4>2 DEF MensagemCoerente
    <3> QED
      BY <3>2, <3>3
  <2>8. envio' \in [Pedidos -> Envio] /\ \A r \in Pedidos : EnvioCoerente(r)'
    BY <1>1 DEF ContatoInv, EnvioCoerente, F!Livre
  <2> QED
    BY <1>4, <1>5, <1>6, <1>9, <2>6, <2>7, <2>8 DEF ContatoInv
<1> QED
  BY <1>10, <1>11

\* Without Redis a row leaves a window, and none enters one.
LEMMA EnvelhecerConserva ==
    ASSUME ContatoInv, Junta, NEW i \in DOMAIN gravadas, F!Envelhecer(i)
    PROVE  ContatoInv'
<1>1. /\ ~comRedis /\ UNCHANGED <<comRedis, conta, prazo, parou, perdida>> /\ envio' = envio
  BY DEF F!Envelhecer, F!redis
<1>2. PICK w \in F!Janelas : gravadas' = [gravadas EXCEPT ![i].janelas = gravadas[i].janelas \ {w}]
  BY DEF F!Envelhecer, F!Janelas
<1>3. gravadas \in Seq(F!Linha) /\ gravadas[i] \in F!Linha
  BY DEF ContatoInv, F!TypeOK
<1>4. [gravadas[i] EXCEPT !.janelas = gravadas[i].janelas \ {w}] \in F!Linha
  BY <1>3 DEF F!Linha
<1>5. gravadas' \in Seq(F!Linha) /\ DOMAIN gravadas' = DOMAIN gravadas
  <2>1. Len(gravadas) \in Nat /\ DOMAIN gravadas = 1 .. Len(gravadas) /\ gravadas \in [1 .. Len(gravadas) -> F!Linha]
    BY <1>3
  <2>2. gravadas' \in [1 .. Len(gravadas) -> F!Linha]
    BY <1>2, <1>4, <2>1
  <2> QED
    BY <2>1, <2>2
<1>6. \A j \in DOMAIN gravadas : /\ gravadas'[j].c = gravadas[j].c /\ gravadas'[j].t = gravadas[j].t
                                 /\ gravadas'[j].janelas \subseteq gravadas[j].janelas
  <2> TAKE j \in DOMAIN gravadas
  <2>1. gravadas[j] \in F!Linha
    BY <1>3
  <2> QED
    BY <1>2, <1>3, <2>1 DEF F!Linha
<1>7. \A c \in Cpfs, t \in Mensagens : F!NoCooldown(c, t)' \subseteq F!NoCooldown(c, t)
  BY <1>5, <1>6 DEF F!NoCooldown
<1>8. juntos' \in BOOLEAN /\ (~juntos' => ~juntos) /\ Sozinho'
  BY <1>1, JuntaSozinho
<1>9. envio' \in [Pedidos -> Envio] /\ \A r \in Pedidos : EnvioCoerente(r)'
  BY <1>1 DEF ContatoInv, EnvioCoerente, F!Livre
<1>10. ASSUME NEW c \in Cpfs, NEW t \in Mensagens, ~juntos'
       PROVE  /\ \A a, b \in F!NoCooldown(c, t)' : a = b
              /\ \A s \in Pedidos : Gravando(s, c, t)' => F!NoCooldown(c, t)' = {}
  <2>1. MensagemCoerente(c, t)
    BY DEF ContatoInv
  <2> QED
    BY <1>1, <1>7, <1>8, <1>10, <2>1 DEF MensagemCoerente, Gravando
<1> QED
  BY <1>1, <1>5, <1>8, <1>9, <1>10, SemRedisFica

LEMMA ContatoPasso == ContatoInv /\ [F!Next]_contato => ContatoInv'
<1> SUFFICES ASSUME ContatoInv, [F!Next]_contato PROVE ContatoInv'
  OBVIOUS
<1>1. CASE UNCHANGED contato
  <2>1. /\ comRedis' = comRedis /\ conta' = conta /\ prazo' = prazo /\ envio' = envio
        /\ gravadas' = gravadas /\ parou' = parou /\ perdida' = perdida /\ juntos' = juntos
    BY <1>1 DEF contato
  <2>2. F!TypeOK' /\ envio' \in [Pedidos -> Envio]
    BY <2>1 DEF ContatoInv, F!TypeOK, Envio
  <2>3. \A r \in Pedidos : EnvioCoerente(r)'
    BY <2>1 DEF ContatoInv, EnvioCoerente, F!Livre
  <2>4. (\A s \in Pedidos : ContadorSeu(s)') /\ \A h \in F!Chaves : ChaveCede(h)'
    BY <2>1, ContadorFica DEF Conta
  <2>5. \A c \in Cpfs, t \in Mensagens : MensagemCoerente(c, t)'
    BY <2>1, MensagemFica DEF Gravando
  <2>6. SemRedis' /\ Sozinho'
    BY <2>1 DEF ContatoInv, SemRedis, Sozinho, F!EmVoo, F!Livre
  <2> QED
    BY <2>2, <2>3, <2>4, <2>5, <2>6 DEF ContatoInv
<1>2. CASE F!Next
  <2>1. Junta
    BY <1>2 DEF F!Next, Junta
  <2>2. CASE \E r \in Pedidos :
               \/ \E c \in Cpfs, t \in Mensagens : F!Chegar(r, c, t)
               \/ F!Guardar(r) \/ F!GuardarNaMemoria(r) \/ F!Incrementar(r) \/ F!Conferir(r)
    BY <2>1, <2>2, ChegarConserva, GuardarConserva, GuardarNaMemoriaConserva, IncrementarConserva,
       ConferirConserva
  <2>3. CASE \E r \in Pedidos : F!Esfriar(r) \/ F!LerLinhas(r) \/ F!Gravar(r) \/ F!Parar(r)
    BY <2>1, <2>3, EsfriarConserva, LerLinhasConserva, GravarConserva, PararConserva
  <2>4. CASE \E r \in Pedidos : F!PerderResposta(r)
    <3>1. PICK r \in Pedidos : F!PerderResposta(r)
      BY <2>4
    <3>2. envio[r].passo \in {"ip", "cpf"} \/ envio[r].passo = "cooldown"
      BY <3>1 DEF F!PerderResposta, F!Janelas
    <3> QED
      BY <2>1, <3>1, <3>2, PerderContaConserva, PerderCooldownConserva
  <2>5. CASE (\E k \in F!Chaves : F!Expirar(k)) \/ \E i \in DOMAIN gravadas : F!Envelhecer(i)
    BY <2>1, <2>5, ExpirarConserva, EnvelhecerConserva
  <2> QED
    BY <1>2, <2>2, <2>3, <2>4, <2>5 DEF F!Next, F!Passo
<1> QED
  BY <1>1, <1>2

\* What the form promises, from the invariant.
LEMMA ContatoPromete == ContatoInv => ContatoConfere
<1> SUFFICES ASSUME ContatoInv PROVE ContatoConfere
  OBVIOUS
<1>1. F!MensagemUmaVez
  <2> SUFFICES ASSUME ~juntos, NEW c \in Cpfs, NEW t \in Mensagens
               PROVE  F!Cardinality(F!NoCooldown(c, t)) <= 1
    BY DEF F!MensagemUmaVez
  <2>1. \A i, j \in F!NoCooldown(c, t) : i = j
    BY DEF ContatoInv, MensagemCoerente
  <2>2. CASE F!NoCooldown(c, t) = {}
    BY <2>2, FS_EmptySet, MesmaContagem
  <2>3. CASE F!NoCooldown(c, t) # {}
    <3>1. PICK i : F!NoCooldown(c, t) = {i}
      BY <2>1, <2>3
    <3>2. Cardinality({i}) = 1
      BY FS_Singleton, Zenon
    <3>3. F!Cardinality(F!NoCooldown(c, t)) = 1
      BY <3>1, <3>2, MesmaContagem
    <3> QED
      BY <3>3
  <2> QED
    BY <2>2, <2>3
<1>2. F!RecusaTemMensagem
  BY DEF ContatoInv, F!RecusaTemMensagem, MensagemCoerente, Cooldown, Gravando
<1>3. F!LimiteCede
  BY DEF ContatoInv, F!LimiteCede, ChaveCede, Conta
<1>4. F!TypeOK
  BY DEF ContatoInv
<1> QED
  BY <1>1, <1>2, <1>3, <1>4 DEF ContatoConfere

-----------------------------------------------------------------------------
(* The job, the panel and the payload of a sale (Reconciliacao). *)
SituacaoPos == {"nenhuma", "PENDENTE", "APROVADO", "CANCELADO"}
LinhaPos == [status : SituacaoPos, paga : BOOLEAN, carga : R!Carga]
Lidas == UNION {[S -> R!Carga] : S \in SUBSET VendasPos}
Agente == [passo : {"ocioso", "visitar", "confirmar", "sucesso", "falha"}, v : VendasPos \cup {0},
           lido : Lidas]

\* A payload of v, here or in somebody's hands, names the provider unless an approval replaced it.
Nomeia(v, carga) == vendaPos[v].status # "nenhuma" /\ (carga.prov \/ v \in trocada)
AgenteServe(x) ==
    /\ x.passo # "ocioso" => x.v \in DOMAIN x.lido
    /\ \A v \in DOMAIN x.lido : Nomeia(v, x.lido[v])
CancelamentoServe ==
    cancelamento # Nulo => /\ cancelamento \in [v : VendasPos, carga : R!Carga]
                           /\ Nomeia(cancelamento.v, cancelamento.carga)
LinhaPosServe(v) ==
    /\ vendaPos[v].status # "nenhuma" => Nomeia(v, vendaPos[v].carga)
    /\ vendaPos[v].status = "CANCELADO" => vendaPos[v].carga.motivo \/ v \in cruzada
\* Who is about to write on a sale that was cancelled crossed the cancellation.
VaiEscrever(x) ==
    x.passo \in {"sucesso", "falha"} /\ vendaPos[x.v].status = "CANCELADO" => x.v \in cruzada

JobInv ==
    /\ vendaPos \in [VendasPos -> LinhaPos]
    /\ velha \subseteq VendasPos /\ trocada \subseteq VendasPos /\ cruzada \subseteq VendasPos
    /\ turno \in Jobs \cup {Nulo}
    /\ agente \in [R!Agentes -> Agente]
    /\ CancelamentoServe
    /\ \A v \in VendasPos : LinhaPosServe(v)
    /\ \A a \in R!Agentes : AgenteServe(agente[a]) /\ VaiEscrever(agente[a])

\* Rows and histories only advance, and a cancellation is crossed by who is about to write.
Adianta ==
    /\ vendaPos' \in [VendasPos -> LinhaPos]
    /\ \A v \in VendasPos : vendaPos[v].status # "nenhuma" => vendaPos'[v].status # "nenhuma"
    /\ velha' \subseteq VendasPos
    /\ trocada \subseteq trocada' /\ trocada' \subseteq VendasPos
    /\ cruzada \subseteq cruzada' /\ cruzada' \subseteq VendasPos
    /\ \A a \in R!Agentes :
          /\ agente[a].passo \in {"sucesso", "falha"}
          /\ vendaPos'[agente[a].v].status = "CANCELADO"
          /\ vendaPos[agente[a].v].status # "CANCELADO"
          => agente[a].v \in cruzada'

\* A set of naturals has a least one, and a set of sales a last one.
LEMMA MenorDeTodos ==
    ASSUME NEW T, T \subseteq Nat, T # {}
    PROVE  \E t \in T : \A y \in T : ~(y < t)
<1>1. PICK M : /\ IsWellFoundedOn(M, Nat)
               /\ \A x, y \in Nat : x < y => <<x, y>> \in M
  <2>1. \A x, y \in Nat : x < y => <<x, y>> \in OpToRel(<, Nat)
    BY DEF OpToRel
  <2> QED
    BY <2>1, NatLessThanWellFounded, Zenon
<1>2. PICK t \in T : \A y \in T : ~ (<<y, t>> \in M)
  <2>1. IsWellFoundedOn(M, Nat)
    BY <1>1
  <2> QED
    BY <2>1, WFMin, ZenonT(30)
<1> QED
  BY <1>1, <1>2

LEMMA UltimaDoLote ==
    ASSUME NEW D, D \subseteq VendasPos, D # {}
    PROVE  \E x \in D : \A y \in D : y <= x
<1> DEFINE n == Cardinality(VendasPos)
           T == {n - x : x \in D}
<1>1. n \in Nat /\ D \subseteq 1 .. n
  BY FS_CardinalityType, ReconciliacaoAssumption
<1> HIDE DEF n
<1>2. \A x \in D : n - x \in Nat
  BY <1>1
<1>3. T \subseteq Nat /\ T # {}
  BY <1>2
<1>4. PICK t \in T : \A y \in T : ~(y < t)
  BY <1>3, MenorDeTodos
<1>5. PICK x \in D : t = n - x
  BY <1>4
<1>6. ASSUME NEW y \in D PROVE y <= x
  <2>1. n - y \in T
    OBVIOUS
  <2>2. ~(n - y < n - x)
    BY <2>1, <1>4, <1>5
  <2> QED
    BY <2>2, <1>1
<1> QED
  BY <1>5, <1>6

LEMMA ParadoEAgente ==
    R!Parado \in Agente /\ R!Parado.passo = "ocioso" /\ DOMAIN R!Parado.lido = {}
<1>1. \A f : f = << >> => f \in [{} -> R!Carga] /\ DOMAIN f = {}
  OBVIOUS
<1>2. << >> \in Lidas /\ DOMAIN << >> = {}
  BY <1>1, Zenon DEF Lidas
<1>3. R!Parado.lido = << >>
  BY DEF R!Parado
<1> QED
  BY <1>2, <1>3 DEF R!Parado, Agente

\* What a run or a look reads, and what is left of it.
LEMMA SeguinteServe ==
    ASSUME NEW lido \in Lidas
    PROVE  /\ R!Seguinte(lido) \in Agente /\ R!Seguinte(lido).passo \in {"ocioso", "visitar"}
           /\ R!Seguinte(lido).passo # "ocioso" => R!Seguinte(lido).v \in DOMAIN R!Seguinte(lido).lido
           /\ \A v \in DOMAIN R!Seguinte(lido).lido :
                 v \in DOMAIN lido /\ R!Seguinte(lido).lido[v] = lido[v]
<1>1. DOMAIN lido \subseteq VendasPos
  BY DEF Lidas
<1>2. CASE DOMAIN lido = {}
  <2>1. R!Seguinte(lido) = R!Parado
    BY <1>2 DEF R!Seguinte
  <2> QED
    BY <2>1, ParadoEAgente
<1>3. CASE DOMAIN lido # {}
  <2> DEFINE u == CHOOSE v \in DOMAIN lido : \A w \in DOMAIN lido : w <= v
  <2>1. u \in DOMAIN lido
    BY <1>1, <1>3, UltimaDoLote
  <2>2. R!Seguinte(lido) = [passo |-> "visitar", lido |-> lido, v |-> u]
    BY <1>3 DEF R!Seguinte
  <2> HIDE DEF u
  <2> QED
    BY <2>1, <2>2, <1>1 DEF Agente
<1> QED
  BY <1>2, <1>3

\* What somebody carries stays good while rows advance.
LEMMA QuemFicaServe ==
    ASSUME JobInv, Adianta, NEW a \in R!Agentes, agente'[a] = agente[a]
    PROVE  AgenteServe(agente[a])' /\ VaiEscrever(agente[a])'
<1>1. agente[a] \in Agente /\ AgenteServe(agente[a]) /\ VaiEscrever(agente[a])
  BY DEF JobInv
<1>2. DOMAIN agente[a].lido \subseteq VendasPos
  BY <1>1 DEF Agente, Lidas
<1>3. AgenteServe(agente[a])'
  BY <1>1, <1>2 DEF AgenteServe, Nomeia, Adianta
<1>4. VaiEscrever(agente[a])'
  BY <1>1 DEF VaiEscrever, Adianta
<1> QED
  BY <1>3, <1>4

LEMMA LinhaFicaServe ==
    ASSUME JobInv, Adianta, NEW v \in VendasPos, vendaPos'[v] = vendaPos[v]
    PROVE  LinhaPosServe(v)'
<1>1. LinhaPosServe(v)
  BY DEF JobInv
<1> QED
  BY <1>1 DEF LinhaPosServe, Nomeia, Adianta

LEMMA CancelamentoFicaServe ==
    ASSUME JobInv, Adianta, UNCHANGED cancelamento
    PROVE  CancelamentoServe'
<1>1. CancelamentoServe
  BY DEF JobInv
<1>2. CASE cancelamento = Nulo
  BY <1>2 DEF CancelamentoServe
<1>3. CASE cancelamento # Nulo
  <2>1. cancelamento.v \in VendasPos
    BY <1>1, <1>3 DEF CancelamentoServe
  <2> QED
    BY <1>1, <1>3, <2>1 DEF CancelamentoServe, Nomeia, Adianta
<1> QED
  BY <1>2, <1>3

\* A step conserves the invariant when what it changed serves.
LEMMA PassoServe ==
    ASSUME JobInv, Adianta, turno' \in Jobs \cup {Nulo}, agente' \in [R!Agentes -> Agente],
           CancelamentoServe',
           \A v \in VendasPos : vendaPos'[v] # vendaPos[v] => LinhaPosServe(v)',
           \A a \in R!Agentes :
               agente'[a] # agente[a] => AgenteServe(agente[a])' /\ VaiEscrever(agente[a])'
    PROVE  JobInv'
<1>1. \A v \in VendasPos : LinhaPosServe(v)'
  BY LinhaFicaServe
<1>2. \A a \in R!Agentes : AgenteServe(agente[a])' /\ VaiEscrever(agente[a])'
  BY QuemFicaServe
<1>3. vendaPos' \in [VendasPos -> LinhaPos] /\ velha' \subseteq VendasPos
      /\ trocada' \subseteq VendasPos /\ cruzada' \subseteq VendasPos
  BY DEF Adianta
<1> QED
  BY <1>1, <1>2, <1>3 DEF JobInv, R!Agentes

LEMMA AgenteDaVez ==
    ASSUME JobInv, NEW a \in R!Agentes
    PROVE  /\ agente[a] \in Agente /\ AgenteServe(agente[a]) /\ VaiEscrever(agente[a])
           /\ DOMAIN agente[a].lido \subseteq VendasPos
           /\ agente[a].passo # "ocioso" =>
                 agente[a].v \in VendasPos /\ agente[a].lido[agente[a].v] \in R!Carga
<1>1. agente[a] \in Agente /\ AgenteServe(agente[a]) /\ VaiEscrever(agente[a])
  BY DEF JobInv
<1>2. PICK S \in SUBSET VendasPos : agente[a].lido \in [S -> R!Carga]
  BY <1>1 DEF Agente, Lidas
<1> QED
  BY <1>1, <1>2 DEF AgenteServe

LEMMA LinhaPosTipada ==
    ASSUME JobInv, NEW v \in VendasPos
    PROVE  /\ vendaPos[v].status \in SituacaoPos /\ vendaPos[v].paga \in BOOLEAN
           /\ vendaPos[v].carga \in R!Carga /\ LinhaPosServe(v)
BY DEF JobInv, LinhaPos

\* One row is rewritten, or none.
LEMMA ReescreverServe ==
    ASSUME JobInv, NEW v \in VendasPos, vendaPos' \in [VendasPos -> LinhaPos],
           \A w \in VendasPos \ {v} : vendaPos'[w] = vendaPos[w],
           velha' \subseteq VendasPos,
           trocada \subseteq trocada', trocada' \subseteq VendasPos,
           cruzada \subseteq cruzada', cruzada' \subseteq VendasPos,
           vendaPos[v].status # "nenhuma" => vendaPos'[v].status # "nenhuma",
           vendaPos'[v].status # "nenhuma" => vendaPos'[v].carga.prov \/ v \in trocada',
           vendaPos'[v].status = "CANCELADO" => vendaPos'[v].carga.motivo \/ v \in cruzada',
           vendaPos'[v].status = "CANCELADO" /\ vendaPos[v].status # "CANCELADO"
               => \A a \in R!Agentes : agente[a].v = v /\ agente[a].passo \in {"sucesso", "falha"}
                                       => v \in cruzada'
    PROVE  Adianta /\ \A w \in VendasPos : vendaPos'[w] # vendaPos[w] => LinhaPosServe(w)'
<1>1. \A w \in VendasPos : vendaPos[w].status # "nenhuma" => vendaPos'[w].status # "nenhuma"
  OBVIOUS
<1>2. ASSUME NEW a \in R!Agentes, agente[a].passo \in {"sucesso", "falha"},
             vendaPos'[agente[a].v].status = "CANCELADO", vendaPos[agente[a].v].status # "CANCELADO"
      PROVE  agente[a].v \in cruzada'
  <2>1. agente[a].v \in VendasPos
    BY <1>2, AgenteDaVez
  <2> QED
    BY <2>1, <1>2
<1>3. Adianta
  BY <1>1, <1>2 DEF Adianta
<1>4. LinhaPosServe(v)'
  BY DEF LinhaPosServe, Nomeia
<1> QED
  BY <1>3, <1>4

LEMMA AprovadaServe ==
    ASSUME JobInv, NEW v \in VendasPos, vendaPos[v].status = "PENDENTE", NEW comCarga \in BOOLEAN,
           R!Aprovada(v, comCarga), UNCHANGED <<velha, cruzada>>
    PROVE  /\ Adianta /\ \A w \in VendasPos : vendaPos'[w] # vendaPos[w] => LinhaPosServe(w)'
           /\ vendaPos'[v].status = "APROVADO"
<1> DEFINE c == IF comCarga THEN R!Vazia ELSE vendaPos[v].carga
           r == [status |-> "APROVADO", paga |-> vendaPos[v].paga, carga |-> c]
<1>1. /\ vendaPos \in [VendasPos -> LinhaPos]
      /\ velha \subseteq VendasPos /\ trocada \subseteq VendasPos /\ cruzada \subseteq VendasPos
  BY DEF JobInv
<1>2. /\ vendaPos[v] \in LinhaPos /\ vendaPos[v].paga \in BOOLEAN
      /\ vendaPos[v].carga \in R!Carga /\ LinhaPosServe(v)
  BY <1>1, LinhaPosTipada
<1>3. R!Vazia \in R!Carga
  BY DEF R!Vazia, R!Carga
<1>4. r \in LinhaPos /\ r.status = "APROVADO" /\ r.carga = c
  BY <1>2, <1>3 DEF LinhaPos, SituacaoPos
<1>5. vendaPos' = [vendaPos EXCEPT ![v] = r]
  <2> DEFINE m == [vendaPos EXCEPT ![v] = [vendaPos[v] EXCEPT !.status = "APROVADO"]]
  <2>1. vendaPos' = [m EXCEPT ![v] = [m[v] EXCEPT !.carga = c]]
    BY DEF R!Aprovada
  <2>2. m[v] = [vendaPos[v] EXCEPT !.status = "APROVADO"]
    BY <1>1
  <2>3. [m[v] EXCEPT !.carga = c] = r
    BY <1>2, <2>2 DEF LinhaPos
  <2>4. DOMAIN m = VendasPos /\ \A w \in VendasPos \ {v} : m[w] = vendaPos[w]
    BY <1>1
  <2> HIDE DEF m, r, c
  <2> QED
    BY <1>1, <2>1, <2>3, <2>4
<1>6. trocada' = IF comCarga THEN trocada \cup {v} ELSE trocada
  BY DEF R!Aprovada
<1>7. c.prov \/ v \in trocada'
  BY <1>2, <1>6 DEF LinhaPosServe, Nomeia
<1> HIDE DEF r, c
<1>8. vendaPos'[v] = r /\ vendaPos' \in [VendasPos -> LinhaPos]
      /\ \A w \in VendasPos \ {v} : vendaPos'[w] = vendaPos[w]
  BY <1>1, <1>4, <1>5
<1>9. trocada \subseteq trocada' /\ trocada' \subseteq VendasPos
  BY <1>1, <1>6
<1> QED
  BY <1>1, <1>4, <1>7, <1>8, <1>9, ReescreverServe

\* The sales, the gateway, the clock and the approvals.
LEMMA VendasAndam ==
    ASSUME JobInv, NEW v \in VendasPos,
           \/ R!Criar(v) \/ R!Pagar(v) \/ R!Envelhecer(v) \/ R!Esfriar(v)
           \/ \E comCarga \in BOOLEAN : R!Aprovar(v, comCarga)
    PROVE  JobInv'
<1>1. UNCHANGED <<turno, agente, cancelamento, cruzada>>
  BY DEF R!Criar, R!Pagar, R!Envelhecer, R!Esfriar, R!Aprovar, R!historia
<1>2. /\ turno \in Jobs \cup {Nulo} /\ agente \in [R!Agentes -> Agente]
      /\ vendaPos \in [VendasPos -> LinhaPos]
      /\ velha \subseteq VendasPos /\ trocada \subseteq VendasPos /\ cruzada \subseteq VendasPos
  BY DEF JobInv
<1>3. /\ vendaPos[v].status \in SituacaoPos /\ vendaPos[v].paga \in BOOLEAN
      /\ vendaPos[v].carga \in R!Carga /\ LinhaPosServe(v)
  BY LinhaPosTipada
<1>4. Adianta /\ \A w \in VendasPos : vendaPos'[w] # vendaPos[w] => LinhaPosServe(w)'
  <2>1. CASE R!Criar(v)
    <3> DEFINE r == [status |-> "PENDENTE", paga |-> FALSE, carga |-> R!Cobrada]
    <3>1. /\ vendaPos' = [vendaPos EXCEPT ![v] = r] /\ UNCHANGED <<velha, trocada>>
      BY <2>1 DEF R!Criar, R!historia
    <3>2. R!Cobrada \in R!Carga /\ R!Cobrada.prov
      BY DEF R!Cobrada, R!Vazia, R!Carga
    <3>3. r \in LinhaPos /\ r.status = "PENDENTE" /\ r.carga = R!Cobrada
      BY <3>2 DEF LinhaPos, SituacaoPos
    <3> HIDE DEF r
    <3> QED
      BY <1>1, <1>2, <3>1, <3>2, <3>3, ReescreverServe
  <2>2. CASE R!Pagar(v)
    <3> DEFINE r == [vendaPos[v] EXCEPT !.paga = TRUE]
    <3>1. /\ vendaPos' = [vendaPos EXCEPT ![v] = r] /\ UNCHANGED <<velha, trocada>>
          /\ vendaPos[v].status = "PENDENTE"
      BY <2>2, <1>2 DEF R!Pagar, R!Pendentes, R!historia
    <3>2. r \in LinhaPos /\ r.status = "PENDENTE" /\ r.carga = vendaPos[v].carga
      BY <1>2, <3>1 DEF LinhaPos
    <3> HIDE DEF r
    <3>3. r.carga.prov \/ v \in trocada
      BY <1>3, <3>1, <3>2 DEF LinhaPosServe, Nomeia
    <3> QED
      BY <1>1, <1>2, <3>1, <3>2, <3>3, ReescreverServe
  <2>3. CASE R!Envelhecer(v)
    <3>1. UNCHANGED <<vendaPos, trocada>> /\ velha' = velha \cup {v}
      BY <2>3 DEF R!Envelhecer, R!historia
    <3>2. Adianta
      BY <1>1, <1>2, <3>1 DEF Adianta
    <3> QED
      BY <3>1, <3>2
  <2>4. CASE R!Esfriar(v)
    <3> DEFINE c == [vendaPos[v].carga EXCEPT !.falha = "passada"]
               r == [vendaPos[v] EXCEPT !.carga = c]
    <3>1. /\ vendaPos' = [vendaPos EXCEPT ![v].carga.falha = "passada"] /\ UNCHANGED <<velha, trocada>>
          /\ vendaPos[v].carga.falha = "em espera"
      BY <2>4 DEF R!Esfriar, R!historia
    <3>2. c \in R!Carga /\ c.prov = vendaPos[v].carga.prov /\ c.motivo = vendaPos[v].carga.motivo
      BY <1>3 DEF R!Carga
    <3>3. vendaPos' = [vendaPos EXCEPT ![v] = r]
      BY <3>1, <1>2
    <3>4. r \in LinhaPos /\ r.status = vendaPos[v].status /\ r.carga = c
      BY <1>2, <3>2 DEF LinhaPos
    <3> HIDE DEF r, c
    <3>5. vendaPos'[v] = r /\ vendaPos' \in [VendasPos -> LinhaPos]
          /\ \A w \in VendasPos \ {v} : vendaPos'[w] = vendaPos[w]
      BY <1>2, <3>3, <3>4
    <3>6. r.status # "nenhuma" => r.carga.prov \/ v \in trocada
      BY <1>3, <3>2, <3>4 DEF LinhaPosServe, Nomeia
    <3>7. r.status = "CANCELADO" => r.carga.motivo \/ v \in cruzada
      BY <1>3, <3>2, <3>4 DEF LinhaPosServe
    <3> QED
      BY <1>1, <1>2, <3>1, <3>4, <3>5, <3>6, <3>7, ReescreverServe
  <2>5. ASSUME NEW comCarga \in BOOLEAN, R!Aprovar(v, comCarga)
        PROVE  Adianta /\ \A w \in VendasPos : vendaPos'[w] # vendaPos[w] => LinhaPosServe(w)'
    <3>1. vendaPos[v].status = "PENDENTE" /\ R!Aprovada(v, comCarga) /\ UNCHANGED velha
      BY <2>5, <1>2 DEF R!Aprovar, R!Pendentes
    <3> QED
      BY <1>1, <3>1, AprovadaServe
  <2> QED
    BY <2>1, <2>2, <2>3, <2>4, <2>5
<1>5. CancelamentoServe'
  BY <1>1, <1>4, CancelamentoFicaServe
<1> QED
  BY <1>1, <1>2, <1>4, <1>5, PassoServe

\* A cancellation writes what it had read, with its reason; who is about to write crosses it.
LEMMA CancelamentoAnda ==
    ASSUME JobInv, (\E v \in VendasPos : R!IniciarCancelamento(v)) \/ R!Cancelar
    PROVE  JobInv'
<1>1. UNCHANGED <<velha, turno, agente, trocada>>
  BY DEF R!IniciarCancelamento, R!Cancelar, R!historia
<1>2. /\ turno \in Jobs \cup {Nulo} /\ agente \in [R!Agentes -> Agente]
      /\ vendaPos \in [VendasPos -> LinhaPos] /\ CancelamentoServe
      /\ velha \subseteq VendasPos /\ trocada \subseteq VendasPos /\ cruzada \subseteq VendasPos
  BY DEF JobInv
<1>3. CASE \E v \in VendasPos : R!IniciarCancelamento(v)
  <2>1. PICK v \in VendasPos : R!IniciarCancelamento(v)
    BY <1>3
  <2>2. /\ cancelamento' = [v |-> v, carga |-> vendaPos[v].carga]
        /\ vendaPos[v].status # "nenhuma" /\ UNCHANGED <<vendaPos, cruzada>>
    BY <2>1 DEF R!IniciarCancelamento, R!historia
  <2>3. vendaPos[v].carga \in R!Carga /\ LinhaPosServe(v)
    BY LinhaPosTipada
  <2>4. CancelamentoServe'
    BY <1>1, <2>2, <2>3 DEF CancelamentoServe, LinhaPosServe, Nomeia, R!Carga
  <2>5. Adianta
    BY <1>1, <1>2, <2>2 DEF Adianta
  <2> QED
    BY <1>1, <1>2, <2>2, <2>4, <2>5, PassoServe
<1>4. CASE R!Cancelar
  <2> DEFINE v == cancelamento.v
             c == [cancelamento.carga EXCEPT !.motivo = TRUE]
             r == [status |-> "CANCELADO", paga |-> vendaPos[v].paga, carga |-> c]
  <2>1. cancelamento # Nulo /\ cancelamento' = Nulo
    BY <1>4 DEF R!Cancelar
  <2>2. v \in VendasPos /\ cancelamento.carga \in R!Carga /\ Nomeia(v, cancelamento.carga)
    BY <1>2, <2>1 DEF CancelamentoServe
  <2>3. c \in R!Carga /\ c.motivo = TRUE /\ c.prov = cancelamento.carga.prov
    BY <2>2 DEF R!Carga
  <2>4. vendaPos[v] \in LinhaPos /\ vendaPos[v].paga \in BOOLEAN
    BY <1>2, <2>2 DEF LinhaPos
  <2>5. r \in LinhaPos /\ r.status = "CANCELADO" /\ r.carga = c
    BY <2>3, <2>4 DEF LinhaPos, SituacaoPos
  <2>6. vendaPos' = [vendaPos EXCEPT ![v] = r]
    <3> DEFINE m == [vendaPos EXCEPT ![v] = [vendaPos[v] EXCEPT !.status = "CANCELADO"]]
    <3>1. vendaPos' = [m EXCEPT ![v] = [m[v] EXCEPT !.carga = c]]
      BY <1>4 DEF R!Cancelar
    <3>2. m[v] = [vendaPos[v] EXCEPT !.status = "CANCELADO"]
      BY <1>2, <2>2
    <3> HIDE DEF m, c, v
    <3>3. [m[v] EXCEPT !.carga = c] = r
      <4>1. /\ m[v] \in LinhaPos /\ m[v].status = "CANCELADO"
            /\ m[v].paga = vendaPos[v].paga
        BY <2>4, <3>2 DEF LinhaPos, SituacaoPos
      <4> QED
        BY <4>1 DEF LinhaPos
    <3>4. DOMAIN m = VendasPos /\ \A w \in VendasPos \ {v} : m[w] = vendaPos[w]
      BY <1>2 DEF m
    <3> HIDE DEF r
    <3> QED
      BY <1>2, <2>2, <3>1, <3>3, <3>4
  <2>7. cruzada' = IF \E a \in R!Agentes : agente[a].v = v /\ agente[a].passo \in {"sucesso", "falha"}
                   THEN cruzada \cup {v} ELSE cruzada
    BY <1>4 DEF R!Cancelar
  <2> HIDE DEF r, c, v
  <2>8. /\ vendaPos'[v] = r /\ vendaPos' \in [VendasPos -> LinhaPos]
        /\ \A w \in VendasPos \ {v} : vendaPos'[w] = vendaPos[w]
    BY <1>2, <2>2, <2>5, <2>6
  <2>9. /\ cruzada \subseteq cruzada' /\ cruzada' \subseteq VendasPos
        /\ \A a \in R!Agentes : agente[a].v = v /\ agente[a].passo \in {"sucesso", "falha"}
              => v \in cruzada'
    BY <1>2, <2>2, <2>7
  <2>10. c.prov \/ v \in trocada'
    BY <1>1, <2>2, <2>3 DEF Nomeia
  <2>11. Adianta /\ \A w \in VendasPos : vendaPos'[w] # vendaPos[w] => LinhaPosServe(w)'
    BY <1>1, <1>2, <2>2, <2>3, <2>5, <2>8, <2>9, <2>10, ReescreverServe
  <2>12. CancelamentoServe'
    BY <2>1 DEF CancelamentoServe
  <2> QED
    BY <1>1, <1>2, <2>11, <2>12, PassoServe
<1> QED
  BY <1>3, <1>4

\* A run takes its batch, and a look its sale.
LEMMA LerServe ==
    ASSUME JobInv, NEW a \in R!Agentes, NEW vs \in SUBSET R!Pendentes, R!Ler(a, vs),
           turno' \in Jobs \cup {Nulo},
           UNCHANGED <<vendaPos, velha, cancelamento, trocada, cruzada>>
    PROVE  JobInv'
<1> DEFINE lido == [v \in vs |-> vendaPos[v].carga]
<1>1. /\ agente \in [R!Agentes -> Agente] /\ vendaPos \in [VendasPos -> LinhaPos]
      /\ velha \subseteq VendasPos /\ trocada \subseteq VendasPos /\ cruzada \subseteq VendasPos
  BY DEF JobInv
<1>2. vs \subseteq VendasPos /\ \A v \in vs : vendaPos[v].status = "PENDENTE"
  BY DEF R!Pendentes
<1>3. \A v \in vs : vendaPos[v].carga \in R!Carga /\ Nomeia(v, vendaPos[v].carga)
  BY <1>2, LinhaPosTipada DEF LinhaPosServe
<1>4. lido \in [vs -> R!Carga] /\ DOMAIN lido = vs /\ \A v \in vs : lido[v] = vendaPos[v].carga
  BY <1>3
<1>5. agente' = [agente EXCEPT ![a] = R!Seguinte(lido)]
  BY DEF R!Ler
<1> HIDE DEF lido
<1>6. lido \in Lidas
  BY <1>2, <1>4 DEF Lidas
<1> DEFINE x == R!Seguinte(lido)
<1>7. /\ x \in Agente /\ x.passo \in {"ocioso", "visitar"}
      /\ \A v \in DOMAIN x.lido : v \in vs /\ x.lido[v] = vendaPos[v].carga
      /\ x.passo # "ocioso" => x.v \in DOMAIN x.lido
  <2>1. /\ x.passo # "ocioso" => x.v \in DOMAIN x.lido
        /\ x \in Agente /\ x.passo \in {"ocioso", "visitar"}
        /\ \A v \in DOMAIN x.lido : v \in DOMAIN lido /\ x.lido[v] = lido[v]
    BY <1>6, SeguinteServe
  <2> QED
    BY <1>4, <2>1
<1> HIDE DEF x
<1>8. agente' \in [R!Agentes -> Agente] /\ agente'[a] = x
      /\ \A b \in R!Agentes \ {a} : agente'[b] = agente[b]
  BY <1>1, <1>5, <1>7 DEF x
<1>9. Adianta
  BY <1>1 DEF Adianta
<1>10. AgenteServe(agente[a])' /\ VaiEscrever(agente[a])'
  BY <1>2, <1>3, <1>7, <1>8 DEF AgenteServe, VaiEscrever, Nomeia
<1>11. CancelamentoServe'
  BY <1>9, CancelamentoFicaServe
<1> QED
  BY <1>8, <1>9, <1>10, <1>11, PassoServe

\* On to the next of the batch.
LEMMA AvancarServe ==
    ASSUME JobInv, Adianta, NEW a \in R!Agentes, agente[a].passo # "ocioso", R!Avancar(a)
    PROVE  /\ agente' \in [R!Agentes -> Agente] /\ turno' \in Jobs \cup {Nulo}
           /\ \A b \in R!Agentes \ {a} : agente'[b] = agente[b]
           /\ AgenteServe(agente[a])' /\ VaiEscrever(agente[a])'
<1> DEFINE lido == agente[a].lido
           menos == [v \in DOMAIN lido \ {agente[a].v} |-> lido[v]]
           x == R!Seguinte(menos)
<1>1. /\ agente \in [R!Agentes -> Agente] /\ turno \in Jobs \cup {Nulo}
  BY DEF JobInv
<1>2. /\ agente[a] \in Agente /\ AgenteServe(agente[a]) /\ DOMAIN lido \subseteq VendasPos
  BY AgenteDaVez
<1>3. lido \in [DOMAIN lido -> R!Carga]
  BY <1>2 DEF Agente, Lidas
<1>4. /\ menos \in [DOMAIN lido \ {agente[a].v} -> R!Carga]
      /\ DOMAIN menos \subseteq DOMAIN lido /\ \A v \in DOMAIN menos : menos[v] = lido[v]
  BY <1>3
<1>5. menos \in Lidas
  <2> HIDE DEF menos, lido
  <2> QED
    BY <1>2, <1>4 DEF Lidas
<1>6. agente' = [agente EXCEPT ![a] = x] /\ turno' = (IF x = R!Parado /\ turno = a THEN Nulo ELSE turno)
  BY DEF R!Avancar
<1> HIDE DEF menos
<1>7. /\ x \in Agente /\ x.passo \in {"ocioso", "visitar"}
      /\ x.passo # "ocioso" => x.v \in DOMAIN x.lido
      /\ \A v \in DOMAIN x.lido : v \in DOMAIN menos /\ x.lido[v] = menos[v]
  BY <1>5, SeguinteServe
<1> HIDE DEF x
<1>8. /\ agente' \in [R!Agentes -> Agente] /\ agente'[a] = x
      /\ \A b \in R!Agentes \ {a} : agente'[b] = agente[b]
  BY <1>1, <1>6, <1>7
<1>9. \A v \in DOMAIN x.lido : v \in VendasPos /\ v \in DOMAIN lido /\ x.lido[v] = lido[v]
  BY <1>2, <1>4, <1>7
<1>10. AgenteServe(agente[a])'
  BY <1>2, <1>7, <1>8, <1>9 DEF AgenteServe, Nomeia, Adianta
<1>11. VaiEscrever(agente[a])'
  BY <1>7, <1>8 DEF VaiEscrever
<1>12. turno' \in Jobs \cup {Nulo}
  BY <1>1, <1>6
<1> QED
  BY <1>8, <1>10, <1>11, <1>12

\* A step of an agent goes on with the same sale.
LEMMA PassarServe ==
    ASSUME JobInv, Adianta, NEW a \in R!Agentes, agente[a].passo # "ocioso",
           NEW passo \in {"confirmar", "sucesso", "falha"}, R!Passar(a, passo),
           passo # "confirmar" /\ vendaPos'[agente[a].v].status = "CANCELADO"
               => agente[a].v \in cruzada'
    PROVE  /\ agente' \in [R!Agentes -> Agente]
           /\ \A b \in R!Agentes \ {a} : agente'[b] = agente[b]
           /\ AgenteServe(agente[a])' /\ VaiEscrever(agente[a])'
<1> DEFINE x == [agente[a] EXCEPT !.passo = passo]
<1>1. agente \in [R!Agentes -> Agente]
  BY DEF JobInv
<1>2. /\ agente[a] \in Agente /\ AgenteServe(agente[a]) /\ DOMAIN agente[a].lido \subseteq VendasPos
  BY AgenteDaVez
<1>3. agente' = [agente EXCEPT ![a] = x]
  BY <1>1 DEF R!Passar
<1>4. x \in Agente /\ x.passo = passo /\ x.v = agente[a].v /\ x.lido = agente[a].lido
  BY <1>2 DEF Agente
<1> HIDE DEF x
<1>5. /\ agente' \in [R!Agentes -> Agente] /\ agente'[a] = x
      /\ \A b \in R!Agentes \ {a} : agente'[b] = agente[b]
  BY <1>1, <1>3, <1>4
<1>6. AgenteServe(agente[a])'
  BY <1>2, <1>4, <1>5 DEF AgenteServe, Nomeia, Adianta
<1>7. VaiEscrever(agente[a])'
  BY <1>4, <1>5 DEF VaiEscrever
<1> QED
  BY <1>5, <1>6, <1>7

\* The gateway answers, the approval goes through or conflicts, something fails.
LEMMA AgenteAnda ==
    ASSUME JobInv, NEW a \in R!Agentes, R!Consultar(a) \/ R!Confirmar(a) \/ R!Errar(a)
    PROVE  JobInv'
<1>1. agente[a].passo \in {"visitar", "confirmar"} /\ UNCHANGED <<velha, cancelamento>>
  BY DEF R!Consultar, R!Confirmar, R!Errar, R!historia
<1>2. /\ turno \in Jobs \cup {Nulo} /\ vendaPos \in [VendasPos -> LinhaPos]
      /\ velha \subseteq VendasPos /\ trocada \subseteq VendasPos /\ cruzada \subseteq VendasPos
  BY DEF JobInv
<1>3. agente[a].v \in VendasPos
  BY <1>1, AgenteDaVez
<1>4. ASSUME UNCHANGED <<vendaPos, trocada, cruzada>> PROVE Adianta
  BY <1>1, <1>2, <1>4 DEF Adianta
<1>5. ASSUME UNCHANGED <<vendaPos, trocada, cruzada>>, R!Avancar(a) PROVE JobInv'
  <2>1. Adianta /\ CancelamentoServe'
    BY <1>1, <1>4, <1>5, CancelamentoFicaServe
  <2> QED
    BY <1>1, <1>5, <2>1, AvancarServe, PassoServe
<1>6. CASE R!Consultar(a)
  <2>1. UNCHANGED <<vendaPos, trocada, cruzada>>
    BY <1>6 DEF R!Consultar, R!historia
  <2>2. CASE vendaPos[agente[a].v].paga
    <3>1. R!Passar(a, "confirmar") /\ UNCHANGED turno
      BY <1>6, <2>2 DEF R!Consultar
    <3>2. Adianta /\ CancelamentoServe'
      BY <1>1, <1>4, <2>1, CancelamentoFicaServe
    <3> QED
      BY <1>1, <1>2, <2>1, <3>1, <3>2, PassarServe, PassoServe
  <2>3. CASE ~vendaPos[agente[a].v].paga
    BY <1>5, <1>6, <2>1, <2>3 DEF R!Consultar
  <2> QED
    BY <2>2, <2>3
<1>7. CASE R!Confirmar(a)
  <2>1. CASE agente[a].v \in R!Pendentes
    <3>1. /\ R!Aprovada(agente[a].v, TRUE) /\ R!Passar(a, "sucesso") /\ UNCHANGED <<turno, cruzada>>
          /\ vendaPos[agente[a].v].status = "PENDENTE"
      BY <1>7, <2>1 DEF R!Confirmar, R!Pendentes
    <3>2. /\ Adianta /\ \A w \in VendasPos : vendaPos'[w] # vendaPos[w] => LinhaPosServe(w)'
          /\ vendaPos'[agente[a].v].status = "APROVADO"
      BY <1>1, <1>3, <3>1, AprovadaServe
    <3>3. CancelamentoServe'
      BY <1>1, <3>2, CancelamentoFicaServe
    <3> QED
      BY <1>1, <1>2, <3>1, <3>2, <3>3, PassarServe, PassoServe
  <2>2. CASE agente[a].v \notin R!Pendentes
    BY <1>5, <1>7, <2>2 DEF R!Confirmar, R!Conflito
  <2> QED
    BY <2>1, <2>2
<1>8. CASE R!Errar(a)
  <2>1. /\ UNCHANGED <<vendaPos, turno, trocada>> /\ R!Passar(a, "falha")
        /\ cruzada' = IF vendaPos[agente[a].v].status = "CANCELADO" THEN cruzada \cup {agente[a].v}
                      ELSE cruzada
    BY <1>8 DEF R!Errar
  <2>2. Adianta
    BY <1>1, <1>2, <1>3, <2>1 DEF Adianta
  <2>3. CancelamentoServe'
    BY <1>1, <2>2, CancelamentoFicaServe
  <2> QED
    BY <1>1, <1>2, <2>1, <2>2, <2>3, PassarServe, PassoServe
<1> QED
  BY <1>6, <1>7, <1>8

\* What an agent writes on a sale, over what it had read of it, names the provider.
LEMMA RegistrarServe ==
    ASSUME JobInv, NEW a \in R!Agentes, R!Registrar(a)
    PROVE  JobInv'
<1> DEFINE v == agente[a].v
           c == IF agente[a].passo = "sucesso" THEN R!ComSucesso(agente[a].lido[v])
                ELSE R!ComFalha(agente[a].lido[v])
           r == [vendaPos[v] EXCEPT !.carga = c]
<1>1. /\ agente[a].passo \in {"sucesso", "falha"} /\ R!Avancar(a)
      /\ UNCHANGED <<velha, cancelamento, trocada, cruzada>>
  BY DEF R!Registrar, R!historia
<1>2. /\ vendaPos \in [VendasPos -> LinhaPos]
      /\ velha \subseteq VendasPos /\ trocada \subseteq VendasPos /\ cruzada \subseteq VendasPos
  BY DEF JobInv
<1>3. /\ v \in VendasPos /\ agente[a].lido[v] \in R!Carga /\ AgenteServe(agente[a])
      /\ VaiEscrever(agente[a]) /\ v \in DOMAIN agente[a].lido
  BY <1>1, AgenteDaVez DEF AgenteServe
<1>4. c \in R!Carga /\ c.prov = agente[a].lido[v].prov
  <2> HIDE DEF v
  <2> QED
    BY <1>3 DEF R!Carga, R!ComSucesso, R!ComFalha
<1>5. c.prov \/ v \in trocada
  BY <1>3, <1>4 DEF AgenteServe, Nomeia
<1>6. vendaPos' = [vendaPos EXCEPT ![v] = r]
  BY <1>2 DEF R!Registrar
<1>7. vendaPos[v].status = "CANCELADO" => v \in cruzada
  BY <1>1, <1>3 DEF VaiEscrever
<1> HIDE DEF v, c
<1>8. r \in LinhaPos /\ r.status = vendaPos[v].status /\ r.carga = c
  BY <1>2, <1>3, <1>4 DEF LinhaPos
<1> HIDE DEF r
<1>9. /\ vendaPos'[v] = r /\ vendaPos' \in [VendasPos -> LinhaPos]
      /\ \A w \in VendasPos \ {v} : vendaPos'[w] = vendaPos[w]
  BY <1>2, <1>3, <1>6, <1>8
<1>10. Adianta /\ \A w \in VendasPos : vendaPos'[w] # vendaPos[w] => LinhaPosServe(w)'
  BY <1>1, <1>2, <1>3, <1>5, <1>7, <1>8, <1>9, ReescreverServe
<1>11. CancelamentoServe'
  BY <1>1, <1>10, CancelamentoFicaServe
<1> QED
  BY <1>1, <1>10, <1>11, AvancarServe, PassoServe

LEMMA AgenteCai ==
    ASSUME JobInv, (\E a \in R!Agentes : R!Cair(a)) \/ R!ExpirarTrava
    PROVE  JobInv'
<1>1. UNCHANGED <<vendaPos, velha, cancelamento, trocada, cruzada>>
  BY DEF R!Cair, R!ExpirarTrava, R!historia
<1>2. /\ turno \in Jobs \cup {Nulo} /\ agente \in [R!Agentes -> Agente]
      /\ vendaPos \in [VendasPos -> LinhaPos]
      /\ velha \subseteq VendasPos /\ trocada \subseteq VendasPos /\ cruzada \subseteq VendasPos
  BY DEF JobInv
<1>3. Adianta
  BY <1>1, <1>2 DEF Adianta
<1>4. CancelamentoServe'
  BY <1>1, <1>3, CancelamentoFicaServe
<1>5. CASE \E a \in R!Agentes : R!Cair(a)
  <2>1. PICK a \in R!Agentes : R!Cair(a)
    BY <1>5
  <2>2. agente' = [agente EXCEPT ![a] = R!Parado] /\ UNCHANGED turno
    BY <2>1 DEF R!Cair
  <2>3. R!Parado \in Agente /\ R!Parado.passo = "ocioso" /\ DOMAIN R!Parado.lido = {}
    BY ParadoEAgente
  <2>4. /\ agente' \in [R!Agentes -> Agente] /\ agente'[a] = R!Parado
        /\ \A b \in R!Agentes \ {a} : agente'[b] = agente[b]
    BY <1>2, <2>2, <2>3
  <2>5. AgenteServe(agente[a])' /\ VaiEscrever(agente[a])'
    BY <2>3, <2>4 DEF AgenteServe, VaiEscrever
  <2> QED
    BY <1>1, <1>2, <1>3, <1>4, <2>2, <2>4, <2>5, PassoServe
<1>6. CASE R!ExpirarTrava
  <2>1. UNCHANGED agente /\ turno' \in Jobs \cup {Nulo}
    BY <1>6 DEF R!ExpirarTrava
  <2> QED
    BY <1>1, <1>2, <1>3, <1>4, <2>1, PassoServe
<1> QED
  BY <1>5, <1>6

LEMMA JobInicial == R!Init => JobInv
<1> SUFFICES ASSUME R!Init PROVE JobInv
  OBVIOUS
<1>1. R!Vazia \in R!Carga
  BY DEF R!Vazia, R!Carga
<1>2. vendaPos \in [VendasPos -> LinhaPos] /\ \A v \in VendasPos : vendaPos[v].status = "nenhuma"
  BY <1>1 DEF R!Init, LinhaPos, SituacaoPos
<1>3. agente \in [R!Agentes -> Agente] /\ \A a \in R!Agentes : agente[a] = R!Parado
  BY ParadoEAgente DEF R!Init
<1>4. \A a \in R!Agentes : AgenteServe(agente[a]) /\ VaiEscrever(agente[a])
  BY <1>3, ParadoEAgente DEF AgenteServe, VaiEscrever
<1>5. velha = {} /\ turno = Nulo /\ cancelamento = Nulo /\ trocada = {} /\ cruzada = {}
  BY DEF R!Init
<1> QED
  BY <1>2, <1>3, <1>4, <1>5 DEF JobInv, LinhaPosServe, CancelamentoServe

LEMMA JobPara == JobInv /\ UNCHANGED reconciliacao => JobInv'
BY DEF reconciliacao, JobInv, CancelamentoServe, LinhaPosServe, AgenteServe, VaiEscrever, Nomeia,
       R!Agentes

LEMMA JobPasso == JobInv /\ [R!Next]_reconciliacao => JobInv'
<1> SUFFICES ASSUME JobInv, [R!Next]_reconciliacao PROVE JobInv'
  OBVIOUS
<1>1. CASE UNCHANGED reconciliacao
  BY <1>1, JobPara
<1>2. ASSUME NEW v \in VendasPos,
             \/ R!Criar(v) \/ R!Pagar(v) \/ R!Envelhecer(v) \/ R!Esfriar(v)
             \/ \E comCarga \in BOOLEAN : R!Aprovar(v, comCarga)
      PROVE  JobInv'
  BY <1>2, VendasAndam
<1>3. CASE (\E v \in VendasPos : R!IniciarCancelamento(v)) \/ R!Cancelar
  BY <1>3, CancelamentoAnda
<1>4. ASSUME NEW v \in VendasPos, NEW p \in Paineis, R!Olhar(p, v) PROVE JobInv'
  <2>1. /\ R!Ler(p, {v}) /\ {v} \subseteq R!Pendentes /\ p \in R!Agentes
        /\ UNCHANGED <<vendaPos, velha, turno, cancelamento, trocada, cruzada>>
    BY <1>4 DEF R!Olhar, R!historia, R!Agentes
  <2> QED
    BY <2>1, LerServe DEF JobInv
<1>5. ASSUME NEW j \in Jobs, R!MontarLote(j) PROVE JobInv'
  <2>1. /\ R!Ler(j, R!Elegiveis) /\ j \in R!Agentes /\ turno' = j
        /\ UNCHANGED <<vendaPos, velha, cancelamento, trocada, cruzada>>
    BY <1>5 DEF R!MontarLote, R!historia, R!Agentes
  <2>2. R!Elegiveis \subseteq R!Pendentes
    BY DEF R!Elegiveis, R!Ultimas
  <2> QED
    BY <2>1, <2>2, LerServe
<1>6. ASSUME NEW a \in R!Agentes, R!Andar(a) \/ R!Errar(a) PROVE JobInv'
  BY <1>6, AgenteAnda, RegistrarServe DEF R!Andar
<1>7. CASE (\E a \in R!Agentes : R!Cair(a)) \/ R!ExpirarTrava
  BY <1>7, AgenteCai
<1> QED
  BY <1>1, <1>2, <1>3, <1>4, <1>5, <1>6, <1>7 DEF R!Next

LEMMA JobPromete == JobInv => CargaNaoSePerde
<1> SUFFICES ASSUME JobInv PROVE CargaNaoSePerde
  OBVIOUS
<1>1. R!TypeOK
  <2>1. \A a \in R!Agentes :
           /\ agente[a].passo \in {"ocioso", "visitar", "confirmar", "sucesso", "falha"}
           /\ agente[a].passo # "ocioso" => agente[a].v \in DOMAIN agente[a].lido
    BY AgenteDaVez DEF Agente, AgenteServe
  <2> QED
    BY <2>1 DEF JobInv, R!TypeOK, LinhaPos, SituacaoPos, CancelamentoServe
<1>2. R!CargaNomeiaProvedor
  BY DEF JobInv, R!CargaNomeiaProvedor, LinhaPosServe, Nomeia
<1>3. R!MotivoFica
  BY DEF JobInv, R!MotivoFica, LinhaPosServe
<1> QED
  BY <1>1, <1>2, <1>3 DEF CargaNaoSePerde

-----------------------------------------------------------------------------
LEMMA ContaAuditoria == \A S : A!Cardinality(S) = Cardinality(S)
BY DEF A!Cardinality, Cardinality

LEMMA MaiorDe ==
    ASSUME NEW n \in Nat, NEW D, D \subseteq 1 .. n, D # {}
    PROVE  \E x \in D : \A y \in D : y <= x
<1> DEFINE T == {n - x : x \in D}
<1>1. \A x \in D : n - x \in Nat
  OBVIOUS
<1>2. T \subseteq Nat /\ T # {}
  BY <1>1
<1>3. PICK t \in T : \A y \in T : ~(y < t)
  BY <1>2, MenorDeTodos
<1>4. PICK x \in D : t = n - x
  BY <1>3
<1>5. ASSUME NEW y \in D PROVE y <= x
  <2>1. n - y \in T
    OBVIOUS
  <2>2. ~(n - y < n - x)
    BY <2>1, <1>3, <1>4
  <2> QED
    BY <2>2
<1> QED
  BY <1>4, <1>5

(* The trail of the writes (Auditoria). *)
PassosNoAr == {"antes", "escrever", "registrar", "seguir"}
Escritor == [passo : PassosNoAr \cup {"chegar", "feito", "falhou"}, tx : BOOLEAN,
             fila : Roteiros \cup {<< >>}, i : 0 .. 3, antes : A!Valores, novo : A!Valores]
Registro == [linha : LinhasDoBanco, antes : A!Valores, depois : A!Valores]

\* The writes of x that have their record, and those it has made; the rows it keeps.
Registradas(x) == {j \in 1 .. x.i : j < x.i \/ x.passo \in {"seguir", "feito"}}
Escritas(x) == {j \in 1 .. x.i : j < x.i \/ x.passo \in {"registrar", "seguir", "feito"}}
Mantidas(x) == IF x.tx THEN {x.fila[j].linha : j \in Escritas(x)} ELSE {}

\* The write j of w has its record in t.
Registrada(t, l, w, j) == \E k \in DOMAIN t : t[k].linha = l /\ t[k].depois = <<w, j>>

\* A request by itself: where it is in its list, and the records of what it has written.
EscritorServe(w, x) ==
    /\ x.passo = "chegar" => x = A!Chegando
    /\ x.passo # "chegar" => x.fila \in Roteiros /\ x.i \in 1 .. Len(x.fila) /\ (~x.tx => Len(x.fila) = 1)
    /\ x.passo \in {"registrar", "seguir"} => x.novo = <<w, x.i>>
RegistrosServem(t, w, x) ==
    x.passo \notin {"chegar", "falhou"} => \A j \in Registradas(x) : Registrada(t, x.fila[j].linha, w, j)

\* A write outside a transaction comes before its record: x, who made the write j of l, has it to make.
Devendo(x, l, j) ==
    ~x.tx /\ x.passo \in {"registrar", "falhou"} /\ x.i = j /\ x.fila[j].linha = l
LinhaDoBancoServe(v, t, e, l) ==
    v # Nulo => \E w \in Escritores, j \in 1 .. 3 :
                    v = <<w, j>> /\ (Registrada(t, l, w, j) \/ Devendo(e[w], l, j))

\* Two transactions do not keep the same row.
CadaUmaSuas(e) ==
    \A v, w \in Escritores :
        v # w /\ e[v].passo \in PassosNoAr /\ e[w].passo \in PassosNoAr
            => Mantidas(e[v]) \cap Mantidas(e[w]) = {}

\* Alone, what a request has written of l, and what it is about to, follows the trail:
\* v is the row in the database, c what the records say of it.
Contada(t, l) == A!Contado(t, l, Len(t))
SoEle(v, c, w, x, l) ==
    /\ \A j, k \in Escritas(x) : x.fila[j].linha = l /\ x.fila[k].linha = l => j = k
    /\ x.passo = "escrever" /\ x.fila[x.i].op = "update" /\ x.fila[x.i].linha = l => x.antes = v
    /\ x.passo = "registrar" /\ x.fila[x.i].linha = l => c = x.antes
    /\ ~x.tx /\ x.passo \in {"registrar", "seguir"} /\ x.fila[x.i].linha = l => v = <<w, x.i>>
    /\ \A j \in Registradas(x) : x.fila[j].linha = l => c = <<w, j>>
    /\ (\A j \in Escritas(x) : x.fila[j].linha # l) => c = v
Segue(v, c, w, x, l) == IF x.passo \in PassosNoAr THEN SoEle(v, c, w, x, l) ELSE c = v
Encadeada(t, l) ==
    \A k \in DOMAIN t : t[k].linha = l => t[k].antes = A!Contado(t, l, k - 1)
EmSerie ==
    ~sobreposto =>
        /\ \A v, w \in Escritores :
              escritor[v].passo \in PassosNoAr /\ escritor[w].passo \in PassosNoAr => v = w
        /\ \A l \in LinhasDoBanco \ opaca :
              /\ Encadeada(trilha, l)
              /\ (\A w \in Escritores : escritor[w].passo \notin PassosNoAr) => Contada(trilha, l) = banco[l]
              /\ \A w \in Escritores : escritor[w].passo \in PassosNoAr =>
                    SoEle(banco[l], Contada(trilha, l), w, escritor[w], l)

TrilhaInv ==
    /\ banco \in [LinhasDoBanco -> A!Valores] /\ opaca \subseteq LinhasDoBanco
    /\ trilha \in Seq(Registro) /\ sobreposto \in BOOLEAN
    /\ escritor \in [Escritores -> Escritor]
    /\ Cardinality({w \in Escritores : escritor[w].passo \in PassosNoAr /\ escritor[w].tx}) <= Conexoes
    /\ \A w \in Escritores : EscritorServe(w, escritor[w]) /\ RegistrosServem(trilha, w, escritor[w])
    /\ \A l \in LinhasDoBanco : LinhaDoBancoServe(banco[l], trilha, escritor, l)
    /\ CadaUmaSuas(escritor)
    /\ EmSerie

LEMMA ContadoE ==
    ASSUME NEW s \in Seq(Registro), NEW l \in LinhasDoBanco, NEW n \in 0 .. Len(s)
    PROVE  /\ (\A k \in 1 .. n : s[k].linha # l) => A!Contado(s, l, n) = Nulo
           /\ \A u \in 1 .. n : s[u].linha = l /\ (\A k \in 1 .. n : s[k].linha = l => k <= u)
                 => A!Contado(s, l, n) = s[u].depois
           /\ (\A k \in 1 .. n : s[k].linha # l)
                 \/ \E u \in 1 .. n : s[u].linha = l /\ \A k \in 1 .. n : s[k].linha = l => k <= u
<1> DEFINE D == {k \in 1 .. n : s[k].linha = l}
<1>1. n \in Nat /\ D \subseteq 1 .. n
  OBVIOUS
<1>2. A!Contado(s, l, n) = IF D = {} THEN Nulo ELSE s[CHOOSE k \in D : \A j \in D : j <= k].depois
  BY DEF A!Contado
<1>3. (\A k \in 1 .. n : s[k].linha # l) <=> D = {}
  OBVIOUS
<1>4. ASSUME NEW u \in D, \A j \in D : j <= u
      PROVE (CHOOSE k \in D : \A j \in D : j <= k) = u
  <2>1. \A k \in D : (\A j \in D : j <= k) => k = u
    BY <1>1, <1>4
  <2> HIDE DEF D
  <2> QED
    BY <1>4, <2>1
<1>5. ASSUME NEW u \in 1 .. n, s[u].linha = l, \A k \in 1 .. n : s[k].linha = l => k <= u
      PROVE A!Contado(s, l, n) = s[u].depois
  <2>1. u \in D /\ \A j \in D : j <= u
    BY <1>5
  <2> HIDE DEF D
  <2> QED
    BY <2>1, <1>2, <1>4
<1>6. D # {} => \E u \in D : \A j \in D : j <= u
  <2> HIDE DEF D
  <2> QED
    BY <1>1, MaiorDe
<1>7. (\A k \in 1 .. n : s[k].linha # l) => A!Contado(s, l, n) = Nulo
  <2> HIDE DEF D
  <2> QED
    BY <1>2, <1>3
<1> QED
  BY <1>3, <1>5, <1>6, <1>7

\* What the records say of a row, when there is one more.
LEMMA ContadoFica ==
    ASSUME trilha \in Seq(Registro), NEW rec \in Registro, NEW l \in LinhasDoBanco
    PROVE  /\ \A n \in 0 .. Len(trilha) : A!Contado(Append(trilha, rec), l, n) = A!Contado(trilha, l, n)
           /\ A!Contado(Append(trilha, rec), l, Len(trilha) + 1)
                  = IF rec.linha = l THEN rec.depois ELSE A!Contado(trilha, l, Len(trilha))
<1> DEFINE t == Append(trilha, rec)
           N == Len(trilha)
<1>1. /\ N \in Nat /\ Len(t) = N + 1 /\ t \in Seq(Registro)
      /\ t[N + 1] = rec /\ \A k \in 1 .. N : t[k] = trilha[k]
  OBVIOUS
<1> HIDE DEF t, N
<1>2. ASSUME NEW n \in 0 .. N PROVE A!Contado(t, l, n) = A!Contado(trilha, l, n)
  <2>1. n \in 0 .. Len(t) /\ n \in 0 .. Len(trilha) /\ \A k \in 1 .. n : t[k] = trilha[k]
    BY <1>1 DEF N
  <2>2. CASE \A k \in 1 .. n : trilha[k].linha # l
    <3>1. A!Contado(trilha, l, n) = Nulo
      BY <2>1, <2>2, ContadoE
    <3>2. A!Contado(t, l, n) = Nulo
      BY <1>1, <2>1, <2>2, ContadoE
    <3> QED
      BY <3>1, <3>2
  <2>3. ASSUME NEW u \in 1 .. n, trilha[u].linha = l, \A k \in 1 .. n : trilha[k].linha = l => k <= u
        PROVE A!Contado(t, l, n) = A!Contado(trilha, l, n)
    <3>1. A!Contado(trilha, l, n) = trilha[u].depois
      BY <2>1, <2>3, ContadoE
    <3>2. t[u].linha = l /\ \A k \in 1 .. n : t[k].linha = l => k <= u
      BY <2>1, <2>3
    <3>3. A!Contado(t, l, n) = t[u].depois
      BY <1>1, <2>1, <3>2, ContadoE
    <3> QED
      BY <2>1, <3>1, <3>3
  <2>4. (\A k \in 1 .. n : trilha[k].linha # l)
        \/ \E u \in 1 .. n : trilha[u].linha = l /\ \A k \in 1 .. n : trilha[k].linha = l => k <= u
    BY <2>1, ContadoE
  <2> QED
    BY <2>2, <2>3, <2>4
<1>3. N + 1 \in 0 .. Len(t) /\ N \in 0 .. N /\ N \in 0 .. Len(t) /\ N \in 0 .. Len(trilha)
  BY <1>1 DEF N
<1>4. CASE rec.linha = l
  <2>1. N + 1 \in 1 .. N + 1 /\ t[N + 1].linha = l /\ \A k \in 1 .. N + 1 : t[k].linha = l => k <= N + 1
    BY <1>1, <1>4
  <2>2. A!Contado(t, l, N + 1) = t[N + 1].depois
    BY <1>1, <1>3, <2>1, ContadoE
  <2> QED
    BY <1>1, <1>2, <1>4, <2>2 DEF t, N
<1>5. CASE rec.linha # l
  <2>1. t[N + 1].linha # l
    BY <1>1, <1>5
  <2>2. ASSUME \A k \in 1 .. N : t[k].linha # l
        PROVE A!Contado(t, l, N + 1) = A!Contado(t, l, N)
    <3>1. \A k \in 1 .. N + 1 : t[k].linha # l
      BY <1>1, <2>1, <2>2
    <3>2. A!Contado(t, l, N + 1) = Nulo
      BY <1>1, <1>3, <3>1, ContadoE
    <3>3. A!Contado(t, l, N) = Nulo
      BY <1>1, <1>3, <2>2, ContadoE
    <3> QED
      BY <3>2, <3>3
  <2>3. ASSUME NEW u \in 1 .. N, t[u].linha = l, \A k \in 1 .. N : t[k].linha = l => k <= u
        PROVE A!Contado(t, l, N + 1) = A!Contado(t, l, N)
    <3>1. u \in 1 .. N + 1 /\ \A k \in 1 .. N + 1 : t[k].linha = l => k <= u
      BY <1>1, <2>1, <2>3
    <3>2. A!Contado(t, l, N + 1) = t[u].depois
      BY <1>1, <1>3, <2>3, <3>1, ContadoE
    <3>3. A!Contado(t, l, N) = t[u].depois
      BY <1>1, <1>3, <2>3, ContadoE
    <3> QED
      BY <3>2, <3>3
  <2>4. (\A k \in 1 .. N : t[k].linha # l)
        \/ \E u \in 1 .. N : t[u].linha = l /\ \A k \in 1 .. N : t[k].linha = l => k <= u
    BY <1>1, <1>3, ContadoE
  <2>5. A!Contado(t, l, N + 1) = A!Contado(t, l, N)
    BY <2>2, <2>3, <2>4
  <2> QED
    BY <1>2, <1>3, <1>5, <2>5 DEF t, N
<1> QED
  BY <1>2, <1>4, <1>5 DEF t, N

\* A request goes on, and the others wait: what it has to keep, for the invariant to stay.
LEMMA TrilhaAnda ==
    ASSUME AuditoriaAssumption, TrilhaInv, NEW p \in Escritores,
           escritor' \in [Escritores -> Escritor],
           \A w \in Escritores \ {p} : escritor'[w] = escritor[w],
           banco' \in [LinhasDoBanco -> A!Valores], opaca' \subseteq LinhasDoBanco, opaca \subseteq opaca',
           trilha' \in Seq(Registro), \A k \in DOMAIN trilha : k \in DOMAIN trilha' /\ trilha'[k] = trilha[k],
           sobreposto' \in BOOLEAN, sobreposto => sobreposto',
           ~sobreposto' => \A w \in Escritores \ {p} : escritor[w].passo \notin PassosNoAr,
           escritor'[p].passo \in PassosNoAr /\ escritor'[p].tx =>
               \/ escritor[p].passo \in PassosNoAr /\ escritor[p].tx
               \/ Cardinality({w \in Escritores : escritor[w].passo \in PassosNoAr /\ escritor[w].tx}) < Conexoes,
           EscritorServe(p, escritor'[p]), RegistrosServem(trilha', p, escritor'[p]),
           escritor'[p].passo \in PassosNoAr =>
               \A w \in Escritores \ {p} : escritor[w].passo \in PassosNoAr =>
                   Mantidas(escritor'[p]) \cap Mantidas(escritor[w]) = {},
           \A l \in LinhasDoBanco : banco'[l] # banco[l] =>
               \E j \in 1 .. 3 : banco'[l] = <<p, j>> /\ (Registrada(trilha', l, p, j) \/ Devendo(escritor'[p], l, j)),
           \A l \in LinhasDoBanco, j \in 1 .. 3 :
               Devendo(escritor[p], l, j) => Registrada(trilha', l, p, j) \/ Devendo(escritor'[p], l, j),
           ~sobreposto' => \A l \in LinhasDoBanco \ opaca' :
               Encadeada(trilha, l) /\ Segue(banco[l], Contada(trilha, l), p, escritor[p], l) =>
               Encadeada(trilha', l) /\ Segue(banco'[l], Contada(trilha', l), p, escritor'[p], l)
    PROVE  TrilhaInv'
<1> DEFINE Tx == {w \in Escritores : escritor[w].passo \in PassosNoAr /\ escritor[w].tx}
           Txn == {w \in Escritores : escritor'[w].passo \in PassosNoAr /\ escritor'[w].tx}
<1>1. Cardinality(Txn) <= Conexoes
  <2>1. IsFiniteSet(Tx) /\ Cardinality(Tx) \in Nat /\ Cardinality(Tx) <= Conexoes
    <3>1. IsFiniteSet(Escritores)
      BY DEF AuditoriaAssumption
    <3>2. IsFiniteSet(Tx) /\ Cardinality(Tx) \in Nat
      BY <3>1, FS_Subset, FS_CardinalityType
    <3> QED
      BY <3>2 DEF TrilhaInv
  <2>2. CASE Cardinality(Tx) < Conexoes
    <3>1. Txn \subseteq Tx \cup {p}
      OBVIOUS
    <3>2. IsFiniteSet(Tx \cup {p}) /\ Cardinality(Tx \cup {p}) <= Cardinality(Tx) + 1
      <4>1. IsFiniteSet(Tx \cup {p})
            /\ (Cardinality(Tx \cup {p}) = Cardinality(Tx) \/ Cardinality(Tx \cup {p}) = Cardinality(Tx) + 1)
        <5> HIDE DEF Tx
        <5> QED
          BY <2>1, FS_AddElement
      <4> QED
        BY <2>1, <4>1
    <3>3. Cardinality(Txn) <= Cardinality(Tx \cup {p}) /\ IsFiniteSet(Txn)
      <4> HIDE DEF Tx, Txn
      <4> QED
        BY <3>1, <3>2, FS_Subset
    <3>4. Cardinality(Txn) \in Nat /\ Cardinality(Tx \cup {p}) \in Nat /\ Conexoes \in Nat
      <4> HIDE DEF Tx, Txn
      <4> QED
        BY <3>2, <3>3, FS_CardinalityType DEF AuditoriaAssumption
    <3> HIDE DEF Tx, Txn
    <3> QED
      BY <2>1, <2>2, <3>2, <3>3, <3>4
  <2>3. CASE ~(Cardinality(Tx) < Conexoes)
    <3>1. Txn \subseteq Tx
      BY <2>3
    <3>2. Cardinality(Txn) <= Cardinality(Tx) /\ IsFiniteSet(Txn)
      <4> HIDE DEF Tx, Txn
      <4> QED
        BY <2>1, <3>1, FS_Subset
    <3>3. Cardinality(Txn) \in Nat /\ Conexoes \in Nat
      <4> HIDE DEF Tx, Txn
      <4> QED
        BY <3>2, FS_CardinalityType DEF AuditoriaAssumption
    <3> HIDE DEF Tx, Txn
    <3> QED
      BY <2>1, <3>2, <3>3
  <2> QED
    BY <2>2, <2>3
<1>2. \A l, w, j : Registrada(trilha, l, w, j) => Registrada(trilha', l, w, j)
  BY DEF Registrada
<1>3. \A w \in Escritores : EscritorServe(w, escritor'[w]) /\ RegistrosServem(trilha', w, escritor'[w])
  <2>1. ASSUME NEW w \in Escritores \ {p}
        PROVE EscritorServe(w, escritor'[w]) /\ RegistrosServem(trilha', w, escritor'[w])
    <3>1. EscritorServe(w, escritor[w]) /\ RegistrosServem(trilha, w, escritor[w])
      BY DEF TrilhaInv
    <3>2. escritor'[w] = escritor[w]
      OBVIOUS
    <3> QED
      BY <1>2, <3>1, <3>2 DEF RegistrosServem
  <2> QED
    BY <2>1
<1>4. ASSUME NEW l \in LinhasDoBanco PROVE LinhaDoBancoServe(banco'[l], trilha', escritor', l)
  <2>1. CASE banco'[l] # banco[l]
    BY <2>1 DEF LinhaDoBancoServe
  <2>2. CASE banco'[l] = banco[l] /\ banco[l] # Nulo
    <3>1. PICK w \in Escritores, j \in 1 .. 3 :
              banco[l] = <<w, j>> /\ (Registrada(trilha, l, w, j) \/ Devendo(escritor[w], l, j))
      BY <2>2 DEF TrilhaInv, LinhaDoBancoServe
    <3>2. Registrada(trilha', l, w, j) \/ Devendo(escritor'[w], l, j)
      BY <1>2, <3>1
    <3> QED
      BY <2>2, <3>1, <3>2 DEF LinhaDoBancoServe
  <2> QED
    BY <2>1, <2>2 DEF LinhaDoBancoServe
<1>5. CadaUmaSuas(escritor')
  <2>1. SUFFICES ASSUME NEW v \in Escritores, NEW w \in Escritores, v # w,
                        escritor'[v].passo \in PassosNoAr, escritor'[w].passo \in PassosNoAr
                 PROVE Mantidas(escritor'[v]) \cap Mantidas(escritor'[w]) = {}
    BY DEF CadaUmaSuas
  <2>2. CASE v = p
    BY <2>1, <2>2
  <2>3. CASE w = p
    <3>1. Mantidas(escritor'[p]) \cap Mantidas(escritor[v]) = {} /\ escritor'[v] = escritor[v]
      BY <2>1, <2>3
    <3> QED
      BY <2>3, <3>1
  <2>4. CASE v # p /\ w # p
    <3>1. escritor'[v] = escritor[v] /\ escritor'[w] = escritor[w]
      BY <2>4
    <3> QED
      BY <2>1, <3>1 DEF TrilhaInv, CadaUmaSuas
  <2> QED
    BY <2>2, <2>3, <2>4
<1>6. EmSerie'
  <2>1. SUFFICES ASSUME ~sobreposto' PROVE EmSerie'
    BY DEF EmSerie
  <2>2. \A w \in Escritores \ {p} : escritor'[w].passo \notin PassosNoAr
    BY <2>1
  <2>3. ASSUME NEW l \in LinhasDoBanco \ opaca'
        PROVE Encadeada(trilha', l) /\ Segue(banco'[l], Contada(trilha', l), p, escritor'[p], l)
    <3>1. ~sobreposto /\ l \in LinhasDoBanco \ opaca
      BY <2>1 DEF TrilhaInv
    <3>2. /\ Encadeada(trilha, l)
          /\ (\A w \in Escritores : escritor[w].passo \notin PassosNoAr) => Contada(trilha, l) = banco[l]
          /\ escritor[p].passo \in PassosNoAr => SoEle(banco[l], Contada(trilha, l), p, escritor[p], l)
      BY <3>1 DEF TrilhaInv, EmSerie
    <3>3. Segue(banco[l], Contada(trilha, l), p, escritor[p], l)
      BY <2>1, <3>2 DEF Segue
    <3> QED
      BY <2>1, <3>2, <3>3
  <2> QED
    BY <2>1, <2>2, <2>3 DEF EmSerie, Segue
<1> QED
  BY <1>1, <1>3, <1>4, <1>5, <1>6 DEF TrilhaInv

\* What a request in course is, and what the operators of Auditoria say of it.
LEMMA NoAr ==
    ASSUME AuditoriaAssumption, TrilhaInv, NEW p \in Escritores, escritor[p].passo \in PassosNoAr
    PROVE  LET x == escritor[p] IN
           /\ x \in Escritor /\ x.fila \in Roteiros /\ x.i \in 1 .. Len(x.fila) /\ x.i \in 1 .. 3
           /\ Len(x.fila) \in 1 .. 3 /\ DOMAIN x.fila = 1 .. Len(x.fila)
           /\ \A k \in 1 .. Len(x.fila) :
                 x.fila[k].linha \in LinhasDoBanco /\ x.fila[k].op \in {"update", "updateMany"}
           /\ \A j, k \in 1 .. Len(x.fila) : j < k => x.fila[j].linha <= x.fila[k].linha
           /\ ~x.tx => Len(x.fila) = 1
           /\ Nulo \in A!Valores /\ <<p, x.i>> \in A!Valores /\ <<p, x.i>> # Nulo
           /\ A!Alvo(p) = x.fila[x.i] /\ A!Auditada(x.fila[x.i].op)
<1> DEFINE x == escritor[p]
<1>1. x \in Escritor /\ EscritorServe(p, x)
  BY DEF TrilhaInv
<1>2. x.fila \in Roteiros /\ x.i \in 1 .. Len(x.fila) /\ (~x.tx => Len(x.fila) = 1)
  BY <1>1 DEF EscritorServe, PassosNoAr
<1>3. /\ x.fila \in Seq([op : {"update", "updateMany"}, linha : LinhasDoBanco]) /\ Len(x.fila) \in 1 .. 3
      /\ \A i, j \in DOMAIN x.fila : i < j => x.fila[i].linha <= x.fila[j].linha
  BY <1>2 DEF AuditoriaAssumption
<1>4. DOMAIN x.fila = 1 .. Len(x.fila) /\ x.i \in 1 .. 3
  BY <1>2, <1>3
<1>5. \A k \in 1 .. Len(x.fila) : x.fila[k].linha \in LinhasDoBanco /\ x.fila[k].op \in {"update", "updateMany"}
  <2>1. \A Z : \A z \in Seq(Z) : \A k \in 1 .. Len(z) : z[k] \in Z
    OBVIOUS
  <2>2. \A k \in 1 .. Len(x.fila) : x.fila[k] \in [op : {"update", "updateMany"}, linha : LinhasDoBanco]
    <3> HIDE DEF x
    <3> QED
      BY <1>3, <2>1
  <2> QED
    BY <2>2
<1>6. Nulo \in A!Valores /\ <<p, x.i>> \in A!Valores /\ <<p, x.i>> # Nulo
  BY <1>4 DEF A!Valores, AuditoriaAssumption
<1>7. A!Alvo(p) = x.fila[x.i] /\ A!Auditada(x.fila[x.i].op)
  BY <1>2, <1>5 DEF A!Alvo, A!Auditada
<1> QED
  BY <1>1, <1>2, <1>3, <1>4, <1>5, <1>6, <1>7

LEMMA PresasSao ==
    ASSUME AuditoriaAssumption, TrilhaInv
    PROVE  /\ A!EmCurso = {w \in Escritores : escritor[w].passo \in PassosNoAr}
           /\ A!Folga <=> Cardinality({w \in Escritores : escritor[w].passo \in PassosNoAr /\ escritor[w].tx}) < Conexoes
           /\ \A w \in A!EmCurso : A!Presas(w) = Mantidas(escritor[w])
<1>1. A!EmCurso = {w \in Escritores : escritor[w].passo \in PassosNoAr}
  <2>1. \A w \in Escritores : escritor[w].passo \in PassosNoAr \cup {"chegar", "feito", "falhou"}
    BY DEF TrilhaInv, Escritor
  <2> QED
    BY <2>1 DEF A!EmCurso, A!Fora, PassosNoAr
<1>2. {w \in A!EmCurso : escritor[w].tx} = {w \in Escritores : escritor[w].passo \in PassosNoAr /\ escritor[w].tx}
  BY <1>1
<1>3. ASSUME NEW w \in A!EmCurso PROVE A!Presas(w) = Mantidas(escritor[w])
  <2>1. w \in Escritores /\ escritor[w].passo \in PassosNoAr
    BY <1>1
  <2>2. /\ escritor[w].i \in 1 .. 3 /\ A!Alvo(w) = escritor[w].fila[escritor[w].i]
    BY <2>1, NoAr
  <2>3. CASE escritor[w].passo \in {"registrar", "seguir"}
    <3>1. Escritas(escritor[w]) = 1 .. (escritor[w].i - 1) \cup {escritor[w].i}
      BY <2>2, <2>3 DEF Escritas
    <3> QED
      BY <2>2, <2>3, <3>1 DEF A!Presas, Mantidas
  <2>4. CASE escritor[w].passo \in {"antes", "escrever"}
    <3>1. Escritas(escritor[w]) = 1 .. (escritor[w].i - 1)
      BY <2>2, <2>4 DEF Escritas
    <3> QED
      BY <2>2, <2>4, <3>1 DEF A!Presas, Mantidas
  <2> QED
    BY <2>1, <2>3, <2>4 DEF PassosNoAr
<1> QED
  BY <1>1, <1>2, <1>3, ContaAuditoria DEF A!Folga

LEMMA TrilhaInicial ==
    ASSUME AuditoriaAssumption, A!Init PROVE TrilhaInv
<1>1. Nulo \in A!Valores /\ <<>> \in Seq(Registro)
  BY DEF A!Valores
<1>2. \A w \in Escritores : escritor[w] = A!Chegando
  BY DEF A!Init
<1>3. A!Chegando \in Escritor /\ A!Chegando.passo = "chegar" /\ "chegar" \notin PassosNoAr
  BY <1>1 DEF A!Chegando, Escritor, PassosNoAr
<1>4. escritor \in [Escritores -> Escritor]
  BY <1>3 DEF A!Init
<1>5. \A w \in Escritores : escritor[w].passo = "chegar"
  BY <1>2, <1>3
<1>6. Cardinality({w \in Escritores : escritor[w].passo \in PassosNoAr /\ escritor[w].tx}) <= Conexoes
  <2> DEFINE Tx == {w \in Escritores : escritor[w].passo \in PassosNoAr /\ escritor[w].tx}
  <2>1. Tx = {} /\ Conexoes \in Nat
    BY <1>3, <1>5 DEF AuditoriaAssumption
  <2>2. Cardinality({}) = 0
    BY FS_EmptySet
  <2> HIDE DEF Tx
  <2>3. Cardinality(Tx) <= Conexoes
    BY <2>1, <2>2
  <2> QED
    BY <2>3 DEF Tx
<1>7. \A w \in Escritores : EscritorServe(w, escritor[w]) /\ RegistrosServem(trilha, w, escritor[w])
  BY <1>2, <1>5 DEF EscritorServe, RegistrosServem
<1>8. \A l \in LinhasDoBanco : banco[l] = Nulo /\ Contada(trilha, l) = Nulo /\ Encadeada(trilha, l)
  <2>1. trilha = <<>> /\ Len(trilha) = 0 /\ DOMAIN trilha = {}
    BY DEF A!Init
  <2>2. ASSUME NEW l \in LinhasDoBanco PROVE A!Contado(<<>>, l, 0) = Nulo
    <3>1. {k \in 1 .. 0 : <<>>[k].linha = l} = {}
      OBVIOUS
    <3> QED
      BY <3>1 DEF A!Contado
  <2>3. \A l \in LinhasDoBanco : banco[l] = Nulo
    BY DEF A!Init
  <2> QED
    BY <2>1, <2>2, <2>3 DEF Contada, Encadeada
<1>9. EmSerie /\ CadaUmaSuas(escritor)
  BY <1>3, <1>5, <1>8 DEF EmSerie, CadaUmaSuas
<1>10. \A l \in LinhasDoBanco : LinhaDoBancoServe(banco[l], trilha, escritor, l)
  BY <1>8 DEF LinhaDoBancoServe
<1>11. /\ banco \in [LinhasDoBanco -> A!Valores] /\ opaca \subseteq LinhasDoBanco
       /\ trilha \in Seq(Registro) /\ sobreposto \in BOOLEAN
  BY <1>1 DEF A!Init
<1> QED
  BY <1>4, <1>6, <1>7, <1>9, <1>10, <1>11 DEF TrilhaInv

LEMMA TrilhaPromete ==
    ASSUME AuditoriaAssumption, TrilhaInv PROVE TrilhaConfere
<1>1. A!TypeOK
  <2>1. \A k \in DOMAIN trilha : trilha[k] \in Registro
    BY DEF TrilhaInv
  <2>2. \A k \in DOMAIN trilha : trilha[k].linha \in LinhasDoBanco /\ {trilha[k].antes, trilha[k].depois} \subseteq A!Valores
    BY <2>1 DEF Registro
  <2>3. {w \in A!EmCurso : escritor[w].tx} = {w \in Escritores : escritor[w].passo \in PassosNoAr /\ escritor[w].tx}
    BY PresasSao
  <2>4. A!Cardinality({w \in A!EmCurso : escritor[w].tx}) <= Conexoes
    BY <2>3, ContaAuditoria DEF TrilhaInv
  <2> QED
    BY <2>2, <2>4 DEF TrilhaInv, A!TypeOK
<1>2. A!EscritaTemRegistro
  <2>1. SUFFICES ASSUME NEW l \in LinhasDoBanco, banco[l] # Nulo
                 PROVE  \/ \E i \in DOMAIN trilha : trilha[i].linha = l /\ trilha[i].depois = banco[l]
                        \/ ~escritor[banco[l][1]].tx /\ escritor[banco[l][1]].passo # "feito"
    BY DEF A!EscritaTemRegistro
  <2>2. PICK w \in Escritores, j \in 1 .. 3 :
            banco[l] = <<w, j>> /\ (Registrada(trilha, l, w, j) \/ Devendo(escritor[w], l, j))
    BY <2>1 DEF TrilhaInv, LinhaDoBancoServe
  <2>3. banco[l][1] = w
    BY <2>2
  <2> QED
    BY <2>2, <2>3 DEF Registrada, Devendo
<1>3. A!TrilhaEncadeadaEmSerie
  <2>1. SUFFICES ASSUME ~sobreposto, A!EmCurso = {}, NEW l \in LinhasDoBanco \ opaca
                 PROVE  Encadeada(trilha, l) /\ banco[l] = Contada(trilha, l)
    BY DEF A!TrilhaEncadeadaEmSerie, Encadeada, Contada
  <2>2. \A w \in Escritores : escritor[w].passo \notin PassosNoAr
    BY <2>1, PresasSao
  <2> QED
    BY <2>1, <2>2 DEF TrilhaInv, EmSerie
<1>4. A!ComFolgaNaoTrava
  <2>1. SUFFICES ASSUME A!EmCurso # {}, A!Folga, \A w \in A!EmCurso : escritor[w].passo = "escrever"
                 PROVE  \E p \in A!EmCurso : escritor[p].passo = "escrever" /\ A!LinhaLivre(p)
    BY PresasSao DEF A!ComFolgaNaoTrava, A!PodeLer, PassosNoAr
  <2> DEFINE alvo(w) == escritor[w].fila[escritor[w].i].linha
             Alvos == {alvo(w) : w \in A!EmCurso}
  <2>2. \A w \in A!EmCurso : w \in Escritores /\ escritor[w].passo \in PassosNoAr
    BY PresasSao
  <2>3. ASSUME NEW w \in A!EmCurso
        PROVE  /\ alvo(w) \in LinhasDoBanco /\ A!Alvo(w).linha = alvo(w)
               /\ A!Presas(w) = Mantidas(escritor[w])
               /\ \A m \in Mantidas(escritor[w]) : m \in LinhasDoBanco /\ m <= alvo(w)
    <3>1. LET x == escritor[w] IN
              /\ x.i \in 1 .. Len(x.fila) /\ Len(x.fila) \in 1 .. 3 /\ A!Alvo(w) = x.fila[x.i]
              /\ \A k \in 1 .. Len(x.fila) : x.fila[k].linha \in LinhasDoBanco
              /\ \A j, k \in 1 .. Len(x.fila) : j < k => x.fila[j].linha <= x.fila[k].linha
      BY <2>2, NoAr
    <3>2. \A j \in Escritas(escritor[w]) : j \in 1 .. Len(escritor[w].fila) /\ j < escritor[w].i
      BY <2>1, <3>1 DEF Escritas
    <3>3. A!Presas(w) = Mantidas(escritor[w])
      BY PresasSao
    <3>4. ASSUME NEW m \in Mantidas(escritor[w]) PROVE m \in LinhasDoBanco /\ m <= alvo(w)
      <4>1. PICK j \in Escritas(escritor[w]) : m = escritor[w].fila[j].linha
        BY <3>4 DEF Mantidas
      <4> QED
        BY <3>1, <3>2, <4>1
    <3> QED
      BY <3>1, <3>3, <3>4
  <2>4. /\ Cardinality(LinhasDoBanco) \in Nat /\ LinhasDoBanco = 1 .. Cardinality(LinhasDoBanco)
        /\ Alvos \subseteq LinhasDoBanco /\ Alvos # {}
    BY <2>1, <2>3, FS_CardinalityType DEF AuditoriaAssumption
  <2>5. PICK m \in Alvos : \A y \in Alvos : y <= m
    <3> HIDE DEF Alvos
    <3> QED
      BY <2>4, MaiorDe
  <2>6. \A w \in A!EmCurso : alvo(w) <= m
    BY <2>5
  <2>7. CASE \E w \in A!EmCurso : alvo(w) = m /\ m \in Mantidas(escritor[w])
    <3>1. PICK w \in A!EmCurso : alvo(w) = m /\ m \in Mantidas(escritor[w])
      BY <2>7
    <3>2. \A q \in A!EmCurso \ {w} : m \notin Mantidas(escritor[q])
      BY <2>2, <3>1 DEF TrilhaInv, CadaUmaSuas
    <3>3. A!LinhaLivre(w)
      BY <2>3, <3>1, <3>2 DEF A!LinhaLivre
    <3> QED
      BY <2>1, <3>3
  <2>8. CASE ~\E w \in A!EmCurso : alvo(w) = m /\ m \in Mantidas(escritor[w])
    <3>1. PICK w \in A!EmCurso : alvo(w) = m
      OBVIOUS
    <3>2. ASSUME NEW q \in A!EmCurso, m \in Mantidas(escritor[q]) PROVE FALSE
      <4>1. m <= alvo(q) /\ alvo(q) <= m /\ m \in Int /\ alvo(q) \in Int
        <5>1. m \in LinhasDoBanco /\ alvo(q) \in LinhasDoBanco
          BY <2>3, <3>2
        <5> QED
          BY <2>3, <2>4, <2>6, <3>2, <5>1
      <4> QED
        BY <2>8, <3>2, <4>1
    <3>3. A!LinhaLivre(w)
      BY <2>3, <3>1, <3>2 DEF A!LinhaLivre
    <3> QED
      BY <2>1, <3>3
  <2> QED
    BY <2>7, <2>8
<1> QED
  BY <1>1, <1>2, <1>3, <1>4 DEF TrilhaConfere

LEMMA TrilhaChegar ==
    ASSUME AuditoriaAssumption, TrilhaInv, NEW p \in Escritores, NEW roteiro \in Roteiros, NEW tx \in BOOLEAN,
           A!Chegar(p, roteiro, tx)
    PROVE  TrilhaInv'
<1> DEFINE x == escritor[p]
           r == [x EXCEPT !.passo = A!Primeiro(roteiro[1].op), !.tx = tx, !.fila = roteiro, !.i = 1]
<1>1. x = A!Chegando /\ x.passo = "chegar" /\ x \in Escritor
  BY DEF A!Chegar, TrilhaInv, EscritorServe
<1>2. Len(roteiro) \in 1 .. 3 /\ (~tx => Len(roteiro) = 1)
  BY DEF A!Chegar, AuditoriaAssumption
<1>3. A!Primeiro(roteiro[1].op) \in {"antes", "escrever"} /\ (roteiro[1].op = "update" => A!Primeiro(roteiro[1].op) = "antes")
  BY DEF A!Primeiro, A!TemAntes
<1>4. /\ r \in Escritor /\ r.passo \in {"antes", "escrever"} /\ r.tx = tx /\ r.fila = roteiro /\ r.i = 1
      /\ roteiro[1].op = "update" => r.passo = "antes"
  <2>1. 1 \in 0 .. 3 /\ {"antes", "escrever"} \subseteq PassosNoAr
    BY DEF PassosNoAr
  <2>2. \A y \in Escritor : \A m \in PassosNoAr :
            LET z == [y EXCEPT !.passo = m, !.tx = tx, !.fila = roteiro, !.i = 1]
            IN  z \in Escritor /\ z.passo = m /\ z.tx = tx /\ z.fila = roteiro /\ z.i = 1
    BY <2>1 DEF Escritor
  <2> QED
    BY <1>1, <1>3, <2>1, <2>2
<1>5. /\ escritor' = [escritor EXCEPT ![p] = r]
      /\ banco' = banco /\ trilha' = trilha /\ opaca' = opaca
      /\ A!Folga /\ sobreposto' = (sobreposto \/ A!EmCurso # {})
  BY DEF A!Chegar, A!Segue
<1> HIDE DEF r, x
<1>6. escritor'[p] = r /\ escritor' \in [Escritores -> Escritor] /\ \A w \in Escritores \ {p} : escritor'[w] = escritor[w]
  BY <1>4, <1>5 DEF TrilhaInv
<1>7. /\ Escritas(r) = {} /\ Registradas(r) = {} /\ Mantidas(r) = {}
      /\ r.passo \in PassosNoAr /\ x.passo \notin PassosNoAr
  BY <1>1, <1>4 DEF Escritas, Registradas, Mantidas, PassosNoAr
<1>8. EscritorServe(p, r) /\ RegistrosServem(trilha, p, r)
  BY <1>2, <1>4, <1>7 DEF EscritorServe, RegistrosServem
<1>9. \A l, v, c : Segue(v, c, p, x, l) => Segue(v, c, p, r, l)
  BY <1>4, <1>7 DEF Segue, SoEle
<1>10. \A l, j : ~Devendo(x, l, j)
  BY <1>1 DEF Devendo
<1>11. sobreposto' \in BOOLEAN /\ (sobreposto => sobreposto')
       /\ (~sobreposto' => \A w \in Escritores \ {p} : escritor[w].passo \notin PassosNoAr)
  BY <1>5, PresasSao DEF TrilhaInv
<1>12. Cardinality({w \in Escritores : escritor[w].passo \in PassosNoAr /\ escritor[w].tx}) < Conexoes
  BY <1>5, PresasSao
<1>13. /\ banco' \in [LinhasDoBanco -> A!Valores] /\ opaca' \subseteq LinhasDoBanco /\ opaca \subseteq opaca'
       /\ trilha' \in Seq(Registro) /\ \A k \in DOMAIN trilha : k \in DOMAIN trilha' /\ trilha'[k] = trilha[k]
  BY <1>5 DEF TrilhaInv
<1>14. /\ EscritorServe(p, escritor'[p]) /\ RegistrosServem(trilha', p, escritor'[p])
       /\ \A w \in Escritores \ {p} : Mantidas(escritor'[p]) \cap Mantidas(escritor[w]) = {}
  BY <1>5, <1>6, <1>7, <1>8
<1>15. \A l \in LinhasDoBanco \ opaca' :
           Encadeada(trilha, l) /\ Segue(banco[l], Contada(trilha, l), p, escritor[p], l) =>
           Encadeada(trilha', l) /\ Segue(banco'[l], Contada(trilha', l), p, escritor'[p], l)
  BY <1>5, <1>6, <1>9 DEF x
<1>16. \A l \in LinhasDoBanco, j \in 1 .. 3 : ~Devendo(escritor[p], l, j)
  BY <1>10 DEF x
<1> QED
  BY <1>5, <1>6, <1>11, <1>12, <1>13, <1>14, <1>15, <1>16, TrilhaAnda

\* Before the write.
LEMMA TrilhaLer ==
    ASSUME AuditoriaAssumption, TrilhaInv, NEW p \in Escritores, A!LerAntes(p) \/ A!SemAntes(p)
    PROVE  TrilhaInv'
<1> DEFINE x == escritor[p]
<1>1. /\ x.passo = "antes" /\ x \in Escritor /\ x.passo \in PassosNoAr /\ EscritorServe(p, x)
  BY DEF A!LerAntes, A!SemAntes, TrilhaInv, PassosNoAr
<1>2. /\ x.i \in 1 .. Len(x.fila) /\ x.fila[x.i].linha \in LinhasDoBanco /\ A!Alvo(p) = x.fila[x.i]
  BY <1>1, NoAr
<1>3. PICK a \in A!Valores :
          /\ escritor' = [escritor EXCEPT ![p] = [x EXCEPT !.antes = a, !.passo = "escrever"]]
          /\ \/ opaca' = opaca /\ a = banco[x.fila[x.i].linha]
             \/ opaca' = opaca \cup {x.fila[x.i].linha}
  <2>1. CASE A!LerAntes(p)
    BY <1>2, <2>1 DEF A!LerAntes, A!Segue, TrilhaInv
  <2>2. CASE A!SemAntes(p)
    <3>1. x.antes \in A!Valores /\ [x EXCEPT !.antes = x.antes, !.passo = "escrever"] = [x EXCEPT !.passo = "escrever"]
      BY <1>1 DEF Escritor
    <3> QED
      BY <1>2, <2>2, <3>1 DEF A!SemAntes, A!Segue
  <2> QED
    BY <2>1, <2>2
<1> DEFINE r == [x EXCEPT !.antes = a, !.passo = "escrever"]
<1>4. /\ r \in Escritor /\ r.passo = "escrever" /\ r.antes = a
      /\ r.tx = x.tx /\ r.fila = x.fila /\ r.i = x.i
  BY <1>1, <1>3 DEF Escritor, PassosNoAr
<1>5. banco' = banco /\ trilha' = trilha /\ sobreposto' = sobreposto
  BY DEF A!LerAntes, A!SemAntes
<1>6. escritor' = [escritor EXCEPT ![p] = r]
  BY <1>3
<1> HIDE DEF r, x
<1>7. escritor'[p] = r /\ escritor' \in [Escritores -> Escritor] /\ \A w \in Escritores \ {p} : escritor'[w] = escritor[w]
  BY <1>4, <1>6 DEF TrilhaInv
<1>8. Escritas(r) = Escritas(x) /\ Registradas(r) = Registradas(x) /\ Mantidas(r) = Mantidas(x) /\ r.passo \in PassosNoAr
  BY <1>1, <1>4 DEF Escritas, Registradas, Mantidas, PassosNoAr
<1>9. EscritorServe(p, escritor'[p]) /\ RegistrosServem(trilha', p, escritor'[p])
  <2>1. RegistrosServem(trilha, p, x)
    BY DEF TrilhaInv, x
  <2> QED
    BY <1>1, <1>4, <1>5, <1>7, <1>8, <2>1 DEF EscritorServe, RegistrosServem
<1>10. ASSUME NEW l \in LinhasDoBanco \ opaca', NEW c, Segue(banco[l], c, p, x, l) PROVE Segue(banco[l], c, p, r, l)
  <2>1. x.fila[x.i].linha = l => a = banco[l]
    BY <1>2, <1>3, <1>10
  <2> QED
    BY <1>1, <1>4, <1>8, <1>10, <2>1 DEF Segue, SoEle
<1>11. \A l \in LinhasDoBanco, j \in 1 .. 3 : ~Devendo(escritor[p], l, j)
  BY <1>1 DEF Devendo, x
<1>12. sobreposto' \in BOOLEAN /\ (sobreposto => sobreposto')
       /\ (~sobreposto' => \A w \in Escritores \ {p} : escritor[w].passo \notin PassosNoAr)
  BY <1>1, <1>5 DEF TrilhaInv, EmSerie, x
<1>13. /\ banco' \in [LinhasDoBanco -> A!Valores] /\ opaca' \subseteq LinhasDoBanco /\ opaca \subseteq opaca'
       /\ trilha' \in Seq(Registro) /\ \A k \in DOMAIN trilha : k \in DOMAIN trilha' /\ trilha'[k] = trilha[k]
  BY <1>2, <1>3, <1>5 DEF TrilhaInv
<1>14. \A w \in Escritores \ {p} : escritor[w].passo \in PassosNoAr =>
           Mantidas(escritor'[p]) \cap Mantidas(escritor[w]) = {}
  BY <1>1, <1>7, <1>8 DEF TrilhaInv, CadaUmaSuas, x
<1>15. \A l \in LinhasDoBanco \ opaca' :
           Encadeada(trilha, l) /\ Segue(banco[l], Contada(trilha, l), p, escritor[p], l) =>
           Encadeada(trilha', l) /\ Segue(banco'[l], Contada(trilha', l), p, escritor'[p], l)
  BY <1>5, <1>7, <1>10 DEF x
<1>16. escritor[p].passo \in PassosNoAr /\ (escritor'[p].tx => escritor[p].tx)
  BY <1>1, <1>4, <1>7 DEF x
<1> QED
  BY <1>5, <1>7, <1>9, <1>11, <1>12, <1>13, <1>14, <1>15, <1>16, TrilhaAnda

LEMMA TrilhaEscrever ==
    ASSUME AuditoriaAssumption, TrilhaInv, NEW p \in Escritores, A!Escrever(p)
    PROVE  TrilhaInv'
<1> DEFINE x == escritor[p]
           l0 == x.fila[x.i].linha
           r == [x EXCEPT !.novo = <<p, x.i>>, !.passo = "registrar"]
<1>1. x.passo = "escrever" /\ x \in Escritor /\ x.passo \in PassosNoAr /\ EscritorServe(p, x) /\ p \in A!EmCurso
  BY PresasSao DEF A!Escrever, TrilhaInv, PassosNoAr
<1>2. /\ x.i \in 1 .. Len(x.fila) /\ x.i \in 1 .. 3 /\ Len(x.fila) \in 1 .. 3 /\ (~x.tx => Len(x.fila) = 1)
      /\ l0 \in LinhasDoBanco /\ A!Alvo(p) = x.fila[x.i] /\ A!Auditada(A!Alvo(p).op)
      /\ x.fila[x.i].op \in {"update", "updateMany"}
      /\ <<p, x.i>> \in A!Valores /\ <<p, x.i>> # Nulo
  BY <1>1, NoAr
<1>3. /\ escritor' = [escritor EXCEPT ![p] = r]
      /\ banco' = IF x.tx THEN banco ELSE [banco EXCEPT ![l0] = <<p, x.i>>]
      /\ opaca' = IF x.fila[x.i].op = "updateMany" \/ l0 \in A!Presas(p) THEN opaca \cup {l0} ELSE opaca
      /\ trilha' = trilha /\ sobreposto' = sobreposto /\ A!LinhaLivre(p)
  BY <1>2 DEF A!Escrever, A!Segue
<1>4. /\ r \in Escritor /\ r.passo = "registrar" /\ r.novo = <<p, x.i>> /\ r.antes = x.antes
      /\ r.tx = x.tx /\ r.fila = x.fila /\ r.i = x.i
  BY <1>1, <1>2 DEF Escritor, PassosNoAr
<1>5. A!Presas(p) = Mantidas(x) /\ \A w \in A!EmCurso \ {p} : l0 \notin Mantidas(escritor[w])
  BY <1>1, <1>2, <1>3, PresasSao DEF A!LinhaLivre
<1> HIDE DEF r, l0, x
<1>6. escritor'[p] = r /\ escritor' \in [Escritores -> Escritor] /\ \A w \in Escritores \ {p} : escritor'[w] = escritor[w]
  BY <1>3, <1>4 DEF TrilhaInv
<1>7. /\ Escritas(x) = 1 .. (x.i - 1) /\ Escritas(r) = Escritas(x) \cup {x.i}
      /\ Registradas(x) = Escritas(x) /\ Registradas(r) = Registradas(x) /\ r.passo \in PassosNoAr
  BY <1>1, <1>2, <1>4 DEF Escritas, Registradas, PassosNoAr
<1>8. Mantidas(r) \subseteq Mantidas(x) \cup {l0}
  BY <1>4, <1>7 DEF Mantidas, l0
<1>9. EscritorServe(p, escritor'[p]) /\ RegistrosServem(trilha', p, escritor'[p])
  <2>1. RegistrosServem(trilha, p, x)
    BY DEF TrilhaInv, x
  <2> QED
    BY <1>1, <1>3, <1>4, <1>6, <1>7, <2>1 DEF EscritorServe, RegistrosServem
<1>10. banco' \in [LinhasDoBanco -> A!Valores] /\ (\A l \in LinhasDoBanco \ {l0} : banco'[l] = banco[l])
       /\ banco'[l0] = IF x.tx THEN banco[l0] ELSE <<p, x.i>>
  <2>1. banco \in [LinhasDoBanco -> A!Valores]
    BY DEF TrilhaInv
  <2> QED
    BY <1>2, <1>3, <2>1
<1>11. \A l \in LinhasDoBanco, j \in 1 .. 3 : ~Devendo(escritor[p], l, j)
  BY <1>1 DEF Devendo, x
<1>12. sobreposto' \in BOOLEAN /\ (sobreposto => sobreposto')
       /\ (~sobreposto' => \A w \in Escritores \ {p} : escritor[w].passo \notin PassosNoAr)
  BY <1>1, <1>3 DEF TrilhaInv, EmSerie, x
<1>13. /\ opaca' \subseteq LinhasDoBanco /\ opaca \subseteq opaca'
       /\ trilha' \in Seq(Registro) /\ \A k \in DOMAIN trilha : k \in DOMAIN trilha' /\ trilha'[k] = trilha[k]
  BY <1>2, <1>3 DEF TrilhaInv
<1>14. \A w \in Escritores \ {p} : escritor[w].passo \in PassosNoAr =>
           Mantidas(escritor'[p]) \cap Mantidas(escritor[w]) = {}
  <2>1. \A w \in Escritores \ {p} : escritor[w].passo \in PassosNoAr => w \in A!EmCurso
    BY PresasSao
  <2>2. \A w \in Escritores \ {p} : escritor[w].passo \in PassosNoAr => Mantidas(x) \cap Mantidas(escritor[w]) = {}
    BY <1>1 DEF TrilhaInv, CadaUmaSuas, x
  <2> QED
    BY <1>5, <1>6, <1>8, <2>1, <2>2
<1>15. ASSUME NEW l \in LinhasDoBanco, banco'[l] # banco[l]
       PROVE  \E j \in 1 .. 3 : banco'[l] = <<p, j>> /\ (Registrada(trilha', l, p, j) \/ Devendo(escritor'[p], l, j))
  <2>1. l = l0 /\ ~x.tx /\ banco'[l] = <<p, x.i>>
    BY <1>10, <1>15
  <2>2. Devendo(r, l, x.i)
    BY <1>4, <2>1 DEF Devendo, l0
  <2> QED
    BY <1>2, <1>6, <2>1, <2>2
<1>16. ASSUME NEW l \in LinhasDoBanco \ opaca', NEW c, Segue(banco[l], c, p, x, l) PROVE Segue(banco'[l], c, p, r, l)
  <2>1. SoEle(banco[l], c, p, x, l)
    BY <1>1, <1>16 DEF Segue
  <2>2. CASE l = l0
    <3>1. x.fila[x.i].op = "update" /\ l0 \notin Mantidas(x)
      BY <1>2, <1>3, <1>5, <1>16, <2>2
    <3>2. \A j \in Escritas(x) : x.fila[j].linha # l
      <4>1. CASE x.tx
        BY <2>2, <3>1, <4>1 DEF Mantidas
      <4>2. CASE ~x.tx
        BY <1>2, <1>7, <4>2
      <4> QED
        BY <4>1, <4>2
    <3>3. c = banco[l] /\ x.antes = banco[l]
      BY <1>1, <2>1, <2>2, <3>1, <3>2 DEF SoEle, l0
    <3>4. banco'[l] = IF x.tx THEN banco[l] ELSE <<p, x.i>>
      BY <1>10, <2>2
    <3>5. \A j \in Escritas(r) : x.fila[j].linha = l <=> j = x.i
      BY <1>7, <2>2, <3>2 DEF l0
    <3>6. \A j \in Registradas(r) : x.fila[j].linha # l
      BY <1>7, <3>2
    <3>7. x.i \in Escritas(r) /\ x.fila[x.i].linha = l
      BY <1>7, <2>2 DEF l0
    <3> QED
      BY <1>4, <1>7, <3>3, <3>4, <3>5, <3>6, <3>7 DEF Segue, SoEle
  <2>3. CASE l # l0
    <3>1. banco'[l] = banco[l] /\ x.fila[x.i].linha # l
      BY <1>10, <2>3 DEF l0
    <3> QED
      BY <1>1, <1>4, <1>7, <2>1, <3>1 DEF Segue, SoEle
  <2> QED
    BY <2>2, <2>3
<1>17. \A l \in LinhasDoBanco \ opaca' :
           Encadeada(trilha, l) /\ Segue(banco[l], Contada(trilha, l), p, escritor[p], l) =>
           Encadeada(trilha', l) /\ Segue(banco'[l], Contada(trilha', l), p, escritor'[p], l)
  BY <1>3, <1>6, <1>16 DEF x
<1>18. escritor[p].passo \in PassosNoAr /\ (escritor'[p].tx => escritor[p].tx)
  BY <1>1, <1>4, <1>6 DEF x
<1> QED
  BY <1>6, <1>9, <1>10, <1>11, <1>12, <1>13, <1>14, <1>15, <1>17, <1>18, TrilhaAnda

LEMMA TrilhaRegistrar ==
    ASSUME AuditoriaAssumption, TrilhaInv, NEW p \in Escritores, A!Registrar(p)
    PROVE  TrilhaInv'
<1> DEFINE x == escritor[p]
           l0 == x.fila[x.i].linha
           r == [x EXCEPT !.passo = "seguir"]
           rec == [linha |-> l0, antes |-> x.antes, depois |-> <<p, x.i>>]
<1>1. x.passo = "registrar" /\ x \in Escritor /\ x.passo \in PassosNoAr /\ EscritorServe(p, x) /\ x.novo = <<p, x.i>>
  BY DEF A!Registrar, TrilhaInv, PassosNoAr, EscritorServe
<1>2. /\ x.i \in 1 .. Len(x.fila) /\ x.i \in 1 .. 3 /\ Len(x.fila) \in 1 .. 3
      /\ l0 \in LinhasDoBanco /\ A!Alvo(p) = x.fila[x.i] /\ <<p, x.i>> \in A!Valores
  BY <1>1, NoAr
<1>3. /\ escritor' = [escritor EXCEPT ![p] = r] /\ trilha' = Append(trilha, rec)
      /\ banco' = banco /\ opaca' = opaca /\ sobreposto' = sobreposto
  BY <1>1, <1>2 DEF A!Registrar, A!Segue
<1>4. /\ r \in Escritor /\ r.passo = "seguir" /\ r.novo = x.novo /\ r.antes = x.antes
      /\ r.tx = x.tx /\ r.fila = x.fila /\ r.i = x.i
  BY <1>1, <1>2 DEF Escritor, PassosNoAr
<1>5. rec \in Registro /\ rec.linha = l0 /\ rec.antes = x.antes /\ rec.depois = <<p, x.i>>
  BY <1>1, <1>2 DEF Registro, Escritor
<1> HIDE DEF r, rec, l0, x
<1>6. escritor'[p] = r /\ escritor' \in [Escritores -> Escritor] /\ \A w \in Escritores \ {p} : escritor'[w] = escritor[w]
  BY <1>3, <1>4 DEF TrilhaInv
<1>7. /\ Escritas(r) = Escritas(x) /\ x.i \in Escritas(x)
      /\ Registradas(r) = Registradas(x) \cup {x.i} /\ Registradas(r) = Escritas(x) /\ r.passo \in PassosNoAr
  BY <1>1, <1>2, <1>4 DEF Escritas, Registradas, PassosNoAr
<1>8. /\ trilha \in Seq(Registro) /\ Len(trilha) \in Nat
      /\ trilha' \in Seq(Registro) /\ Len(trilha') = Len(trilha) + 1
      /\ DOMAIN trilha = 1 .. Len(trilha) /\ DOMAIN trilha' = 1 .. Len(trilha) + 1
      /\ trilha'[Len(trilha) + 1] = rec
      /\ \A k \in DOMAIN trilha : k \in DOMAIN trilha' /\ trilha'[k] = trilha[k]
  <2>1. trilha \in Seq(Registro)
    BY DEF TrilhaInv
  <2> QED
    BY <1>3, <1>5, <2>1
<1>9. Registrada(trilha', l0, p, x.i) /\ \A l, j : Registrada(trilha, l, p, j) => Registrada(trilha', l, p, j)
  <2>1. Len(trilha) + 1 \in DOMAIN trilha'
    BY <1>8
  <2> QED
    BY <1>5, <1>8, <2>1 DEF Registrada
<1>10. EscritorServe(p, escritor'[p]) /\ RegistrosServem(trilha', p, escritor'[p])
  <2>1. RegistrosServem(trilha, p, x)
    BY DEF TrilhaInv, x
  <2>2. \A j \in Registradas(r) : Registrada(trilha', x.fila[j].linha, p, j)
    <3>1. \A j \in Registradas(x) : Registrada(trilha, x.fila[j].linha, p, j)
      BY <1>1, <2>1 DEF RegistrosServem
    <3> QED
      BY <1>7, <1>9, <3>1 DEF l0
  <2> QED
    BY <1>1, <1>4, <1>6, <2>2 DEF EscritorServe, RegistrosServem
<1>11. \A l \in LinhasDoBanco, j \in 1 .. 3 : Devendo(escritor[p], l, j) => Registrada(trilha', l, p, j)
  BY <1>9 DEF Devendo, x, l0
<1>12. sobreposto' \in BOOLEAN /\ (sobreposto => sobreposto')
       /\ (~sobreposto' => \A w \in Escritores \ {p} : escritor[w].passo \notin PassosNoAr)
  BY <1>1, <1>3 DEF TrilhaInv, EmSerie, x
<1>13. banco' \in [LinhasDoBanco -> A!Valores] /\ opaca' \subseteq LinhasDoBanco /\ opaca \subseteq opaca'
  BY <1>3 DEF TrilhaInv
<1>14. \A w \in Escritores \ {p} : escritor[w].passo \in PassosNoAr =>
           Mantidas(escritor'[p]) \cap Mantidas(escritor[w]) = {}
  <2>1. Mantidas(r) = Mantidas(x)
    BY <1>4, <1>7 DEF Mantidas
  <2> QED
    BY <1>1, <1>6, <2>1 DEF TrilhaInv, CadaUmaSuas, x
<1>15. ASSUME NEW l \in LinhasDoBanco, Encadeada(trilha, l), Segue(banco[l], Contada(trilha, l), p, x, l)
       PROVE  Encadeada(trilha', l) /\ Segue(banco[l], Contada(trilha', l), p, r, l)
  <2>1. SoEle(banco[l], Contada(trilha, l), p, x, l)
    BY <1>1, <1>15 DEF Segue
  <2>2. /\ \A n \in 0 .. Len(trilha) : A!Contado(trilha', l, n) = A!Contado(trilha, l, n)
        /\ Contada(trilha', l) = IF l0 = l THEN <<p, x.i>> ELSE Contada(trilha, l)
    <3>1. /\ \A n \in 0 .. Len(trilha) : A!Contado(Append(trilha, rec), l, n) = A!Contado(trilha, l, n)
          /\ A!Contado(Append(trilha, rec), l, Len(trilha) + 1)
                 = IF rec.linha = l THEN rec.depois ELSE A!Contado(trilha, l, Len(trilha))
      BY <1>5, <1>8, ContadoFica
    <3>2. trilha' = Append(trilha, rec) /\ Len(trilha') = Len(trilha) + 1
      BY <1>3, <1>8
    <3> QED
      BY <1>5, <3>1, <3>2 DEF Contada
  <2>3. Encadeada(trilha', l)
    <3>1. SUFFICES ASSUME NEW k \in DOMAIN trilha', trilha'[k].linha = l
                   PROVE  trilha'[k].antes = A!Contado(trilha', l, k - 1)
      BY DEF Encadeada
    <3>2. CASE k \in DOMAIN trilha
      <4>1. k - 1 \in 0 .. Len(trilha) /\ trilha'[k] = trilha[k]
        BY <1>8, <3>2
      <4> QED
        BY <1>15, <2>2, <3>1, <3>2, <4>1 DEF Encadeada
    <3>3. CASE k \notin DOMAIN trilha
      <4>1. k = Len(trilha) + 1 /\ k - 1 = Len(trilha) /\ Len(trilha) \in 0 .. Len(trilha)
        BY <1>8, <3>3
      <4>2. trilha'[k] = rec /\ l0 = l
        BY <1>5, <1>8, <3>1, <4>1
      <4>3. x.antes = Contada(trilha, l)
        BY <1>1, <2>1, <4>2 DEF SoEle, l0
      <4> QED
        BY <1>5, <2>2, <4>1, <4>2, <4>3 DEF Contada
    <3> QED
      BY <3>2, <3>3
  <2>4. SoEle(banco[l], Contada(trilha', l), p, r, l)
    <3>1. CASE l = l0
      <4>1. \A j \in Registradas(r) : x.fila[j].linha = l => j = x.i
        BY <1>7, <2>1, <3>1 DEF SoEle, l0
      <4>2. x.i \in Escritas(r) /\ x.fila[x.i].linha = l /\ Contada(trilha', l) = <<p, x.i>>
        BY <1>7, <2>2, <3>1 DEF l0
      <4> QED
        BY <1>1, <1>4, <1>7, <2>1, <4>1, <4>2 DEF SoEle
    <3>2. CASE l # l0
      <4>1. x.fila[x.i].linha # l /\ Contada(trilha', l) = Contada(trilha, l)
        BY <2>2, <3>2 DEF l0
      <4> QED
        BY <1>1, <1>4, <1>7, <2>1, <4>1 DEF SoEle
    <3> QED
      BY <3>1, <3>2
  <2> QED
    BY <1>7, <2>3, <2>4 DEF Segue
<1>16. \A l \in LinhasDoBanco \ opaca' :
           Encadeada(trilha, l) /\ Segue(banco[l], Contada(trilha, l), p, escritor[p], l) =>
           Encadeada(trilha', l) /\ Segue(banco'[l], Contada(trilha', l), p, escritor'[p], l)
  BY <1>3, <1>6, <1>15 DEF x
<1>17. escritor[p].passo \in PassosNoAr /\ (escritor'[p].tx => escritor[p].tx)
  BY <1>1, <1>4, <1>6 DEF x
<1>18. \A l \in LinhasDoBanco : banco'[l] = banco[l]
  BY <1>3
<1> QED
  BY <1>6, <1>8, <1>10, <1>11, <1>12, <1>13, <1>14, <1>16, <1>17, <1>18, TrilhaAnda

\* The next write of the list.
LEMMA TrilhaProxima ==
    ASSUME AuditoriaAssumption, TrilhaInv, NEW p \in Escritores, A!Seguir(p),
           escritor[p].i # Len(escritor[p].fila)
    PROVE  TrilhaInv'
<1> DEFINE x == escritor[p]
           m == A!Primeiro(x.fila[x.i + 1].op)
           r == [x EXCEPT !.i = @ + 1, !.passo = m, !.antes = Nulo, !.novo = Nulo]
<1>1. x.passo = "seguir" /\ x \in Escritor /\ x.passo \in PassosNoAr /\ EscritorServe(p, x)
  BY DEF A!Seguir, TrilhaInv, PassosNoAr
<1>2. /\ x.fila \in Roteiros /\ x.i \in 1 .. Len(x.fila) /\ x.i \in 1 .. 3 /\ Len(x.fila) \in 1 .. 3
      /\ x.i + 1 \in 1 .. Len(x.fila) /\ x.i + 1 \in 0 .. 3 /\ (~x.tx => Len(x.fila) = 1)
  <2>1. /\ x.fila \in Roteiros /\ x.i \in 1 .. Len(x.fila) /\ x.i \in 1 .. 3 /\ Len(x.fila) \in 1 .. 3
        /\ (~x.tx => Len(x.fila) = 1) /\ x.i # Len(x.fila)
    BY <1>1, NoAr
  <2>2. \A n \in 1 .. 3 : \A i \in 1 .. n : i # n => i + 1 \in 1 .. n /\ i + 1 \in 0 .. 3
    OBVIOUS
  <2> HIDE DEF x
  <2> QED
    BY <2>1, <2>2
<1>3. /\ escritor' = [escritor EXCEPT ![p] = r] /\ trilha' = trilha
      /\ banco' = banco /\ opaca' = opaca /\ sobreposto' = sobreposto
  BY DEF A!Seguir, A!Segue
<1>4. m \in {"antes", "escrever"} /\ (x.fila[x.i + 1].op = "update" => m = "antes")
  BY DEF A!Primeiro, A!TemAntes
<1>5. /\ r \in Escritor /\ r.passo = m /\ r.tx = x.tx /\ r.fila = x.fila /\ r.i = x.i + 1
  <2>1. Nulo \in A!Valores /\ {"antes", "escrever"} \subseteq PassosNoAr
    BY DEF A!Valores, PassosNoAr
  <2>2. \A y \in Escritor : \A q \in PassosNoAr : y.i + 1 \in 0 .. 3 =>
            LET z == [y EXCEPT !.i = @ + 1, !.passo = q, !.antes = Nulo, !.novo = Nulo]
            IN  z \in Escritor /\ z.passo = q /\ z.tx = y.tx /\ z.fila = y.fila /\ z.i = y.i + 1
    BY <2>1 DEF Escritor
  <2> HIDE DEF m, x
  <2> QED
    BY <1>1, <1>2, <1>4, <2>1, <2>2
<1> HIDE DEF r, m, x
<1>6. escritor'[p] = r /\ escritor' \in [Escritores -> Escritor] /\ \A w \in Escritores \ {p} : escritor'[w] = escritor[w]
  BY <1>3, <1>5 DEF TrilhaInv
<1>7. /\ Escritas(r) = Escritas(x) /\ Registradas(r) = Registradas(x) /\ r.passo \in PassosNoAr
      /\ r.passo \notin {"chegar", "registrar", "seguir"}
  BY <1>1, <1>2, <1>4, <1>5 DEF Escritas, Registradas, PassosNoAr
<1>8. EscritorServe(p, escritor'[p]) /\ RegistrosServem(trilha', p, escritor'[p])
  <2>1. RegistrosServem(trilha, p, x)
    BY DEF TrilhaInv, x
  <2> QED
    BY <1>1, <1>2, <1>3, <1>5, <1>6, <1>7, <2>1 DEF EscritorServe, RegistrosServem
<1>9. \A l, v, c : Segue(v, c, p, x, l) => Segue(v, c, p, r, l)
  BY <1>1, <1>4, <1>5, <1>7 DEF Segue, SoEle
<1>10. \A l \in LinhasDoBanco, j \in 1 .. 3 : ~Devendo(escritor[p], l, j)
  BY <1>1 DEF Devendo, x
<1>11. sobreposto' \in BOOLEAN /\ (sobreposto => sobreposto')
       /\ (~sobreposto' => \A w \in Escritores \ {p} : escritor[w].passo \notin PassosNoAr)
  BY <1>1, <1>3 DEF TrilhaInv, EmSerie, x
<1>12. /\ banco' \in [LinhasDoBanco -> A!Valores] /\ opaca' \subseteq LinhasDoBanco /\ opaca \subseteq opaca'
       /\ trilha' \in Seq(Registro) /\ \A k \in DOMAIN trilha : k \in DOMAIN trilha' /\ trilha'[k] = trilha[k]
  BY <1>3 DEF TrilhaInv
<1>13. \A w \in Escritores \ {p} : escritor[w].passo \in PassosNoAr =>
           Mantidas(escritor'[p]) \cap Mantidas(escritor[w]) = {}
  <2>1. Mantidas(r) = Mantidas(x)
    BY <1>5, <1>7 DEF Mantidas
  <2> QED
    BY <1>1, <1>6, <2>1 DEF TrilhaInv, CadaUmaSuas, x
<1>14. \A l \in LinhasDoBanco \ opaca' :
           Encadeada(trilha, l) /\ Segue(banco[l], Contada(trilha, l), p, escritor[p], l) =>
           Encadeada(trilha', l) /\ Segue(banco'[l], Contada(trilha', l), p, escritor'[p], l)
  BY <1>3, <1>6, <1>9 DEF x
<1>15. escritor[p].passo \in PassosNoAr /\ (escritor'[p].tx => escritor[p].tx)
  BY <1>1, <1>5, <1>6 DEF x
<1>16. \A l \in LinhasDoBanco : banco'[l] = banco[l]
  BY <1>3
<1> QED
  BY <1>6, <1>8, <1>10, <1>11, <1>12, <1>13, <1>14, <1>15, <1>16, TrilhaAnda

\* The end, and the commit of a transaction: the last of its writes of a row is what stays.
LEMMA TrilhaFim ==
    ASSUME AuditoriaAssumption, TrilhaInv, NEW p \in Escritores, A!Seguir(p),
           escritor[p].i = Len(escritor[p].fila)
    PROVE  TrilhaInv'
<1> DEFINE x == escritor[p]
           r == [x EXCEPT !.passo = "feito"]
           Escreve(l) == {j \in DOMAIN x.fila : x.fila[j].linha = l}
           Ultima(l) == {j \in DOMAIN x.fila : x.fila[j].linha = l /\ \A k \in DOMAIN x.fila : x.fila[k].linha = l => k <= j}
           u(l) == CHOOSE j \in Ultima(l) : TRUE
<1>1. x.passo = "seguir" /\ x \in Escritor /\ x.passo \in PassosNoAr /\ EscritorServe(p, x)
  BY DEF A!Seguir, TrilhaInv, PassosNoAr
<1>2. /\ x.fila \in Roteiros /\ x.i = Len(x.fila) /\ Len(x.fila) \in 1 .. 3 /\ DOMAIN x.fila = 1 .. x.i
      /\ (~x.tx => x.i = 1)
  <2>1. /\ x.fila \in Roteiros /\ Len(x.fila) \in 1 .. 3 /\ DOMAIN x.fila = 1 .. Len(x.fila)
        /\ (~x.tx => Len(x.fila) = 1)
    BY <1>1, NoAr
  <2> QED
    BY <2>1
<1>3. /\ escritor' = [escritor EXCEPT ![p] = r] /\ trilha' = trilha /\ opaca' = opaca /\ sobreposto' = sobreposto
      /\ banco' = IF x.tx THEN [l \in LinhasDoBanco |-> IF Ultima(l) = {} THEN banco[l] ELSE <<p, u(l)>>] ELSE banco
  BY DEF A!Seguir, A!Segue
<1>4. /\ r \in Escritor /\ r.passo = "feito" /\ r.tx = x.tx /\ r.fila = x.fila /\ r.i = x.i
  BY <1>1 DEF Escritor, PassosNoAr
<1>5. /\ Escritas(x) = 1 .. x.i /\ Registradas(x) = 1 .. x.i
      /\ Registradas(r) = 1 .. x.i /\ r.passo \notin PassosNoAr /\ DOMAIN x.fila \subseteq 1 .. 3
  BY <1>1, <1>2, <1>4 DEF Escritas, Registradas, PassosNoAr
<1>6. ASSUME NEW l \in LinhasDoBanco
      PROVE  /\ Escreve(l) = {} => Ultima(l) = {}
             /\ Escreve(l) # {} => Ultima(l) # {} /\ u(l) \in Ultima(l) /\ u(l) \in Escreve(l)
  <2>1. Ultima(l) \subseteq Escreve(l)
    OBVIOUS
  <2>2. Escreve(l) # {} => \E j \in Escreve(l) : \A k \in Escreve(l) : k <= j
    <3>1. Escreve(l) \subseteq 1 .. x.i /\ x.i \in Nat
      BY <1>2
    <3> HIDE DEF Escreve
    <3> QED
      BY <3>1, MaiorDe
  <2>3. Escreve(l) # {} => Ultima(l) # {}
    BY <2>2
  <2> HIDE DEF Ultima, Escreve
  <2> QED
    BY <2>1, <2>3
<1> HIDE DEF r, x, u, Ultima
<1>7. escritor'[p] = r /\ escritor' \in [Escritores -> Escritor] /\ \A w \in Escritores \ {p} : escritor'[w] = escritor[w]
  BY <1>3, <1>4 DEF TrilhaInv
<1>8. /\ banco' \in [LinhasDoBanco -> A!Valores]
      /\ \A l \in LinhasDoBanco :
            banco'[l] = IF x.tx /\ Escreve(l) # {} THEN <<p, u(l)>> ELSE banco[l]
  <2>1. banco \in [LinhasDoBanco -> A!Valores]
    BY DEF TrilhaInv
  <2>2. ASSUME NEW l \in LinhasDoBanco, Escreve(l) # {} PROVE <<p, u(l)>> \in A!Valores
    <3>1. u(l) \in 1 .. 3
      BY <1>5, <1>6, <2>2
    <3> QED
      BY <3>1 DEF A!Valores
  <2>3. CASE x.tx
    <3>1. banco' = [l \in LinhasDoBanco |-> IF Ultima(l) = {} THEN banco[l] ELSE <<p, u(l)>>]
      BY <1>3, <2>3
    <3>2. \A l \in LinhasDoBanco : Ultima(l) = {} <=> Escreve(l) = {}
      BY <1>6
    <3> HIDE DEF Escreve
    <3>3. \A l \in LinhasDoBanco : (IF Ultima(l) = {} THEN banco[l] ELSE <<p, u(l)>>) \in A!Valores
      BY <2>1, <2>2, <3>2
    <3> QED
      BY <2>3, <3>1, <3>2, <3>3
  <2>4. CASE ~x.tx
    BY <1>3, <2>1, <2>4
  <2> QED
    BY <2>3, <2>4
<1>9. RegistrosServem(trilha, p, x)
  BY DEF TrilhaInv, x
<1>10. EscritorServe(p, escritor'[p]) /\ RegistrosServem(trilha', p, escritor'[p])
  BY <1>1, <1>2, <1>3, <1>4, <1>5, <1>7, <1>9 DEF EscritorServe, RegistrosServem
<1>11. ASSUME NEW l \in LinhasDoBanco, banco'[l] # banco[l]
       PROVE  \E j \in 1 .. 3 : banco'[l] = <<p, j>> /\ Registrada(trilha', l, p, j)
  <2>1. banco'[l] = <<p, u(l)>> /\ Escreve(l) # {}
    BY <1>8, <1>11
  <2>2. u(l) \in 1 .. x.i /\ u(l) \in 1 .. 3 /\ x.fila[u(l)].linha = l
    BY <1>2, <1>5, <1>6, <2>1
  <2>3. Registrada(trilha', l, p, u(l))
    BY <1>1, <1>3, <1>5, <1>9, <2>2 DEF RegistrosServem
  <2> QED
    BY <2>1, <2>2, <2>3
<1>12. \A l \in LinhasDoBanco, j \in 1 .. 3 : ~Devendo(escritor[p], l, j)
  BY <1>1 DEF Devendo, x
<1>13. sobreposto' \in BOOLEAN /\ (sobreposto => sobreposto')
       /\ (~sobreposto' => \A w \in Escritores \ {p} : escritor[w].passo \notin PassosNoAr)
  BY <1>1, <1>3 DEF TrilhaInv, EmSerie, x
<1>14. /\ opaca' \subseteq LinhasDoBanco /\ opaca \subseteq opaca'
       /\ trilha' \in Seq(Registro) /\ \A k \in DOMAIN trilha : k \in DOMAIN trilha' /\ trilha'[k] = trilha[k]
  BY <1>3 DEF TrilhaInv
<1>15. ASSUME NEW l \in LinhasDoBanco, NEW c, Segue(banco[l], c, p, x, l) PROVE Segue(banco'[l], c, p, r, l)
  <2>1. SoEle(banco[l], c, p, x, l)
    BY <1>1, <1>15 DEF Segue
  <2>2. CASE Escreve(l) = {}
    <3>1. banco'[l] = banco[l] /\ \A j \in Escritas(x) : x.fila[j].linha # l
      BY <1>2, <1>5, <1>8, <2>2
    <3> QED
      BY <1>5, <2>1, <3>1 DEF Segue, SoEle
  <2>3. CASE Escreve(l) # {}
    <3>1. u(l) \in 1 .. x.i /\ x.fila[u(l)].linha = l
      BY <1>2, <1>6, <2>3
    <3>2. c = <<p, u(l)>>
      BY <1>5, <2>1, <3>1 DEF SoEle
    <3>3. CASE x.tx
      BY <1>5, <1>8, <2>3, <3>2, <3>3 DEF Segue
    <3>4. CASE ~x.tx
      <4>1. u(l) = x.i
        BY <1>2, <3>1, <3>4
      <4>2. banco[l] = <<p, x.i>>
        BY <1>1, <2>1, <3>1, <3>4, <4>1 DEF SoEle
      <4> QED
        BY <1>5, <1>8, <3>2, <3>4, <4>1, <4>2 DEF Segue
    <3> QED
      BY <3>3, <3>4
  <2> QED
    BY <2>2, <2>3
<1>16. \A l \in LinhasDoBanco \ opaca' :
           Encadeada(trilha, l) /\ Segue(banco[l], Contada(trilha, l), p, escritor[p], l) =>
           Encadeada(trilha', l) /\ Segue(banco'[l], Contada(trilha', l), p, escritor'[p], l)
  BY <1>3, <1>7, <1>15 DEF x
<1>17. escritor[p].passo \in PassosNoAr /\ escritor'[p].passo \notin PassosNoAr
  BY <1>1, <1>5, <1>7 DEF x
<1> QED
  BY <1>7, <1>8, <1>10, <1>11, <1>12, <1>13, <1>14, <1>16, <1>17, TrilhaAnda

LEMMA TrilhaFalhar ==
    ASSUME AuditoriaAssumption, TrilhaInv, NEW p \in Escritores, A!Falhar(p)
    PROVE  TrilhaInv'
<1> DEFINE x == escritor[p]
           r == [x EXCEPT !.passo = "falhou"]
           O == {x.fila[j].linha : j \in 1 .. x.i}
<1>1. x \in Escritor /\ x.passo \in PassosNoAr /\ EscritorServe(p, x)
  BY PresasSao DEF A!Falhar, TrilhaInv
<1>2. /\ x.i \in 1 .. Len(x.fila) /\ x.i \in 1 .. 3 /\ Len(x.fila) \in 1 .. 3
      /\ \A k \in 1 .. Len(x.fila) : x.fila[k].linha \in LinhasDoBanco
  BY <1>1, NoAr
<1>3. /\ escritor' = [escritor EXCEPT ![p] = r] /\ opaca' = opaca \cup O
      /\ trilha' = trilha /\ banco' = banco /\ sobreposto' = sobreposto
  BY DEF A!Falhar, A!Segue
<1>4. /\ r \in Escritor /\ r.passo = "falhou" /\ r.tx = x.tx /\ r.fila = x.fila /\ r.i = x.i
  BY <1>1 DEF Escritor, PassosNoAr
<1>5. O \subseteq LinhasDoBanco /\ \A j \in 1 .. x.i : x.fila[j].linha \in O
  BY <1>2
<1> HIDE DEF r, x, O
<1>6. escritor'[p] = r /\ escritor' \in [Escritores -> Escritor] /\ \A w \in Escritores \ {p} : escritor'[w] = escritor[w]
  BY <1>3, <1>4 DEF TrilhaInv
<1>7. Escritas(x) \subseteq 1 .. x.i /\ r.passo \notin PassosNoAr
  BY <1>4 DEF Escritas, PassosNoAr
<1>8. EscritorServe(p, escritor'[p]) /\ RegistrosServem(trilha', p, escritor'[p])
  BY <1>1, <1>4, <1>6 DEF EscritorServe, RegistrosServem, PassosNoAr
<1>9. \A l \in LinhasDoBanco, j \in 1 .. 3 : Devendo(escritor[p], l, j) => Devendo(escritor'[p], l, j)
  BY <1>4, <1>6 DEF Devendo, x
<1>10. sobreposto' \in BOOLEAN /\ (sobreposto => sobreposto')
       /\ (~sobreposto' => \A w \in Escritores \ {p} : escritor[w].passo \notin PassosNoAr)
  BY <1>1, <1>3 DEF TrilhaInv, EmSerie, x
<1>11. /\ banco' \in [LinhasDoBanco -> A!Valores] /\ opaca' \subseteq LinhasDoBanco /\ opaca \subseteq opaca'
       /\ trilha' \in Seq(Registro) /\ \A k \in DOMAIN trilha : k \in DOMAIN trilha' /\ trilha'[k] = trilha[k]
  BY <1>3, <1>5 DEF TrilhaInv
<1>12. ASSUME NEW l \in LinhasDoBanco \ opaca', NEW c, Segue(banco[l], c, p, x, l) PROVE Segue(banco[l], c, p, r, l)
  <2>1. \A j \in Escritas(x) : x.fila[j].linha # l
    BY <1>3, <1>5, <1>7
  <2> QED
    BY <1>1, <1>7, <1>12, <2>1 DEF Segue, SoEle
<1>13. \A l \in LinhasDoBanco \ opaca' :
           Encadeada(trilha, l) /\ Segue(banco[l], Contada(trilha, l), p, escritor[p], l) =>
           Encadeada(trilha', l) /\ Segue(banco'[l], Contada(trilha', l), p, escritor'[p], l)
  BY <1>3, <1>6, <1>12 DEF x
<1>14. escritor[p].passo \in PassosNoAr /\ escritor'[p].passo \notin PassosNoAr
  BY <1>1, <1>6, <1>7 DEF x
<1>15. \A l \in LinhasDoBanco : banco'[l] = banco[l]
  BY <1>3
<1> QED
  BY <1>6, <1>8, <1>9, <1>10, <1>11, <1>13, <1>14, <1>15, TrilhaAnda

LEMMA TrilhaPasso ==
    ASSUME AuditoriaAssumption, TrilhaInv, [A!Next]_auditoria PROVE TrilhaInv'
<1>1. CASE UNCHANGED auditoria
  BY <1>1 DEF auditoria, TrilhaInv, EmSerie
<1>2. ASSUME NEW p \in Escritores, NEW roteiro \in Roteiros, NEW tx \in BOOLEAN, A!Chegar(p, roteiro, tx)
      PROVE  TrilhaInv'
  BY <1>2, TrilhaChegar
<1>3. ASSUME NEW p \in Escritores, A!Andar(p) PROVE TrilhaInv'
  <2>1. CASE A!LerAntes(p) \/ A!SemAntes(p)
    BY <2>1, TrilhaLer
  <2>2. CASE A!Escrever(p)
    BY <2>2, TrilhaEscrever
  <2>3. CASE A!Registrar(p)
    BY <2>3, TrilhaRegistrar
  <2>4. CASE A!Seguir(p)
    BY <2>4, TrilhaProxima, TrilhaFim
  <2> QED
    BY <1>3, <2>1, <2>2, <2>3, <2>4 DEF A!Andar
<1>4. ASSUME NEW p \in Escritores, A!Falhar(p) PROVE TrilhaInv'
  BY <1>4, TrilhaFalhar
<1> QED
  BY <1>1, <1>2, <1>3, <1>4 DEF A!Next

-----------------------------------------------------------------------------
\* What the screens show and what is bought from them.
Combos == [origem : {"DIGITAL", "FISICO"}, chances : Nat \ {0}, preco : Nat]
Edicoes ==
    [versao : 0 .. MaxVersoes, combos : Conjuntos, valorCartela : Nat,
     aberta : BOOLEAN, manutencao : BOOLEAN, vencida : BOOLEAN]
Canal == {"LOJA", "POS", "WHATSAPP", "PAINEL"}
Origens == {"DIGITAL", "FISICO", "POS"}
CompraLida ==
    [passo : {"lida", "criada", "aprovada"}, canal : Canal, origem : Origens, chances : Nat \ {0},
     quantidade : 1 .. MaxQuantidade, total : Nat, visto : Nat, vista : 0 .. MaxVersoes,
     lida : 0 .. MaxVersoes, parada : BOOLEAN]

\* The screen and the purchase remember the version that they read: while it is the
\* edition's, the screen is in its showcase and the purchase can be delivered.
TelaServe(o) ==
    /\ o.canal \in Canal /\ o.origem \in Origens /\ o.preco \in Nat
    /\ o.versao \in 0 .. MaxVersoes /\ o.versao <= edicaoVista.versao
    /\ o.canal \in {"LOJA", "WHATSAPP"} => o.origem = "DIGITAL"
    /\ o.canal = "WHATSAPP" => o.chances \in Nat \ {0}
    /\ o.versao = edicaoVista.versao => o \in V!Vitrine
CompraServe(v) ==
    /\ v \in CompraLida /\ v.vista <= v.lida /\ v.lida <= edicaoVista.versao
    /\ \/ v.total = v.quantidade * v.visto
       \/ v.lida # v.vista /\ v.canal # "LOJA"
    /\ v.lida = edicaoVista.versao /\ ~V!SemCombo(v) =>
           V!Configuracao(edicaoVista.combos, v.origem, v.chances) # {}
VitrineInv ==
    /\ edicaoVista \in Edicoes /\ edicaoVista.valorCartela \in V!Legado(edicaoVista.combos)
    /\ tela # Nulo => TelaServe(tela)
    /\ compra # Nulo => CompraServe(compra)

\* The price of one card, where no combo has one chance, is a natural too.
LEMMA LegadoTipado ==
    ASSUME VitrineAssumption, NEW combos \in Conjuntos
    PROVE  V!Legado(combos) \subseteq Nat
<1>1. combos # {} /\ combos \subseteq Combos
  BY DEF VitrineAssumption, Combos
<1>2. \A S : S \subseteq Nat /\ S # {} => V!Min(S) \in S
  <2> SUFFICES ASSUME NEW S, S \subseteq Nat, S # {} PROVE V!Min(S) \in S
    OBVIOUS
  <2>1. PICK t \in S : \A y \in S : ~(y < t)
    BY MenorDeTodos
  <2>2. \A y \in S : t <= y
    BY <2>1
  <2> QED
    BY <2>2 DEF V!Min
<1> DEFINE menor == V!Min({c.chances : c \in combos})
           Precos == {c.preco : c \in V!DeChances(combos, menor)}
<1>3. {c.chances : c \in combos} \subseteq Nat /\ {c.chances : c \in combos} # {}
  BY <1>1 DEF Combos
<1>4. menor \in {c.chances : c \in combos}
  BY <1>2, <1>3
<1>5. menor \in Nat \ {0}
  BY <1>1, <1>4 DEF Combos
<1>6. Precos \subseteq Nat /\ Precos # {}
  <2>1. PICK c \in combos : c.chances = menor
    BY <1>4
  <2> HIDE DEF menor
  <2>2. c \in V!DeChances(combos, menor) /\ V!DeChances(combos, menor) \subseteq Combos
    BY <1>1, <2>1 DEF V!DeChances
  <2>3. \A x \in Combos : x.preco \in Nat
    BY DEF Combos
  <2> QED
    BY <2>2, <2>3
<1>7. V!Min(Precos) \in Nat
  BY <1>2, <1>6
<1>8. V!Min(Precos) \div menor \in Nat
  <2> HIDE DEF menor, Precos
  <2> QED
    BY <1>5, <1>7
<1>9. {c.preco : c \in V!DeChances(combos, 1)} \subseteq Nat
  BY <1>1 DEF Combos, V!DeChances
<1>10. CASE V!DeChances(combos, 1) # {}
  BY <1>9, <1>10 DEF V!Legado
<1>11. CASE V!DeChances(combos, 1) = {}
  <2>1. V!Legado(combos) = {V!Min(Precos) \div menor}
    BY <1>11 DEF V!Legado
  <2> QED
    BY <1>8, <2>1
<1> QED
  BY <1>10, <1>11

LEMMA EdicaoTipada ==
    ASSUME VitrineAssumption, VitrineInv
    PROVE  /\ edicaoVista.combos \subseteq Combos /\ edicaoVista.combos # {}
           /\ edicaoVista.combos \in Conjuntos
           /\ edicaoVista.valorCartela \in Nat /\ edicaoVista.versao \in 0 .. MaxVersoes
           /\ {edicaoVista.aberta, edicaoVista.manutencao, edicaoVista.vencida} \subseteq BOOLEAN
           /\ \A c, d \in edicaoVista.combos : c.origem = d.origem /\ c.chances = d.chances => c = d
           /\ \A c \in edicaoVista.combos : V!Id(c, edicaoVista.versao) # Nulo
<1>1. edicaoVista.combos \in Conjuntos /\ edicaoVista.versao \in 0 .. MaxVersoes
  BY DEF VitrineInv, Edicoes
<1>2. /\ edicaoVista.valorCartela \in Nat
      /\ {edicaoVista.aberta, edicaoVista.manutencao, edicaoVista.vencida} \subseteq BOOLEAN
  BY DEF VitrineInv, Edicoes
<1>3. \A c \in edicaoVista.combos : V!Id(c, edicaoVista.versao) # Nulo
  BY <1>1 DEF VitrineAssumption, V!Id
<1> QED
  BY <1>1, <1>2, <1>3 DEF VitrineAssumption, Combos

\* A purchase reads a combo of the origin of its screen or, on WhatsApp, the price of one card.
LEMMA LeituraDeCombo ==
    ASSUME VitrineAssumption, VitrineInv, NEW o, NEW q, NEW v \in V!Leituras(o, q), TelaServe(o)
    PROVE  \/ \E c \in edicaoVista.combos :
                 /\ c.origem = V!OrigemDoCombo(o.origem) /\ v = V!Venda(o, c.chances, c.preco, q)
                 /\ o.canal = "LOJA" => V!Confere(c.preco, q, o.preco * q)
           \/ o.canal = "WHATSAPP" /\ v = V!Venda(o, 1, edicaoVista.valorCartela, q)
<1>1. o.canal \in Canal
  BY DEF TelaServe
<1>2. V!Digitais = {c \in edicaoVista.combos : c.origem = "DIGITAL"}
  BY DEF V!Digitais, V!DaOrigem, V!OrigemDoCombo
<1>3. \A f, k : V!Configuracao(edicaoVista.combos, f, k) \subseteq V!DaOrigem(edicaoVista.combos, f)
  BY DEF V!Configuracao, V!DeChances
<1>4. CASE o.canal = "LOJA"
  <2>1. v \in V!LerNaLoja(o, q) /\ o.origem = "DIGITAL"
    BY <1>4 DEF V!Leituras, TelaServe
  <2>2. PICK c \in IF o.id # Nulo THEN V!PorId(V!Digitais, o.id)
                   ELSE V!Configuracao(edicaoVista.combos, "DIGITAL", 0) :
             v = V!Venda(o, c.chances, c.preco, q) /\ V!Confere(c.preco, q, o.preco * q)
    BY <2>1 DEF V!LerNaLoja
  <2>3. c \in edicaoVista.combos /\ c.origem = "DIGITAL"
    BY <1>2, <1>3 DEF V!PorId, V!DaOrigem, V!OrigemDoCombo
  <2> QED
    BY <2>1, <2>2, <2>3 DEF V!OrigemDoCombo
<1>5. CASE o.canal \in {"POS", "PAINEL"}
  <2>1. v \in V!LerNaVenda(o, q)
    BY <1>5 DEF V!Leituras
  <2>2. PICK k : \E c \in V!Configuracao(edicaoVista.combos, o.origem, k) : v = V!Venda(o, c.chances, c.preco, q)
    BY <2>1 DEF V!LerNaVenda
  <2> PICK c \in V!Configuracao(edicaoVista.combos, o.origem, k) : v = V!Venda(o, c.chances, c.preco, q)
    BY <2>2
  <2>3. c \in edicaoVista.combos /\ c.origem = V!OrigemDoCombo(o.origem)
    BY <1>3 DEF V!DaOrigem
  <2> QED
    BY <1>5, <2>2, <2>3
<1>6. CASE o.canal = "WHATSAPP"
  <2>1. v \in V!LerNoWhatsapp(o, q) /\ o.origem = "DIGITAL"
    BY <1>6 DEF V!Leituras, TelaServe
  <2>2. CASE o.chances = 1
    BY <1>6, <2>1, <2>2 DEF V!LerNoWhatsapp
  <2>3. CASE o.chances # 1
    <3>1. PICK c \in V!DeChances(V!Digitais, o.chances) : v = V!Venda(o, c.chances, c.preco, q)
      BY <2>1, <2>3 DEF V!LerNoWhatsapp
    <3> QED
      BY <1>2, <1>6, <2>1, <3>1 DEF V!DeChances, V!OrigemDoCombo
  <2> QED
    BY <2>2, <2>3
<1> QED
  BY <1>1, <1>4, <1>5, <1>6 DEF Canal

LEMMA CompraLidaServe ==
    ASSUME VitrineAssumption, VitrineInv, NEW o, NEW q \in 1 .. MaxQuantidade, TelaServe(o),
           NEW chances \in Nat \ {0}, NEW preco \in Nat
    PROVE  LET v == V!Venda(o, chances, preco, q) IN
           /\ v \in CompraLida /\ v.vista = o.versao /\ v.lida = edicaoVista.versao /\ v.canal = o.canal
           /\ v.origem = o.origem /\ v.chances = chances
           /\ v.quantidade = q /\ v.visto = o.preco /\ v.total = preco * q
<1> DEFINE v == V!Venda(o, chances, preco, q)
<1>1. /\ o.canal \in Canal /\ o.origem \in Origens /\ o.preco \in Nat
      /\ o.versao \in 0 .. MaxVersoes /\ edicaoVista.versao \in 0 .. MaxVersoes
  BY EdicaoTipada DEF TelaServe
<1>2. (edicaoVista.manutencao \/ edicaoVista.vencida) \in BOOLEAN
  OBVIOUS
<1>3. q \in Nat /\ preco * q \in Nat
  OBVIOUS
<1> QED
  BY <1>1, <1>2, <1>3 DEF V!Venda, CompraLida

\* What a showcase of the edition's version offers: the combo of its id or number of chances,
\* or one card at valorCartela.
DaVitrine(o, c) ==
    /\ c \in edicaoVista.combos /\ c.chances = o.chances /\ c.preco = o.preco
    /\ c.origem = V!OrigemDoCombo(o.origem)
    /\ o.id = V!Id(c, edicaoVista.versao) \/ (o.id = Nulo /\ (o.canal \in {"LOJA", "POS"} => c.chances = 1))
LEMMA VitrineTem ==
    ASSUME VitrineAssumption, VitrineInv, NEW o \in V!Vitrine
    PROVE  /\ \/ \E c \in edicaoVista.combos :
                    DaVitrine(o, c) /\ (o.canal = "WHATSAPP" => c.chances # 1)
              \/ o.canal = "WHATSAPP" /\ o.chances = 1 /\ o.preco = edicaoVista.valorCartela
           /\ o.canal = "WHATSAPP" => o.id = Nulo
           /\ o.canal = "PAINEL" => o.id # Nulo
           /\ TelaServe(o)
<1> DEFINE combos == edicaoVista.combos
           n == edicaoVista.versao
<1>1. /\ combos \subseteq Combos /\ n \in 0 .. MaxVersoes /\ edicaoVista.valorCartela \in Nat
      /\ \A c \in combos : V!Id(c, n) # Nulo
  BY EdicaoTipada
<1>2. V!Digitais = {c \in combos : c.origem = "DIGITAL"}
  BY DEF V!Digitais, V!DaOrigem, V!OrigemDoCombo
<1>3. V!DeChances(V!Digitais, 1) = {c \in combos : c.origem = "DIGITAL" /\ c.chances = 1}
  BY <1>2 DEF V!DeChances
<1>4. \A c \in combos : c.origem \in {"DIGITAL", "FISICO"} /\ c.chances \in Nat \ {0} /\ c.preco \in Nat
  BY <1>1 DEF Combos
<1>5. CASE o \in V!VitrineDaLoja
  <2>1. PICK c \in combos : /\ c.origem = "DIGITAL"
                            /\ \/ o = V!Oferta("LOJA", "DIGITAL", V!Id(c, n), c.chances, c.preco)
                               \/ c.chances = 1 /\ o = V!Oferta("LOJA", "DIGITAL", Nulo, 1, c.preco)
    BY <1>2, <1>3, <1>5 DEF V!VitrineDaLoja
  <2>2. /\ o.canal = "LOJA" /\ o.origem = "DIGITAL" /\ o.chances = c.chances /\ o.preco = c.preco
        /\ o.versao = n /\ (o.id = V!Id(c, n) \/ (o.id = Nulo /\ c.chances = 1))
    BY <2>1 DEF V!Oferta
  <2> QED
    BY <1>1, <1>4, <2>1, <2>2 DEF DaVitrine, TelaServe, Canal, Origens, V!OrigemDoCombo
<1>6. CASE o \in V!VitrineDoPos
  <2>1. PICK c \in combos : /\ c.origem = "DIGITAL"
                            /\ \/ o = V!Oferta("POS", "POS", V!Id(c, n), c.chances, c.preco)
                               \/ c.chances = 1 /\ o = V!Oferta("POS", "POS", Nulo, 1, c.preco)
    BY <1>2, <1>3, <1>6 DEF V!VitrineDoPos
  <2>2. /\ o.canal = "POS" /\ o.origem = "POS" /\ o.chances = c.chances /\ o.preco = c.preco
        /\ o.versao = n /\ (o.id = V!Id(c, n) \/ (o.id = Nulo /\ c.chances = 1))
    BY <2>1 DEF V!Oferta
  <2> QED
    BY <1>1, <1>4, <2>1, <2>2 DEF DaVitrine, TelaServe, Canal, Origens, V!OrigemDoCombo
<1>7. CASE o \in V!VitrineDoWhatsapp
  <2>1. \/ o = V!Oferta("WHATSAPP", "DIGITAL", Nulo, 1, edicaoVista.valorCartela)
        \/ \E c \in combos : /\ c.origem = "DIGITAL" /\ c.chances # 1
                             /\ o = V!Oferta("WHATSAPP", "DIGITAL", Nulo, c.chances, c.preco)
    BY <1>2, <1>3, <1>7 DEF V!VitrineDoWhatsapp
  <2>2. CASE o = V!Oferta("WHATSAPP", "DIGITAL", Nulo, 1, edicaoVista.valorCartela)
    <3>1. /\ o.canal = "WHATSAPP" /\ o.origem = "DIGITAL" /\ o.chances = 1 /\ o.id = Nulo
          /\ o.preco = edicaoVista.valorCartela /\ o.versao = n
      BY <2>2 DEF V!Oferta
    <3> QED
      BY <1>1, <3>1 DEF TelaServe, Canal, Origens
  <2>3. ASSUME NEW c \in combos, c.origem = "DIGITAL", c.chances # 1,
               o = V!Oferta("WHATSAPP", "DIGITAL", Nulo, c.chances, c.preco)
        PROVE  DaVitrine(o, c) /\ o.canal = "WHATSAPP" /\ o.id = Nulo /\ TelaServe(o)
    <3>1. /\ o.canal = "WHATSAPP" /\ o.origem = "DIGITAL" /\ o.chances = c.chances /\ o.id = Nulo
          /\ o.preco = c.preco /\ o.versao = n
      BY <2>3 DEF V!Oferta
    <3> QED
      BY <1>1, <1>4, <2>3, <3>1 DEF DaVitrine, TelaServe, Canal, Origens, V!OrigemDoCombo
  <2>4. CASE \E c \in combos : /\ c.origem = "DIGITAL" /\ c.chances # 1
                               /\ o = V!Oferta("WHATSAPP", "DIGITAL", Nulo, c.chances, c.preco)
    BY <2>3, <2>4
  <2> QED
    BY <2>1, <2>2, <2>4 DEF V!Oferta
<1>8. CASE o \in V!VitrineDoPainel
  <2>1. PICK c \in combos : o = V!Oferta("PAINEL", c.origem, V!Id(c, n), c.chances, c.preco)
    BY <1>8 DEF V!VitrineDoPainel
  <2>2. /\ o.canal = "PAINEL" /\ o.origem = c.origem /\ o.chances = c.chances /\ o.preco = c.preco
        /\ o.versao = n /\ o.id = V!Id(c, n)
    BY <2>1 DEF V!Oferta
  <2> QED
    BY <1>1, <1>4, <2>2 DEF DaVitrine, TelaServe, Canal, Origens, V!OrigemDoCombo
<1> QED
  BY <1>5, <1>6, <1>7, <1>8 DEF V!Vitrine

\* An offer of the edition's version is read as it was shown, by every channel.
LEMMA OfertaAceita ==
    ASSUME VitrineAssumption, VitrineInv, NEW o \in V!Vitrine, NEW q \in 1 .. MaxQuantidade
    PROVE  /\ V!Leituras(o, q) \subseteq {V!Venda(o, o.chances, o.preco, q)}
           /\ V!NaJanela => V!Venda(o, o.chances, o.preco, q) \in V!Leituras(o, q)
<1> DEFINE combos == edicaoVista.combos
           n == edicaoVista.versao
           lida == V!Venda(o, o.chances, o.preco, q)
<1>1. /\ combos \subseteq Combos /\ n \in 0 .. MaxVersoes
      /\ \A c, d \in combos : c.origem = d.origem /\ c.chances = d.chances => c = d
      /\ \A c \in combos : V!Id(c, n) # Nulo
  BY EdicaoTipada
<1>2. V!Digitais = {c \in combos : c.origem = "DIGITAL"}
  BY DEF V!Digitais, V!DaOrigem, V!OrigemDoCombo
<1>3. \A c \in combos : c.origem \in {"DIGITAL", "FISICO"} /\ c.chances \in Nat \ {0} /\ c.preco \in Nat
  BY <1>1 DEF Combos
<1>4. \A c, d \in combos : V!Id(c, n) = V!Id(d, n) => c = d
  BY <1>1 DEF V!Id
<1>5. /\ o.canal \in Canal /\ (o.canal \in {"LOJA", "WHATSAPP"} => o.origem = "DIGITAL")
      /\ o.canal = "WHATSAPP" => o.id = Nulo
      /\ o.canal = "PAINEL" => o.id # Nulo
  BY VitrineTem DEF TelaServe
<1>6. \/ \E c \in combos : DaVitrine(o, c) /\ (o.canal = "WHATSAPP" => c.chances # 1)
      \/ o.canal = "WHATSAPP" /\ o.chances = 1 /\ o.preco = edicaoVista.valorCartela
  BY VitrineTem
<1>7. CASE o.canal = "LOJA"
  <2>1. PICK c \in combos : DaVitrine(o, c)
    BY <1>6, <1>7
  <2>2. c.origem = "DIGITAL" /\ c.chances = o.chances /\ c.preco = o.preco
    BY <1>5, <1>7, <2>1 DEF DaVitrine, V!OrigemDoCombo
  <2> DEFINE Achados == IF o.id # Nulo THEN V!PorId(V!Digitais, o.id)
                        ELSE V!Configuracao(combos, "DIGITAL", 0)
  <2>3. Achados = {c}
    <3>1. CASE o.id # Nulo
      <4>1. o.id = V!Id(c, n)
        BY <2>1, <3>1 DEF DaVitrine
      <4> QED
        BY <1>2, <1>4, <2>2, <3>1, <4>1 DEF V!PorId
    <3>2. CASE o.id = Nulo
      <4>1. c.chances = 1
        BY <1>1, <1>7, <2>1, <3>2 DEF DaVitrine
      <4>2. V!DeChances(V!DaOrigem(combos, "DIGITAL"), 1) = {c}
        BY <1>1, <2>2, <4>1 DEF V!DeChances, V!DaOrigem, V!OrigemDoCombo
      <4> QED
        BY <3>2, <4>2 DEF V!Configuracao
    <3> QED
      BY <3>1, <3>2
  <2>4. V!LerNaLoja(o, q) = {V!Venda(o, x.chances, x.preco, q) :
                                x \in {y \in Achados : V!Confere(y.preco, q, o.preco * q)}}
    BY DEF V!LerNaLoja
  <2>5. {y \in Achados : V!Confere(y.preco, q, o.preco * q)} = {c}
    BY <2>2, <2>3 DEF V!Confere
  <2>6. V!LerNaLoja(o, q) = {lida}
    <3> HIDE DEF Achados
    <3> QED
      BY <2>2, <2>4, <2>5
  <2> QED
    BY <1>7, <2>6 DEF V!Leituras
<1>8. CASE o.canal \in {"POS", "PAINEL"}
  <2>1. PICK c \in combos : DaVitrine(o, c)
    BY <1>6, <1>8
  <2>2. c.origem = V!OrigemDoCombo(o.origem) /\ c.chances = o.chances /\ c.preco = o.preco
    BY <2>1 DEF DaVitrine
  <2> DEFINE pedidas == IF o.id = Nulo THEN {0} ELSE {x.chances : x \in V!PorId(combos, o.id)}
  <2>3. \E k : pedidas = {k} /\ V!Configuracao(combos, o.origem, k) = {c}
    <3>1. \A k \in Nat \ {0} : c.chances = k => V!DeChances(V!DaOrigem(combos, o.origem), k) = {c}
      BY <1>1, <2>2 DEF V!DeChances, V!DaOrigem
    <3>2. CASE o.id # Nulo
      <4>1. o.id = V!Id(c, n)
        BY <2>1, <3>2 DEF DaVitrine
      <4>2. V!PorId(combos, o.id) = {c}
        BY <1>4, <4>1 DEF V!PorId
      <4>3. pedidas = {c.chances}
        BY <3>2, <4>2
      <4>4. V!Configuracao(combos, o.origem, c.chances) = {c}
        BY <1>3, <3>1 DEF V!Configuracao
      <4> QED
        BY <4>3, <4>4
    <3>3. CASE o.id = Nulo
      <4>1. c.chances = 1
        BY <1>1, <1>5, <1>8, <2>1, <3>3 DEF DaVitrine
      <4>2. V!Configuracao(combos, o.origem, 0) = {c}
        BY <3>1, <4>1 DEF V!Configuracao
      <4> QED
        BY <3>3, <4>2
    <3> QED
      BY <3>2, <3>3
  <2> HIDE DEF pedidas
  <2>4. V!LerNaVenda(o, q) = {V!Venda(o, x.chances, x.preco, q) :
                                 x \in UNION {V!Configuracao(combos, o.origem, k) : k \in pedidas}}
    BY DEF V!LerNaVenda, pedidas
  <2>5. UNION {V!Configuracao(combos, o.origem, k) : k \in pedidas} = {c}
    BY <2>3
  <2>6. V!LerNaVenda(o, q) = {lida}
    BY <2>2, <2>4, <2>5
  <2> QED
    BY <1>8, <2>6 DEF V!Leituras
<1>9. CASE o.canal = "WHATSAPP"
  <2>1. V!LerNoWhatsapp(o, q) = {lida}
    <3>1. CASE o.chances = 1
      <4>1. o.preco = edicaoVista.valorCartela
        BY <1>6, <1>9, <3>1 DEF DaVitrine
      <4> QED
        BY <3>1, <4>1 DEF V!LerNoWhatsapp
    <3>2. CASE o.chances # 1
      <4>1. PICK c \in combos : DaVitrine(o, c)
        BY <1>6, <3>2
      <4>2. c.origem = "DIGITAL" /\ c.chances = o.chances /\ c.preco = o.preco
        BY <1>5, <1>9, <4>1 DEF DaVitrine, V!OrigemDoCombo
      <4>3. V!DeChances(V!Digitais, o.chances) = {c}
        BY <1>1, <1>2, <4>2 DEF V!DeChances
      <4> QED
        BY <3>2, <4>2, <4>3 DEF V!LerNoWhatsapp
    <3> QED
      BY <3>1, <3>2
  <2> QED
    BY <1>9, <2>1 DEF V!Leituras, V!NaJanela
<1> QED
  BY <1>5, <1>7, <1>8, <1>9 DEF Canal

\* Of an edition's offers those of the same digital combo, or of its one card, cost the same.
LEMMA PrecosIguais ==
    ASSUME VitrineAssumption, VitrineInv
    PROVE  V!PrecoIgualNosCanais
<1> DEFINE combos == edicaoVista.combos
<1>1. /\ combos \subseteq Combos
      /\ \A c, d \in combos : c.origem = d.origem /\ c.chances = d.chances => c = d
  BY EdicaoTipada
<1>2. V!Digitais = {c \in combos : c.origem = "DIGITAL"}
  BY DEF V!Digitais, V!DaOrigem, V!OrigemDoCombo
<1> SUFFICES ASSUME V!DeChances(combos, 1) \subseteq V!Digitais
             PROVE  \A a, b \in {o \in V!Vitrine : V!OrigemDoCombo(o.origem) = "DIGITAL"} :
                        a.chances = b.chances /\ V!DeChances(V!Digitais, a.chances) # {} => a.preco = b.preco
  BY DEF V!PrecoIgualNosCanais
<1>3. ASSUME NEW o \in V!Vitrine, V!OrigemDoCombo(o.origem) = "DIGITAL",
             NEW d \in combos, d.origem = "DIGITAL", d.chances = o.chances
      PROVE  o.preco = d.preco
  <2>1. ASSUME NEW c \in combos, DaVitrine(o, c) PROVE o.preco = d.preco
    BY <1>1, <1>3, <2>1 DEF DaVitrine
  <2>2. ASSUME o.chances = 1, o.preco = edicaoVista.valorCartela PROVE o.preco = d.preco
    <3>1. d \in V!DeChances(combos, 1)
      BY <1>3, <2>2 DEF V!DeChances
    <3>2. edicaoVista.valorCartela \in {c.preco : c \in V!DeChances(combos, 1)}
      BY <3>1 DEF VitrineInv, V!Legado
    <3>3. PICK c \in V!DeChances(combos, 1) : c.preco = o.preco
      BY <2>2, <3>2
    <3>4. c \in combos /\ c.chances = 1 /\ c.origem = "DIGITAL"
      BY <1>2, <3>3 DEF V!DeChances
    <3> QED
      BY <1>1, <1>3, <2>2, <3>3, <3>4
  <2> QED
    BY <2>1, <2>2, VitrineTem
<1> SUFFICES ASSUME NEW a \in V!Vitrine, NEW b \in V!Vitrine,
                    V!OrigemDoCombo(a.origem) = "DIGITAL", V!OrigemDoCombo(b.origem) = "DIGITAL",
                    a.chances = b.chances, V!DeChances(V!Digitais, a.chances) # {}
             PROVE  a.preco = b.preco
  OBVIOUS
<1>4. PICK d \in combos : d.origem = "DIGITAL" /\ d.chances = a.chances
  BY <1>2 DEF V!DeChances
<1> QED
  BY <1>3, <1>4

\* Neither the maintenance nor the window changes what is shown and what can be delivered.
LEMMA CombosFicam ==
    ASSUME edicaoVista'.versao = edicaoVista.versao, edicaoVista'.combos = edicaoVista.combos,
           edicaoVista'.valorCartela = edicaoVista.valorCartela
    PROVE  /\ \A o : TelaServe(o) => TelaServe(o)'
           /\ \A v : CompraServe(v) => CompraServe(v)'
<1>1. V!Digitais' = V!Digitais
  BY DEF V!Digitais
<1>2. V!Vitrine' = V!Vitrine
  <2>1. V!VitrineDaLoja' = V!VitrineDaLoja
    BY <1>1 DEF V!VitrineDaLoja, V!Oferta
  <2>2. V!VitrineDoPos' = V!VitrineDoPos
    BY <1>1 DEF V!VitrineDoPos, V!Oferta
  <2>3. V!VitrineDoWhatsapp' = V!VitrineDoWhatsapp
    BY <1>1 DEF V!VitrineDoWhatsapp, V!Oferta
  <2>4. V!VitrineDoPainel' = V!VitrineDoPainel
    BY DEF V!VitrineDoPainel, V!Oferta
  <2> QED
    BY <2>1, <2>2, <2>3, <2>4 DEF V!Vitrine
<1>3. \A o : TelaServe(o) => TelaServe(o)'
  BY <1>2 DEF TelaServe
<1>4. \A v : CompraServe(v) => CompraServe(v)'
  BY DEF CompraServe, V!SemCombo
<1> QED
  BY <1>3, <1>4

LEMMA VitrineInicial == VitrineAssumption /\ V!Init => VitrineInv
<1> SUFFICES ASSUME VitrineAssumption, V!Init PROVE VitrineInv
  OBVIOUS
<1>1. PICK combos \in Conjuntos : \E v \in V!Legado(combos) :
         edicaoVista = [versao |-> 0, combos |-> combos, valorCartela |-> v,
                        aberta |-> TRUE, manutencao |-> FALSE, vencida |-> FALSE]
  BY DEF V!Init
<1> PICK v \in V!Legado(combos) :
         edicaoVista = [versao |-> 0, combos |-> combos, valorCartela |-> v,
                        aberta |-> TRUE, manutencao |-> FALSE, vencida |-> FALSE]
  BY <1>1
<1>2. v \in Nat /\ 0 \in 0 .. MaxVersoes
  BY LegadoTipado DEF VitrineAssumption
<1> QED
  BY <1>2 DEF V!Init, VitrineInv, Edicoes

\* A purchase reads what its screen allows: its price and its delivery hold from the start.
LEMMA VitrineComprar ==
    ASSUME VitrineAssumption, VitrineInv, NEW q \in 1 .. MaxQuantidade, V!Comprar(q)
    PROVE  VitrineInv'
<1> DEFINE combos == edicaoVista.combos
<1>1. TelaServe(tela) /\ compra' \in V!Leituras(tela, q) /\ edicaoVista' = edicaoVista /\ tela' = tela
  BY DEF V!Comprar, VitrineInv
<1>2. /\ combos \subseteq Combos
      /\ edicaoVista.valorCartela \in Nat /\ edicaoVista.versao \in 0 .. MaxVersoes
  BY EdicaoTipada
<1>3. PICK chances \in Nat \ {0}, preco \in Nat :
         /\ compra' = V!Venda(tela, chances, preco, q)
         /\ \/ \E c \in combos :
                 /\ c.origem = V!OrigemDoCombo(tela.origem) /\ c.chances = chances /\ c.preco = preco
                 /\ tela.canal = "LOJA" => V!Confere(preco, q, tela.preco * q)
            \/ tela.canal = "WHATSAPP" /\ chances = 1
  <2>1. 1 \in Nat \ {0} /\ \A c \in combos : c.chances \in Nat \ {0} /\ c.preco \in Nat
    BY <1>2 DEF Combos
  <2> QED
    BY <1>1, <1>2, <2>1, LeituraDeCombo
<1>4. /\ compra' \in CompraLida /\ compra'.vista = tela.versao /\ compra'.lida = edicaoVista.versao
      /\ compra'.canal = tela.canal /\ compra'.origem = tela.origem /\ compra'.chances = chances
      /\ compra'.quantidade = q /\ compra'.visto = tela.preco /\ compra'.total = preco * q
  BY <1>1, <1>3, CompraLidaServe
<1>5. q \in Nat /\ tela.preco \in Nat
  BY <1>1 DEF TelaServe
<1>6. \/ compra'.total = compra'.quantidade * compra'.visto
      \/ compra'.lida # compra'.vista /\ compra'.canal # "LOJA"
  <2>1. CASE tela.canal = "LOJA"
    <3>1. preco * q = tela.preco * q
      BY <1>3, <2>1 DEF V!Confere
    <3> QED
      BY <1>4, <1>5, <3>1
  <2>2. CASE tela.versao = edicaoVista.versao
    <3>1. tela \in V!Vitrine
      BY <1>1, <2>2 DEF TelaServe
    <3>2. compra' = V!Venda(tela, tela.chances, tela.preco, q)
      BY <1>1, <3>1, OfertaAceita
    <3>3. compra'.total = tela.preco * q
      BY <3>2 DEF V!Venda
    <3> QED
      BY <1>4, <1>5, <3>3
  <2> QED
    BY <1>4, <2>1, <2>2
<1>7. ~V!SemCombo(compra') => V!Configuracao(combos, compra'.origem, compra'.chances) # {}
  <2>1. ASSUME NEW c \in combos, c.origem = V!OrigemDoCombo(tela.origem), c.chances = chances
        PROVE  V!Configuracao(combos, tela.origem, chances) # {}
    <3>1. c \in V!DeChances(V!DaOrigem(combos, tela.origem), chances)
      BY <2>1 DEF V!DeChances, V!DaOrigem
    <3> QED
      BY <3>1 DEF V!Configuracao
  <2>2. ASSUME tela.canal = "WHATSAPP", chances = 1, ~V!SemCombo(compra')
        PROVE  V!Configuracao(combos, tela.origem, chances) # {}
    <3>1. V!DeChances(V!DaOrigem(combos, "DIGITAL"), 1) # {} /\ tela.origem = "DIGITAL"
      BY <1>1, <1>4, <2>2 DEF V!SemCombo, TelaServe
    <3> QED
      BY <2>2, <3>1 DEF V!Configuracao
  <2> QED
    BY <1>3, <1>4, <2>1, <2>2
<1>8. CompraServe(compra)'
  <2>1. compra'.vista <= compra'.lida /\ compra'.lida <= edicaoVista'.versao
    BY <1>1, <1>2, <1>4 DEF TelaServe
  <2>2. V!SemCombo(compra)' = V!SemCombo(compra')
    BY <1>1 DEF V!SemCombo
  <2> QED
    BY <1>1, <1>4, <1>6, <1>7, <2>1, <2>2 DEF CompraServe
<1>9. TelaServe(tela)'
  BY <1>1, CombosFicam
<1> QED
  BY <1>1, <1>8, <1>9 DEF VitrineInv

LEMMA VitrinePasso ==
    ASSUME VitrineAssumption, VitrineInv, [V!Next]_vitrine PROVE VitrineInv'
<1>1. CASE UNCHANGED vitrine
  <2>1. edicaoVista' = edicaoVista /\ tela' = tela /\ compra' = compra
    BY <1>1 DEF vitrine
  <2> QED
    BY <2>1, CombosFicam DEF VitrineInv
<1>2. ASSUME NEW o \in V!Vitrine, V!Olhar(o) PROVE VitrineInv'
  <2>1. tela' = o /\ edicaoVista' = edicaoVista /\ compra' = compra
    BY <1>2 DEF V!Olhar
  <2>2. TelaServe(o)
    BY VitrineTem
  <2> QED
    BY <2>1, <2>2, CombosFicam DEF VitrineInv
<1>3. ASSUME NEW q \in 1 .. MaxQuantidade, V!Comprar(q) PROVE VitrineInv'
  BY <1>3, VitrineComprar
<1>4. CASE V!CriarVenda \/ V!Aprovar
  <2>1. PICK passo \in {"criada", "aprovada"} : compra' = [compra EXCEPT !.passo = passo]
    BY <1>4 DEF V!CriarVenda, V!Aprovar
  <2>2. edicaoVista' = edicaoVista /\ tela' = tela /\ CompraServe(compra)
    BY <1>4 DEF V!CriarVenda, V!Aprovar, VitrineInv
  <2>3. /\ compra' \in CompraLida
        /\ compra'.vista = compra.vista /\ compra'.lida = compra.lida /\ compra'.total = compra.total
        /\ compra'.quantidade = compra.quantidade /\ compra'.visto = compra.visto
        /\ compra'.canal = compra.canal /\ compra'.origem = compra.origem
        /\ compra'.chances = compra.chances
    BY <2>1, <2>2 DEF CompraServe, CompraLida
  <2>4. CompraServe(compra')
    BY <2>2, <2>3 DEF CompraServe, V!SemCombo
  <2>5. CompraServe(compra)'
    BY <2>2, <2>4 DEF CompraServe, V!SemCombo
  <2> QED
    BY <2>2, <2>5, CombosFicam DEF VitrineInv
<1>5. CASE V!Recomecar
  BY <1>5 DEF V!Recomecar, VitrineInv
<1>6. ASSUME NEW combos \in Conjuntos, V!TrocarCombos(combos) PROVE VitrineInv'
  <2>1. PICK v \in V!Legado(combos) :
           edicaoVista' = [edicaoVista EXCEPT !.versao = @ + 1, !.combos = combos, !.valorCartela = v]
    BY <1>6 DEF V!TrocarCombos
  <2>2. v \in Nat /\ edicaoVista.versao < MaxVersoes /\ tela' = tela /\ compra' = compra
    BY <1>6, LegadoTipado DEF V!TrocarCombos
  <2>3. /\ edicaoVista' \in Edicoes /\ edicaoVista'.combos = combos /\ edicaoVista'.valorCartela = v
        /\ edicaoVista'.versao = edicaoVista.versao + 1
    <3> DEFINE n == edicaoVista.versao + 1
    <3>1. edicaoVista \in Edicoes /\ n \in 0 .. MaxVersoes
      BY <2>2 DEF VitrineInv, VitrineAssumption, Edicoes
    <3>2. edicaoVista' = [edicaoVista EXCEPT !.versao = n, !.combos = combos, !.valorCartela = v]
      BY <2>1
    <3> HIDE DEF n
    <3>3. /\ edicaoVista' \in Edicoes /\ edicaoVista'.combos = combos
          /\ edicaoVista'.valorCartela = v /\ edicaoVista'.versao = n
      BY <2>2, <3>1, <3>2 DEF Edicoes
    <3> QED
      BY <3>3 DEF n
  <2>4. tela' # Nulo => TelaServe(tela)'
    BY <2>2, <2>3 DEF VitrineInv, TelaServe, Edicoes
  <2>5. compra' # Nulo => CompraServe(compra)'
    BY <2>2, <2>3 DEF VitrineInv, CompraServe, CompraLida, Edicoes
  <2> QED
    BY <2>3, <2>4, <2>5 DEF VitrineInv
<1>7. CASE V!MudarManutencao \/ V!Vencer \/ V!Encerrar
  <2>1. tela' = tela /\ compra' = compra
    BY <1>7 DEF V!MudarManutencao, V!Vencer, V!Encerrar
  <2>2. /\ edicaoVista' \in Edicoes /\ edicaoVista'.versao = edicaoVista.versao
        /\ edicaoVista'.combos = edicaoVista.combos
        /\ edicaoVista'.valorCartela = edicaoVista.valorCartela
    BY <1>7 DEF V!MudarManutencao, V!Vencer, V!Encerrar, VitrineInv, Edicoes
  <2> QED
    BY <2>1, <2>2, CombosFicam DEF VitrineInv
<1> QED
  BY <1>1, <1>2, <1>3, <1>4, <1>5, <1>6, <1>7 DEF V!Next

LEMMA VitrinePromete == ASSUME VitrineAssumption, VitrineInv PROVE OfertaSeCumpre
<1>1. V!TypeOK
  <2>1. /\ edicaoVista.combos \in Conjuntos /\ edicaoVista.versao \in 0 .. MaxVersoes
        /\ {edicaoVista.aberta, edicaoVista.manutencao, edicaoVista.vencida} \subseteq BOOLEAN
    BY EdicaoTipada
  <2>2. tela # Nulo => tela.canal \in {"LOJA", "POS", "WHATSAPP", "PAINEL"} /\ tela.versao <= edicaoVista.versao
    BY DEF VitrineInv, TelaServe, Canal
  <2>3. compra # Nulo => /\ compra.passo \in {"lida", "criada", "aprovada"}
                         /\ compra.vista <= compra.lida /\ compra.lida <= edicaoVista.versao
    BY DEF VitrineInv, CompraServe, CompraLida
  <2> QED
    BY <2>1, <2>2, <2>3 DEF V!TypeOK, VitrineInv
<1>2. V!CobraOQueMostrou /\ V!VendidoSeEntrega
  BY DEF VitrineInv, CompraServe, V!Criada, V!CobraOQueMostrou, V!VendidoSeEntrega
<1>3. V!OfertaVale
  <2> SUFFICES ASSUME tela # Nulo, tela.versao = edicaoVista.versao, V!NaJanela, NEW q \in 1 .. MaxQuantidade
               PROVE  /\ V!Leituras(tela, q) # {}
                      /\ \A v \in V!Leituras(tela, q) : v.chances = tela.chances /\ v.total = q * tela.preco
    BY DEF V!OfertaVale
  <2>1. tela \in V!Vitrine /\ tela.preco \in Nat /\ q \in Nat
    BY DEF VitrineInv, TelaServe
  <2>2. LET v == V!Venda(tela, tela.chances, tela.preco, q)
        IN  v.chances = tela.chances /\ v.total = tela.preco * q
    BY DEF V!Venda
  <2>3. tela.preco * q = q * tela.preco
    BY <2>1
  <2> QED
    BY <2>1, <2>2, <2>3, OfertaAceita
<1> QED
  BY <1>1, <1>2, <1>3, PrecosIguais DEF OfertaSeCumpre

-----------------------------------------------------------------------------
\* A behaviour of the six is one of each.
CanaisInv == ConsultaInv /\ ContatoInv /\ JobInv /\ TrilhaInv /\ VitrineInv
LEMMA CanaisInvariante == CanaisSpec => []CanaisInv
<1>1. CanaisInit => CanaisInv
  BY AuditoriaAssumption, VitrineAssumption, ConsultaInicial, ContatoInicial, JobInicial,
     TrilhaInicial, VitrineInicial DEF CanaisInit, CanaisInv
<1>2. CanaisInv /\ [CanaisNext]_canais => CanaisInv'
  <2>1. [CanaisNext]_canais
        => /\ [Q!Next]_consultas /\ [F!Next]_contato /\ [R!Next]_reconciliacao
           /\ [A!Next]_auditoria /\ [V!Next]_vitrine
    BY DEF CanaisNext, PassoDaCobranca, PassoDaConsulta, PassoDoContato, PassoDaReconciliacao,
           PassoDaTrilha, PassoDaVitrine, canais
  <2> QED
    BY <2>1, AuditoriaAssumption, VitrineAssumption, ConsultaPasso, ContatoPasso, JobPasso,
       TrilhaPasso, VitrinePasso DEF CanaisInv
<1> QED
  BY <1>1, <1>2, PTL DEF CanaisSpec

\* Who sold a sale finds it: no filter widens the list of the panel, the POS follows what the
\* panel lists, and the search by CPF finds it, wherever the seller was moved to
\* (buildHierarchyWhere, garantirPropriedadeVenda, findByCliente).
THEOREM QuemVendeuSempreVe == CanaisSpec => []VeQuemVendeu
BY CanaisInvariante, ConsultaVe, PTL DEF CanaisInv

\* The channels count the same cards, and say "pago" of what was approved; the POS, of what
\* was closed while it polled (consultarStatusPagamento, serializarVendaParaResposta).
THEOREM RespostasSempreConcordam == CanaisSpec => []RespostasConcordam
BY CanaisInvariante, ConsultaResponde, PTL DEF CanaisInv

\* However requests, lost answers, stops and TTLs fall: a message is saved once in its
\* cooldown, who is told to wait has a message saved, and a limit yields unless a stop left
\* its counter for ever (enviarFaleConosco).
THEOREM ContatoSempreConfere == CanaisSpec => []ContatoConfere
BY CanaisInvariante, ContatoPromete, PTL DEF CanaisInv

\* Whoever writes the payload of a sale over what it had read, however old (a batch, a look, a
\* cancellation), the payload goes on naming the provider, unless an approval brought one of its
\* own, and the reason of a cancellation that no agent crossed
\* (registrarSucessoReconciliacaoPos, registrarFalhaReconciliacaoPos, cancelar).
THEOREM CargaSempreFica == CanaisSpec => []CargaNaoSePerde
BY CanaisInvariante, JobPromete, PTL DEF CanaisInv

\* However requests overlap and fail, what is in the database has its record, but for a write
\* outside a transaction that waits for its own or whose request stopped before it; one at a
\* time, the records of a row are a chain that ends in the row, but for lots, a row written
\* twice and failed requests; and with a connection left somebody goes on (PrismaService).
THEOREM TrilhaSempreConfere == CanaisSpec => []TrilhaConfere
<1>1. TrilhaInv => TrilhaConfere
  BY AuditoriaAssumption, TrilhaPromete
<1> QED
  BY <1>1, CanaisInvariante, PTL DEF CanaisInv

\* However the ADMIN replaces the combos, puts the edition under maintenance or closes it while
\* a customer looks and buys: what the screen of a version shows is accepted for its price and
\* cards while it is the edition's, costs the same in every channel, is what is charged (the
\* shop charges no other price even of a screen that is old), and can be delivered
\* (resolverTipoCartelaDaCompra, resolverConfiguracaoDaVenda, resolverComboParaAlocacao).
THEOREM OfertaSempreSeCumpre == CanaisSpec => []OfertaSeCumpre
<1>1. VitrineInv => OfertaSeCumpre
  BY VitrineAssumption, VitrinePromete
<1> QED
  BY <1>1, CanaisInvariante, PTL DEF CanaisInv
=============================================================================
