----------------------------- MODULE Pagamentos -----------------------------
(***************************************************************************)
(* The confirmation of payments by webhook (PagamentosService), under the  *)
(* distributed lock in Redis, over the gateways that the factory chooses.  *)
(*                                                                         *)
(* A gateway repeats a notification until it is answered 200; the service  *)
(* answers 200 to everything it understands, whatever it did with it.  A   *)
(* body of PagBank with several charges is several notifications.  The     *)
(* approval itself is one step (Vendas and VendasSena detail it), after a  *)
(* read that is not in its transaction.  Redis is configured; signatures   *)
(* are valid and notifications truthful.                                   *)
(***************************************************************************)
EXTENDS Naturals, FiniteSets

CONSTANTS
    Vendas,      \* sales charged in a gateway
    Sena,        \* those of Capital Sena
    Cartao,      \* those paid by card, always at PagBank
    Pedidos,     \* webhook requests in flight at the same time
    Nulo,        \* nobody, no provider
    MaxAvisos    \* bound: notifications a gateway sends of one charge

Provedores == {"FSPAY", "AGILIZEPAY", "MERCADOPAGO", "PAGBANK"}

ASSUME PagamentosAssumption ==
    /\ Sena \subseteq Vendas /\ Cartao \subseteq Vendas
    /\ Nulo \notin Pedidos \cup Vendas \cup Provedores
    /\ MaxAvisos \in Nat

VARIABLES
    provedor,     \* PIX_GATEWAY_PROVIDER
    venda,        \* venda[v]: status, gatewayId saved, provider key in gatewayPayload
    cobranca,     \* cobranca[v]: the charge: its provider and its state there
    fila,         \* notifications on their way: <<sale, form of the identifier, paid>>
    enviados,     \* enviados[v]: notifications sent so far
    trava,        \* trava[k]: the request that holds lock:...:webhook:k
    pedido,       \* pedido[p]: what request p is doing
    aprovacoes,   \* history: aprovacoes[v]: commits that approved v
    pelaTela,     \* history: sales approved by the ADMIN, without a gateway
    disputada,    \* history: sales confirmed by two at once: no common lock, or lost
    engolida,     \* history: paid sales a notification of which ended without effect
    avisada       \* history: sales with a processed notification of the payment

servico == <<venda, trava, pedido>>
gateway == <<provedor, cobranca, fila, enviados>>
historia == <<aprovacoes, pelaTela, disputada, engolida, avisada>>
vars == <<servico, gateway, historia>>

\* The forms in which a notification names a charge, given what its creation returned
\* as gatewayId (first) and in the payload.  FSPay echoes the idempotency_id, our
\* vendaId; PagBank names the order, one of its charges or the QR code, and in the old
\* protocol only a code that must be asked about.
FormasFsPay == {"vendaId"}
FormasAgilizePay == {"txid"}
FormasMercadoPago == {"payment"}
FormasPagBankPix == {"order", "charge", "qr", "code"}
FormasCartao == {"charge", "code"}
Formas(v) ==
    CASE cobranca[v].prov = "FSPAY" -> FormasFsPay
      [] cobranca[v].prov = "AGILIZEPAY" -> FormasAgilizePay
      [] cobranca[v].prov = "MERCADOPAGO" -> FormasMercadoPago
      [] cobranca[v].prov = "PAGBANK" -> IF v \in Cartao THEN FormasCartao ELSE FormasPagBankPix
      [] OTHER -> {}

TodasFormas == FormasFsPay \cup FormasAgilizePay \cup FormasMercadoPago \cup FormasPagBankPix
Chaves == TodasFormas \X Vendas

Ocioso == [passo |-> "ocioso", v |-> Nulo, forma |-> "order", pago |-> FALSE]
Passos == {"ocioso", "trava", "consultar", "buscar", "buscarSena", "confirmar",
           "aprovar", "notificar", "liberar"}
ComTrava == Passos \ {"ocioso", "trava"}

Seguir(p, passo) == pedido' = [pedido EXCEPT ![p].passo = passo]
Encerrar(p) == pedido' = [pedido EXCEPT ![p] = Ocioso]
Chave(p) == <<pedido[p].forma, pedido[p].v>>
Atendem(v) == {p \in Pedidos : pedido[p].v = v}
Paga(v) == cobranca[v].situacao = "paga"

\* The end without effect of a notification of a paid charge.
Engolir(p) == engolida' = engolida \cup {v \in {pedido[p].v} : Paga(v)}

\* PaymentGatewayFactory.getGatewayParaConsulta: by the key of the provider's
\* answer in the payload, or else the provider of the day.
ProvedorAtual(v) == IF v \in Cartao THEN "PAGBANK" ELSE provedor
ProvedorParaConsulta(v) ==
    IF v \notin Cartao /\ venda[v].chave # Nulo THEN venda[v].chave ELSE ProvedorAtual(v)

\* A charge can be asked about, or cancelled, once its gatewayId is saved.
Consultavel(v) == venda[v].status # "nenhuma" /\ venda[v].gatewayId

\* cancelarCobranca of each provider: only Mercado Pago cancels an open PIX, and its
\* refusals are caught; a card is voided or refunded; the others do nothing.
CancelarFsPay(s) == s
CancelarAgilizePay(s) == s
CancelarPagBankPix(s) == s
CancelarMercadoPago(s) == IF s = "aberta" THEN "cancelada" ELSE s
CancelarCartao(s) == "estornada"
CobrancaCancelada(v) ==
    LET s == cobranca[v].situacao IN
    CASE v \in Cartao -> CancelarCartao(s)
      [] cobranca[v].prov = "FSPAY" -> CancelarFsPay(s)
      [] cobranca[v].prov = "AGILIZEPAY" -> CancelarAgilizePay(s)
      [] cobranca[v].prov = "PAGBANK" -> CancelarPagBankPix(s)
      [] OTHER -> CancelarMercadoPago(s)

-----------------------------------------------------------------------------
Init ==
    /\ provedor \in Provedores
    /\ venda = [v \in Vendas |-> [status |-> "nenhuma", gatewayId |-> FALSE, chave |-> Nulo]]
    /\ cobranca = [v \in Vendas |-> [prov |-> Nulo, situacao |-> "inexistente"]]
    /\ fila = {} /\ enviados = [v \in Vendas |-> 0]
    /\ trava = [k \in Chaves |-> Nulo]
    /\ pedido = [p \in Pedidos |-> Ocioso]
    /\ aprovacoes = [v \in Vendas |-> 0]
    /\ pelaTela = {} /\ disputada = {} /\ engolida = {} /\ avisada = {}

\* The environment of the next start of the service.
TrocarProvedor(g) ==
    /\ provedor' = g
    /\ UNCHANGED <<servico, cobranca, fila, enviados, historia>>

\* The sale is PENDENTE and getGateway(tipo).criarCobranca answers.
CriarCobranca(v) ==
    /\ venda[v].status = "nenhuma"
    /\ venda' = [venda EXCEPT ![v].status = "PENDENTE"]
    /\ cobranca' = [cobranca EXCEPT ![v] = [prov |-> ProvedorAtual(v), situacao |-> "aberta"]]
    /\ UNCHANGED <<provedor, fila, enviados, trava, pedido, historia>>

\* gatewayId and payload are saved, over whatever the row has become.  The payload
\* of a card has no provider key.
GravarCobranca(v) ==
    /\ cobranca[v].situacao # "inexistente" /\ ~venda[v].gatewayId
    /\ venda' = [venda EXCEPT ![v].gatewayId = TRUE,
                              ![v].chave = IF v \in Cartao THEN Nulo ELSE cobranca[v].prov]
    /\ UNCHANGED <<gateway, trava, pedido, historia>>

\* A PIX is paid with the code that the answer carries, after it was saved; a card
\* is captured by the very call that creates the charge.
Pagar(v) ==
    /\ cobranca[v].situacao = "aberta"
    /\ v \in Cartao \/ venda[v].gatewayId
    /\ cobranca' = [cobranca EXCEPT ![v].situacao = "paga"]
    /\ UNCHANGED <<provedor, fila, enviados, servico, historia>>

Vencer(v) ==
    /\ cobranca[v].situacao = "aberta"
    /\ cobranca' = [cobranca EXCEPT ![v].situacao = "expirada"]
    /\ UNCHANGED <<provedor, fila, enviados, servico, historia>>

\* The gateway notifies of the charge as it is, once more and in any form.
Notificar(v, f) ==
    /\ f \in Formas(v) /\ enviados[v] < MaxAvisos
    /\ fila' = fila \cup {<<v, f, Paga(v)>>}
    /\ enviados' = [enviados EXCEPT ![v] = @ + 1]
    /\ UNCHANGED <<provedor, cobranca, servico, historia>>

-----------------------------------------------------------------------------
\* processarWebhook...: PagBank reads the status in the body and ignores what is
\* not PAID; the others take the lock first and ask the gateway.
ConfiaNoCorpo(v) == cobranca[v].prov = "PAGBANK"

Receber(p, a) ==
    /\ pedido[p].passo = "ocioso" /\ a \in fila
    /\ fila' = fila \ {a}
    /\ IF ConfiaNoCorpo(a[1]) /\ ~a[3] THEN UNCHANGED pedido
       ELSE pedido' = [pedido EXCEPT ![p] =
                [passo |-> "trava", v |-> a[1], forma |-> a[2], pago |-> a[3]]]
    /\ UNCHANGED <<provedor, cobranca, enviados, venda, trava, historia>>

\* resolverBodyWebhookPagBank: the notificationCode cannot be resolved (no credentials,
\* the query failed) and the bare body holds no payment: answered 200.
DescartarCodigo(a) ==
    /\ a \in fila /\ a[2] = "code"
    /\ fila' = fila \ {a}
    /\ engolida' = engolida \cup {v \in {a[1]} : Paga(v)}
    /\ UNCHANGED <<provedor, cobranca, enviados, servico, aprovacoes, pelaTela, disputada, avisada>>

\* Mutant: the lock is taken from whoever has it.
TravaLivreSempre(p) == TRUE
TravaLivre(p) == trava[Chave(p)] = Nulo

\* DistributedLockService.acquire: SET key token PX 30000 NX.
Travar(p) ==
    /\ pedido[p].passo = "trava" /\ TravaLivre(p)
    /\ trava' = [trava EXCEPT ![Chave(p)] = p]
    /\ Seguir(p, IF ConfiaNoCorpo(pedido[p].v) THEN "buscar" ELSE "consultar")
    /\ disputada' = disputada \cup
          {v \in {pedido[p].v} : \E q \in Atendem(v) \ {p} : pedido[q].passo \in ComTrava
                                                       /\ trava[Chave(p)] # q}
    /\ UNCHANGED <<venda, gateway, aprovacoes, pelaTela, engolida, avisada>>

\* EM_PROCESSAMENTO: somebody else has it; answered 200.
Dispensar(p) ==
    /\ pedido[p].passo = "trava" /\ ~TravaLivre(p)
    /\ Engolir(p) /\ Encerrar(p)
    /\ UNCHANGED <<venda, trava, gateway, aprovacoes, pelaTela, disputada, avisada>>

\* consultarCobranca: the real status, always.
Consultar(p) ==
    /\ pedido[p].passo = "consultar"
    /\ Seguir(p, IF Paga(pedido[p].v) THEN "buscar" ELSE "liberar")
    /\ UNCHANGED <<venda, trava, gateway, historia>>

\* ERRO, answered 200: the gateway does not answer (FSPay: nothing over an hour old),
\* or the approval's transaction is undone.
Errar(p) ==
    /\ pedido[p].passo \in {"consultar", "aprovar"}
    /\ Engolir(p) /\ Seguir(p, "liberar")
    /\ UNCHANGED <<venda, trava, gateway, aprovacoes, pelaTela, disputada, avisada>>

\* By gatewayId; PagBank also by the sale's own id (reference_id) and, for a QR code,
\* by the saved payload.
Encontra(p) ==
    LET v == pedido[p].v IN
    IF ConfiaNoCorpo(v)
    THEN pedido[p].forma = "qr" => venda[v].chave = "PAGBANK"
    ELSE venda[v].gatewayId

\* JA_PROCESSADA, or on to the confirmation.
Achar(p) ==
    /\ Seguir(p, IF venda[pedido[p].v].status = "PENDENTE" THEN "confirmar" ELSE "liberar")
    /\ avisada' = avisada \cup {pedido[p].v}
    /\ UNCHANGED engolida

\* The sales of Prêmios first, those of Capital Sena after.
Buscar(p) ==
    /\ pedido[p].passo = "buscar"
    /\ IF pedido[p].v \notin Sena /\ Encontra(p) THEN Achar(p)
       ELSE Seguir(p, "buscarSena") /\ UNCHANGED <<avisada, engolida>>
    /\ UNCHANGED <<venda, trava, gateway, aprovacoes, pelaTela, disputada>>

\* VENDA_NAO_ENCONTRADA when neither has it.
BuscarSena(p) ==
    /\ pedido[p].passo = "buscarSena"
    /\ IF pedido[p].v \in Sena /\ Encontra(p) THEN Achar(p)
       ELSE Engolir(p) /\ Seguir(p, "liberar") /\ UNCHANGED avisada
    /\ UNCHANGED <<venda, trava, gateway, aprovacoes, pelaTela, disputada>>

\* confirmarPagamento reads the row again: 409 unless PENDENTE.
LerParaConfirmar(p) ==
    /\ pedido[p].passo = "confirmar"
    /\ Seguir(p, IF venda[pedido[p].v].status = "PENDENTE" THEN "aprovar" ELSE "liberar")
    /\ UNCHANGED <<venda, trava, gateway, historia>>

\* The key in gatewayPayload: Prêmios replaces it by the webhook's payload, which has
\* none; Sena merges the two.
ChaveAposAprovar(v) == IF v \in Sena THEN venda[v].chave ELSE Nulo

Aprovar(p) ==
    LET v == pedido[p].v IN
    /\ pedido[p].passo = "aprovar"
    /\ venda' = [venda EXCEPT ![v].status = "APROVADO",
                              ![v].chave = ChaveAposAprovar(v)]
    /\ aprovacoes' = [aprovacoes EXCEPT ![v] = @ + 1]
    /\ Seguir(p, IF v \in Sena THEN "liberar" ELSE "notificar")
    /\ UNCHANGED <<trava, gateway, pelaTela, disputada, engolida, avisada>>

\* notificarConfirmacaoPagamentoN8n, awaited with the lock held; its errors are
\* caught.
NotificarN8n(p) ==
    /\ pedido[p].passo = "notificar"
    /\ Seguir(p, "liberar")
    /\ UNCHANGED <<venda, trava, gateway, historia>>

\* DistributedLockService.release: deletes the key only if it holds this token.
Liberar(p) ==
    /\ pedido[p].passo = "liberar"
    /\ trava' = [trava EXCEPT ![Chave(p)] = IF @ = p THEN Nulo ELSE @]
    /\ Encerrar(p)
    /\ UNCHANGED <<venda, gateway, historia>>

\* The lock's 30 s pass, over a request that is still at work or one that is gone.
ExpirarTrava(k) ==
    /\ trava[k] # Nulo
    /\ trava' = [trava EXCEPT ![k] = Nulo]
    /\ UNCHANGED <<venda, pedido, gateway, historia>>

\* The process dies: no answer, so the gateway sends the notification again.
Cair(p) ==
    /\ pedido[p].passo # "ocioso"
    /\ fila' = fila \cup {<<pedido[p].v, pedido[p].forma, pedido[p].pago>>}
    /\ Encerrar(p)
    /\ UNCHANGED <<provedor, cobranca, enviados, venda, trava, historia>>

-----------------------------------------------------------------------------
\* The ADMIN confirms by hand, without a lock, a gateway or a new payload.
ConfirmarPelaTela(v) ==
    /\ venda[v].status = "PENDENTE"
    /\ venda' = [venda EXCEPT ![v].status = "APROVADO"]
    /\ aprovacoes' = [aprovacoes EXCEPT ![v] = @ + 1]
    /\ pelaTela' = pelaTela \cup {v}
    /\ disputada' = disputada \cup {w \in {v} : Atendem(w) # {}}
    /\ UNCHANGED <<trava, pedido, gateway, engolida, avisada>>

\* cancelar asks the gateway of getGatewayParaConsulta to cancel the charge, and goes
\* on if it cannot: another provider does not know it.
Cancelar(v) ==
    /\ venda[v].status \in {"PENDENTE", "APROVADO", "RECUSADO"}
    /\ venda' = [venda EXCEPT ![v].status = "CANCELADO"]
    /\ cobranca' = IF Consultavel(v) /\ ProvedorParaConsulta(v) = cobranca[v].prov
                   THEN [cobranca EXCEPT ![v].situacao = CobrancaCancelada(v)]
                   ELSE cobranca
    /\ UNCHANGED <<provedor, fila, enviados, trava, pedido, historia>>

Next ==
    \/ \E g \in Provedores : TrocarProvedor(g)
    \/ \E v \in Vendas :
         \/ CriarCobranca(v) \/ GravarCobranca(v) \/ Pagar(v) \/ Vencer(v)
         \/ ConfirmarPelaTela(v) \/ Cancelar(v)
         \/ \E f \in TodasFormas : Notificar(v, f)
    \/ \E p \in Pedidos :
         \/ \E a \in fila : Receber(p, a)
         \/ Travar(p) \/ Dispensar(p) \/ Consultar(p) \/ Errar(p) \/ Buscar(p)
         \/ BuscarSena(p) \/ LerParaConfirmar(p) \/ Aprovar(p) \/ NotificarN8n(p) \/ Liberar(p) \/ Cair(p)
    \/ \E k \in Chaves : ExpirarTrava(k)
    \/ \E a \in fila : DescartarCodigo(a)

Spec == Init /\ [][Next]_vars

-----------------------------------------------------------------------------
\* Types; and a request has a sale exactly while it is served.
TypeOK ==
    /\ provedor \in Provedores
    /\ venda \in [Vendas -> [status : {"nenhuma", "PENDENTE", "APROVADO", "CANCELADO"},
                             gatewayId : BOOLEAN, chave : Provedores \cup {Nulo}]]
    /\ cobranca \in [Vendas -> [prov : Provedores \cup {Nulo},
           situacao : {"inexistente", "aberta", "paga", "expirada", "cancelada", "estornada"}]]
    /\ fila \subseteq Vendas \X TodasFormas \X BOOLEAN
    /\ enviados \in [Vendas -> 0..MaxAvisos]
    /\ trava \in [Chaves -> Pedidos \cup {Nulo}]
    /\ pedido \in [Pedidos -> [passo : Passos, v : Vendas \cup {Nulo},
                               forma : TodasFormas, pago : BOOLEAN]]
    /\ aprovacoes \in [Vendas -> Nat]
    /\ \A p \in Pedidos : pedido[p].v = Nulo <=> pedido[p].passo = "ocioso"

\* A sale is approved once, however many notifications come and however often they
\* are repeated, as long as everything that confirms it holds the same lock.
ConfirmadaUmaVez == \A v \in Vendas \ disputada : aprovacoes[v] <= 1

\* Nothing but the ADMIN approves what the gateway never had as paid: whatever a
\* notification says, early, late, repeated or of an expiry.  (A cancellation between
\* the read and the commit refunds the card, and the approval overwrites it.)
AprovadaFoiPaga ==
    \A v \in Vendas : venda[v].status = "APROVADO" /\ v \notin pelaTela =>
                          cobranca[v].situacao \in {"paga", "estornada"}

\* A sale one of whose notifications of payment was processed does not go on waiting,
\* unless one of them ended without effect (a lock taken, an error, not found).
AvisadaNaoEspera ==
    \A v \in avisada \ engolida :
        venda[v].status = "PENDENTE" => Atendem(v) # {} \/ \E a \in fila : a[1] = v

\* A payment is worth one approval: never two, never one without it, and not none once a
\* notification of it was processed.
PagamentoAprovaUmaVez == TypeOK /\ ConfirmadaUmaVez /\ AprovadaFoiPaga /\ AvisadaNaoEspera

\* While a sale waits, the provider asked about its charge, or asked to cancel it, is
\* the one that made it, whatever the provider of the day.
EsperaNoProvedorCerto ==
    \A v \in Vendas : venda[v].status = "PENDENTE" /\ Consultavel(v) =>
                          ProvedorParaConsulta(v) = cobranca[v].prov

\* The same of every sale with a charge.  The code breaks it: the approval of Prêmios
\* replaces the payload that names the provider.
SempreNoProvedorCerto ==
    \A v \in Vendas : Consultavel(v) => ProvedorParaConsulta(v) = cobranca[v].prov
=============================================================================
