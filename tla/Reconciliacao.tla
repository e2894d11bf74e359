--------------------------- MODULE Reconciliacao ---------------------------
(***************************************************************************)
(* The job that settles paid POS sales, in the detail that Vendas leaves   *)
(* out: the batch takes the newest sales, skips those whose last try       *)
(* failed a short while ago, and is protected by a lock with a TTL; the    *)
(* panel's look at a sale settles it the same way, without batch or lock.  *)
(*                                                                         *)
(* Everything that happens to a charge is kept in one JSON, gatewayPayload *)
(* ("carga"): who made the charge, why it was cancelled, when the          *)
(* reconciliation may try again.  Each writer writes it whole, from what   *)
(* it had read.  The approval, which Vendas details, is one step.          *)
(***************************************************************************)
EXTENDS Integers, FiniteSets

CONSTANTS
    Vendas,     \* POS sales, numbered from 1 in the order of createdAt
    Jobs,       \* workers, one to a process
    Paineis,    \* requests that look at a sale in the panel; none of them a worker
    Limite,     \* VENDAS_POS_RECONCILIACAO_BATCH_SIZE, at least 1
    Nulo

VARIABLES
    venda,      \* venda[v]: status, whether the gateway has it as paid, gatewayPayload
    velha,      \* sales older than the window of the job
    trava,      \* the job whose token is in Redis
    agente,     \* agente[a]: the step it is at, the sale, the payloads that it read
    cancelamento, \* the cancellation in flight: a sale and the payload it read
    trocada,    \* history: sales approved with a payload in place of theirs
    cruzou      \* history: sales cancelled before what an agent is about to write on them

vars == <<venda, velha, trava, agente, cancelamento, trocada, cruzou>>

Agentes == Jobs \cup Paineis
Vazia == [prov |-> FALSE, motivo |-> FALSE, falha |-> "nenhuma"]
Cobrada == [Vazia EXCEPT !.prov = TRUE]
Parado == [passo |-> "ocioso", v |-> 0, lido |-> << >>]

Init ==
    /\ venda = [v \in Vendas |-> [status |-> "nenhuma", paga |-> FALSE, carga |-> Vazia]]
    /\ velha = {} /\ trava = Nulo /\ cancelamento = Nulo /\ trocada = {} /\ cruzou = {}
    /\ agente = [a \in Agentes |-> Parado]

Pendentes == {v \in Vendas : venda[v].status = "PENDENTE"}
historia == <<trocada, cruzou>>

(***************************************************************************)
(* The sales, the gateway and the clock                                    *)
(***************************************************************************)
Criar(v) ==
    /\ venda[v].status = "nenhuma" /\ \A w \in Vendas : w < v => venda[w].status # "nenhuma"
    /\ venda' = [venda EXCEPT ![v] = [status |-> "PENDENTE", paga |-> FALSE, carga |-> Cobrada]]
    /\ UNCHANGED <<velha, trava, agente, cancelamento, historia>>

Pagar(v) ==
    /\ v \in Pendentes /\ ~venda[v].paga
    /\ venda' = [venda EXCEPT ![v].paga = TRUE]
    /\ UNCHANGED <<velha, trava, agente, cancelamento, historia>>

Envelhecer(v) ==
    /\ v \in Pendentes \ velha /\ \A w \in Pendentes : w < v => w \in velha
    /\ velha' = velha \cup {v}
    /\ UNCHANGED <<venda, trava, agente, cancelamento, historia>>

\* proximaTentativaEm passes.
Esfriar(v) ==
    /\ venda[v].carga.falha = "em espera"
    /\ venda' = [venda EXCEPT ![v].carga.falha = "passada"]
    /\ UNCHANGED <<velha, trava, agente, cancelamento, historia>>

\* The approval keeps the payload when it is the ADMIN's, and replaces it when it brings one.
Aprovada(v, comCarga) ==
    /\ venda' = [venda EXCEPT ![v].status = "APROVADO", ![v].carga = IF comCarga THEN Vazia ELSE @]
    /\ trocada' = IF comCarga THEN trocada \cup {v} ELSE trocada

\* A webhook, the polling of the POS, or the ADMIN.
Aprovar(v, comCarga) ==
    /\ v \in Pendentes /\ (comCarga => venda[v].paga)
    /\ Aprovada(v, comCarga)
    /\ UNCHANGED <<velha, trava, agente, cancelamento, cruzou>>

IniciarCancelamento(v) ==
    /\ cancelamento = Nulo /\ venda[v].status \in {"PENDENTE", "APROVADO"}
    /\ cancelamento' = [v |-> v, carga |-> venda[v].carga]
    /\ UNCHANGED <<venda, velha, trava, agente, historia>>

Cancelar ==
    /\ cancelamento # Nulo
    /\ LET v == cancelamento.v
       IN  /\ venda' = [venda EXCEPT ![v].status = "CANCELADO",
                                     ![v].carga = [cancelamento.carga EXCEPT !.motivo = TRUE]]
           /\ cruzou' = IF \E a \in Agentes : agente[a].v = v /\ agente[a].passo \in {"sucesso", "falha"}
                        THEN cruzou \cup {v} ELSE cruzou
    /\ cancelamento' = Nulo
    /\ UNCHANGED <<velha, trava, agente, trocada>>

(***************************************************************************)
(* The batch                                                               *)
(***************************************************************************)
\* Mutant: the oldest come first.
Primeiras(vs, n) == {v \in vs : Cardinality({w \in vs : w < v}) < n}
\* orderBy createdAt desc, take n.
Ultimas(vs, n) == {v \in vs : Cardinality({w \in vs : w > v}) < n}

\* The query brings three times what the batch takes; the ones in cooldown are left out.
Elegiveis ==
    LET vindas == Ultimas(Pendentes \ velha, 3 * Limite)
    IN  Ultimas({v \in vindas : venda[v].carga.falha # "em espera"}, Limite)

Seguinte(lido) ==
    IF DOMAIN lido = {} THEN Parado
    ELSE [passo |-> "visitar", lido |-> lido,
          v |-> CHOOSE v \in DOMAIN lido : \A w \in DOMAIN lido : w <= v]
Ler(a, vs) == agente' = [agente EXCEPT ![a] = Seguinte([v \in vs |-> venda[v].carga])]
Passar(a, passo) == agente' = [agente EXCEPT ![a].passo = passo]

\* On to the next of the batch; the last one frees the lock, if it is still its own.
Avancar(a) ==
    LET lido == agente[a].lido
        resto == Seguinte([v \in DOMAIN lido \ {agente[a].v} |-> lido[v]])
    IN  /\ agente' = [agente EXCEPT ![a] = resto]
        /\ trava' = IF resto = Parado /\ trava = a THEN Nulo ELSE trava

MontarLote(j) ==
    /\ agente[j] = Parado /\ trava = Nulo /\ Elegiveis # {}
    /\ trava' = j /\ Ler(j, Elegiveis)
    /\ UNCHANGED <<venda, velha, cancelamento, historia>>

\* findOne, consultarStatus.
Olhar(p, v) ==
    /\ agente[p] = Parado /\ v \in Pendentes
    /\ Ler(p, {v})
    /\ UNCHANGED <<venda, velha, trava, cancelamento, historia>>

\* The gateway is asked, and says whether the sale is paid.
Consultar(a) ==
    /\ agente[a].passo = "visitar"
    /\ IF venda[agente[a].v].paga THEN Passar(a, "confirmar") /\ UNCHANGED trava ELSE Avancar(a)
    /\ UNCHANGED <<venda, velha, cancelamento, historia>>

\* A ConflictException: the sale is left as it is.
Conflito(a) == Avancar(a)

Confirmar(a) ==
    /\ agente[a].passo = "confirmar"
    /\ IF agente[a].v \in Pendentes
       THEN Aprovada(agente[a].v, TRUE) /\ Passar(a, "sucesso") /\ UNCHANGED trava
       ELSE Conflito(a) /\ UNCHANGED <<venda, trocada>>
    /\ UNCHANGED <<velha, cancelamento, cruzou>>

\* The gateway, or the approval, fails.
Errar(a) ==
    /\ agente[a].passo \in {"visitar", "confirmar"}
    /\ Passar(a, "falha")
    /\ cruzou' = IF venda[agente[a].v].status = "CANCELADO" THEN cruzou \cup {agente[a].v} ELSE cruzou
    /\ UNCHANGED <<venda, velha, trava, cancelamento, trocada>>

ComSucesso(carga) == [carga EXCEPT !.falha = "nenhuma"]
\* Mutant: the failure is written in place of the payload.
SoFalha(carga) == [Vazia EXCEPT !.falha = "em espera"]
ComFalha(carga) == [carga EXCEPT !.falha = "em espera"]

\* registrarSucessoReconciliacaoPos, registrarFalhaReconciliacaoPos: over the payload of the batch.
Registrar(a) ==
    /\ agente[a].passo \in {"sucesso", "falha"}
    /\ LET v == agente[a].v
           lida == agente[a].lido[v]
       IN  venda' = [venda EXCEPT ![v].carga = IF agente[a].passo = "sucesso" THEN ComSucesso(lida)
                                               ELSE ComFalha(lida)]
    /\ Avancar(a)
    /\ UNCHANGED <<velha, cancelamento, historia>>

\* The process ends; its lock stays until the TTL.
Cair(a) ==
    /\ agente[a] # Parado
    /\ agente' = [agente EXCEPT ![a] = Parado]
    /\ UNCHANGED <<venda, velha, trava, cancelamento, historia>>

ExpirarTrava ==
    /\ trava # Nulo /\ trava' = Nulo
    /\ UNCHANGED <<venda, velha, agente, cancelamento, historia>>

Andar(a) == Consultar(a) \/ Confirmar(a) \/ Registrar(a)
Next ==
    \/ \E v \in Vendas :
        \/ Criar(v) \/ Pagar(v) \/ Envelhecer(v) \/ Esfriar(v)
        \/ \E comCarga \in BOOLEAN : Aprovar(v, comCarga)
        \/ IniciarCancelamento(v)
        \/ \E p \in Paineis : Olhar(p, v)
    \/ Cancelar \/ ExpirarTrava
    \/ \E j \in Jobs : MontarLote(j)
    \/ \E a \in Agentes : Andar(a) \/ Errar(a) \/ Cair(a)
Spec == Init /\ [][Next]_vars

\* The job is repeated every 15 s, a step under way ends, a cooldown and a TTL pass; errors
\* and stops come to an end.
Justica ==
    /\ \A j \in Jobs : SF_vars(MontarLote(j)) /\ WF_vars(Andar(j))
    /\ \A v \in Vendas : WF_vars(Esfriar(v))
    /\ WF_vars(ExpirarTrava)
    /\ <>[][\A a \in Agentes : ~Errar(a) /\ ~Cair(a)]_vars
FairSpec == Spec /\ Justica

Carga == [prov : BOOLEAN, motivo : BOOLEAN, falha : {"nenhuma", "em espera", "passada"}]
TypeOK ==
    /\ venda \in [Vendas -> [status : {"nenhuma", "PENDENTE", "APROVADO", "CANCELADO"},
                             paga : BOOLEAN, carga : Carga]]
    /\ velha \subseteq Vendas /\ trocada \subseteq Vendas /\ cruzou \subseteq Vendas
    /\ trava \in Jobs \cup {Nulo}
    /\ cancelamento = Nulo \/ cancelamento \in [v : Vendas, carga : Carga]
    /\ \A a \in Agentes :
        /\ agente[a].passo \in {"ocioso", "visitar", "confirmar", "sucesso", "falha"}
        /\ agente[a].passo # "ocioso" => agente[a].v \in DOMAIN agente[a].lido

\* Whoever writes the payload of a sale, and however old what it had read is, the payload
\* goes on naming the provider of the charge, which a query and a cancellation need: only an
\* approval that brings a payload of its own takes the name away.
CargaNomeiaProvedor ==
    \A v \in Vendas : venda[v].status # "nenhuma" /\ ~venda[v].carga.prov => v \in trocada

\* The reason of a cancellation is kept, whichever batch the sale was in, unless it was
\* cancelled between what an agent did with it and what it wrote of that, or the gateway
\* failed about it afterwards.
MotivoFica ==
    \A v \in Vendas \ cruzou : venda[v].status = "CANCELADO" => venda[v].carga.motivo

\* A paid sale is settled, whoever fails and however long, unless it leaves the window or
\* has a batch of newer ones before it, paid or not: these are asked about first, every time.
Cercada(v) == Cardinality({w \in Pendentes \ velha : w > v}) >= Limite
PagaDaFrenteEResolvida ==
    \A v \in Vendas :
        (v \in Pendentes /\ venda[v].paga) ~> (v \notin Pendentes \/ v \in velha \/ Cercada(v))
=============================================================================
