---------------------------- MODULE MCPagamentos ----------------------------
(***************************************************************************)
(* What comes from outside, in six scenes: a charge, its webhooks and its  *)
(* provider (Pagamentos); who finds a sale and polls its payment           *)
(* (Consultas); the contact form of the shop (FaleConosco); the job with   *)
(* the panel that looks at the same sales (Reconciliacao); the trail of    *)
(* the writes of three requests, with two connections (Auditoria); and     *)
(* what the channels show and charge while combos change (Vitrine).        *)
(* What a scene does not play stays as it began.                           *)
(***************************************************************************)
EXTENDS Canais, TLC

CONSTANTS p1, p2, v1, s1, k1, d1, d2, c1, c2, n1, x1, x2, w1, t1, a1, a2, a3

\* A sale of each product: of Prêmios, two cards of two chances; of Sena, two cards.
MCProdutoDe == (x1 :> "premios") @@ (x2 :> "sena")
MCQuantidade == (x1 :> 2) @@ (x2 :> 2)
\* A customer registered twice, once with a mask.
MCCpfDe == (c1 :> n1) @@ (c2 :> n1)
MCChances == (x1 :> 2) @@ (x2 :> 1)
\* An update of row l, a write in lots of it.  One row twice, two rows, and a debit that is a
\* lot, then a sale.
U(l) == [op |-> "update", linha |-> l]
Lote(l) == [op |-> "updateMany", linha |-> l]
MCRoteiros == {<<U(1), U(1)>>, <<U(1), U(2)>>, <<Lote(1), U(2)>>}
\* One chance and two; one of them dearer; no single card; single cards that are not
\* digital, alone or beside digital ones.
Combo(origem, chances, preco) == [origem |-> origem, chances |-> chances, preco |-> preco]
FisicoEDigital == {Combo("FISICO", 1, 5), Combo("DIGITAL", 2, 4)}
MCConjuntos ==
    {{Combo("DIGITAL", 1, 2), Combo("DIGITAL", 2, 4)}, {Combo("DIGITAL", 1, 3), Combo("DIGITAL", 2, 4)},
     {Combo("DIGITAL", 2, 4), Combo("DIGITAL", 3, 6)}, FisicoEDigital,
     {Combo("FISICO", 1, 5), Combo("DIGITAL", 1, 2), Combo("FISICO", 2, 3)}}
MCLimite == ("guarda" :> 2) @@ ("ip" :> 2) @@ ("cpf" :> 1)

\* Sales share nothing here but the requests: in each behaviour one of them, of PIX,
\* of Capital Sena or by card, is alive.
VARIABLES cena, viva

\* Two sales at once only to see who finds them; of one, everything.
UmaVenda ==
    (\A x \in {x1, x2} : linha'[x] # Q!SemVenda) =>
        /\ paga' = {} /\ resposta' = Nulo /\ \A r \in Pedidos : consulta'[r] = Q!Livre
        /\ \A x \in {x1, x2} : linha'[x].status = "PENDENTE"

\* The mask and the link of a customer change what the searches find, and nothing of a poll:
\* the polls are of a sale to the other row, that keeps the pair of the sale.
DoPar(x) == linha'[x].c = c1 /\ vinculo'[c1] = [v |-> linha'[x].v, d |-> linha'[x].d]
SoConsultas ==
    \/ paga' = {} /\ resposta' = Nulo /\ \A r \in Pedidos : consulta'[r] = Q!Livre
    \/ /\ vinculo'[c2] = [v |-> Nulo, d |-> Nulo]
       /\ \A x \in {x1, x2} : linha'[x] # Q!SemVenda => DoPar(x)

\* An edition whose closing has passed sells no more, under maintenance or not.
VencidaSemManutencao == ~(edicaoVista'.vencida /\ edicaoVista'.manutencao)

\* A card is charged at PagBank, and a sale of the Sena differs in how it is found and approved,
\* not in what a provider does: besides PagBank one provider of the day is enough.  Once there
\* is a charge, what matters is whether the provider of the day is the one of the charge.
DoDia(g) ==
    LET dela == cobranca[viva].prov IN
    IF dela = Nulo THEN viva # v1 => g \in {"PAGBANK", "FSPAY"}
    ELSE g \in {dela, IF dela = "FSPAY" THEN "PAGBANK" ELSE "FSPAY"}

\* Two notifications at once of a sale of Prêmios, or of a provider with one identifier; those
\* that PagBank sends of a sale of the Sena are served one at a time.
UmaDaSena ==
    viva = s1 /\ cobranca'[viva].prov = "PAGBANK" =>
        Cardinality({p \in Pedidos : pedido'[p].passo # "ocioso"}) <= 1

\* The panel looks, or the ADMIN cancels, while there is one sale.
UmaDoJob ==
    /\ cancelamento' = Nulo \/ \A a \in Paineis : agente'[a].passo = "ocioso"
    /\ vendaPos'[2].status # "nenhuma" =>
           cancelamento' = Nulo /\ \A a \in Paineis : agente'[a].passo = "ocioso"

\* The writers are interchangeable: they arrive in order.
EmOrdem ==
    \A par \in {<<a1, a2>>, <<a2, a3>>} :
        escritor'[par[2]].passo # "chegar" => escritor'[par[1]].passo # "chegar"

MCInit ==
    /\ CanaisInit /\ viva \in Vendas
    /\ cena \in {"cobranca", "consultas", "contato", "job", "trilha", "vitrine"} /\ DoDia(provedor)
    /\ cena # "cobranca" => provedor = "FSPAY" /\ viva = v1
    /\ cena # "consultas" => rede = [w \in {w1} |-> d1]
    /\ cena # "contato" => comRedis
    /\ cena # "vitrine" => edicaoVista.combos = FisicoEDigital
MCNext ==
    /\ UNCHANGED <<cena, viva>>
    /\ \/ /\ cena = "cobranca" /\ PassoDaCobranca /\ DoDia(provedor') /\ UmaDaSena
          /\ \A v \in Vendas \ {viva} : venda'[v] = venda[v]
       \/ cena = "consultas" /\ PassoDaConsulta /\ UmaVenda /\ SoConsultas
       \/ cena = "contato" /\ PassoDoContato
       \/ cena = "job" /\ PassoDaReconciliacao /\ UmaDoJob
       \/ cena = "trilha" /\ PassoDaTrilha /\ EmOrdem
       \/ cena = "vitrine" /\ PassoDaVitrine /\ VencidaSemManutencao
MCSpec == MCInit /\ [][MCNext]_<<canais, cena, viva>>

Simetria == Permutations(Pedidos)

\* Maintenance blocks every channel (Vitrine!ManutencaoBloqueia): what the code breaks.
ManutencaoBloqueia == cena = "vitrine" => V!ManutencaoBloqueia
=============================================================================
