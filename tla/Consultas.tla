----------------------------- MODULE Consultas -----------------------------
(***************************************************************************)
(* Who finds a sale, and what the answer says of it: the panel, the POS,   *)
(* the shop and the WhatsApp bot read the same rows, each with its own     *)
(* rule of who sees what, its own count of the cards and its own way to    *)
(* ask the gateway about a sale that waits.                                *)
(*                                                                         *)
(* Between what a poll reads and what it answers the sale may be approved  *)
(* by another, cancelled or refused.                                       *)
(***************************************************************************)
EXTENDS Integers, FiniteSets

CONSTANTS
    Vendas, Clientes, Vendedores, Distribuidores,
    Pedidos,      \* polls in flight at the same time
    Admin, Nulo,
    Cpfs,
    CpfDe,        \* CpfDe[c]: the digits of the CPF of the row c
    Mascarados,   \* rows saved with the mask, that the migration left beside their duplicates
    ProdutoDe,    \* ProdutoDe[x]: "premios" or "sena"
    Quantidade,   \* Quantidade[x]: the combos of x; of Sena, its cards
    Chances       \* Chances[x]: the numbers of each combo

VARIABLES
    rede,       \* rede[v]: the network of the seller
    vinculo,    \* vinculo[c]: the link of the customer, [v, d]
    venda,      \* venda[x]: the row of the sale, or SemVenda
    paga,       \* the sales whose charge the gateway has as paid
    consulta,   \* consulta[r]: what poll r has read
    resposta,   \* the last answer: [x, canal, pago]
    aprovou,    \* history: the sales that were approved
    cruzou,     \* history: the sales that were closed while a poll had read them
    dona        \* history: dona[c] is the sale that gave c its link

linhas == <<rede, vinculo, venda, paga>>
historia == <<aprovou, cruzou, dona>>
vars == <<linhas, consulta, resposta, historia>>

SemVenda == [c |-> Nulo, v |-> Nulo, d |-> Nulo, canal |-> Nulo, status |-> "nenhuma", bilhetes |-> 0]
Existe(x) == venda[x] # SemVenda
Livre == [passo |-> "livre", x |-> Nulo, canal |-> Nulo]
Operadores == {Admin} \cup Vendedores \cup Distribuidores
DoPainel == {x \in Vendas : Existe(x) /\ ProdutoDe[x] = "premios"}
Premiadas(c) == {x \in DoPainel : venda[x].c = c}
Comprados(x) == Quantidade[x] * Chances[x]

-----------------------------------------------------------------------------
(* Who sees what. *)
\* buildHierarchyWhere: by the pair that the row keeps.
Hierarquia(u) ==
    {x \in DoPainel : /\ u \in Distribuidores => venda[x].d = u
                      /\ u \in Vendedores => venda[x].v = u}
Filtros == [v : Vendedores \cup {Nulo}, d : Distribuidores \cup {Nulo}]
Passa(x, f) == f.v \in {Nulo, venda[x].v} /\ f.d \in {Nulo, venda[x].d}

\* findAll: the filter AND the scope (mergeWhere).
Painel(u, f) == {x \in Hierarquia(u) : Passa(x, f)}

\* What an equality with the digits of a CPF matches: no row with a mask.
Limpos(cpf) == {c \in Clientes \ Mascarados : CpfDe[c] = cpf}
Carteira(u) ==
    {c \in Clientes : /\ u \in Distribuidores => vinculo[c].d = u
                      /\ u \in Vendedores => vinculo[c].v = u}

\* findByCliente: the customer is looked for by the digits, in the scope of its own link, and
\* then its sales in the scope of theirs.
PorCpf(u, cpf) ==
    {x \in Hierarquia(u) : \E c \in Limpos(cpf) \cap Carteira(u) : x \in Premiadas(c)}

\* Mutant: a distributor owns what its sellers of today sold.
DonaPelaRede(u, x) ==
    IF u \in Vendedores THEN venda[x].v = u
    ELSE IF venda[x].v = Nulo THEN venda[x].d = u ELSE rede[venda[x].v] = u
\* garantirPropriedadeVenda
Dona(u, x) == IF u \in Vendedores THEN venda[x].v = u ELSE venda[x].d = u
NoPos(u) == {x \in Vendas : Existe(x) /\ venda[x].canal = "pos" /\ Dona(u, x)}

\* consultarPedidos and detalharPedido, of both products: whatever the channel of the sale.
\* The token of the bot is of the row that the digits match (autenticarOuCriar).
NoWhatsapp(cpf) == {x \in Vendas : Existe(x) /\ venda[x].c \in Limpos(cpf)}

-----------------------------------------------------------------------------
(* How many cards, in the words of each channel. *)
\* calcularQuantidadeCartelasDaVenda: the tickets, when the caller has them.
Contar(x, bilhetes) == IF bilhetes # Nulo THEN bilhetes ELSE Comprados(x)

\* serializarVendaParaResposta, and `_count.bilhetes || null` of the POS: no ticket is no count.
SeHouver(n) == IF n = 0 THEN Nulo ELSE n

CartelasNoPainel(x) == Contar(x, SeHouver(venda[x].bilhetes))
CartelasNoArquivo(x) == Contar(x, Nulo)
\* The shop shows approved sales only, and counts the tickets as they are.
CartelasNaLoja(x) == Contar(x, venda[x].bilhetes)
CartelasNoWhatsapp(x) == IF venda[x].bilhetes > 0 THEN venda[x].bilhetes ELSE Comprados(x)
CartelasDaSena(x) == Quantidade[x]

-----------------------------------------------------------------------------
Init ==
    /\ rede \in [Vendedores -> Distribuidores]
    /\ vinculo = [c \in Clientes |-> [v |-> Nulo, d |-> Nulo]]
    /\ venda = [x \in Vendas |-> SemVenda]
    /\ paga = {} /\ consulta = [r \in Pedidos |-> Livre] /\ resposta = Nulo
    /\ aprovou = {} /\ cruzou = {} /\ dona = [c \in Clientes |-> Nulo]

\* A purchase with a seller or a network takes the customer to it.
Segue(c, v, d) == d # Nulo

\* A sale with the pair of who sold it (Origem); one of the bot has no pair.  The machine finds
\* a customer by either form of the CPF (buildClienteCpfWhere) and the panel takes its id, so
\* both sell to a row with a mask too.
Vender(x, c, canal, v, d) ==
    /\ ~Existe(x)
    /\ v # Nulo => d = rede[v]
    /\ canal = "whatsapp" => d = Nulo /\ c \notin Mascarados
    /\ canal = "pos" => d # Nulo
    /\ venda' = [venda EXCEPT ![x] = [c |-> c, v |-> v, d |-> d, canal |-> canal,
                                      status |-> "PENDENTE", bilhetes |-> 0]]
    /\ vinculo' = IF Segue(c, v, d) THEN [vinculo EXCEPT ![c] = [v |-> v, d |-> d]] ELSE vinculo
    /\ dona' = IF d # Nulo THEN [dona EXCEPT ![c] = x] ELSE dona
    /\ UNCHANGED <<rede, paga, consulta, resposta, aprovou, cruzou>>

\* PATCH of the customer (Clientes) and of the seller (Cadastros): no sale follows.
Religar(c, v, d) ==
    /\ v # Nulo => d = rede[v]
    /\ vinculo[c] # [v |-> v, d |-> d]
    /\ vinculo' = [vinculo EXCEPT ![c] = [v |-> v, d |-> d]]
    /\ dona' = [dona EXCEPT ![c] = Nulo]
    /\ UNCHANGED <<rede, venda, paga, consulta, resposta, aprovou, cruzou>>
Transferir(v, d) ==
    /\ rede[v] # d
    /\ rede' = [rede EXCEPT ![v] = d]
    /\ UNCHANGED <<vinculo, venda, paga, consulta, resposta, historia>>

Pagar(x) ==
    /\ Existe(x) /\ x \notin paga
    /\ paga' = paga \cup {x}
    /\ UNCHANGED <<rede, vinculo, venda, consulta, resposta, historia>>

\* What an approval leaves, its tickets allocated, and what a cancellation frees (Vendas).
Aprovada(x) == [venda[x] EXCEPT !.status = "APROVADO", !.bilhetes = Comprados(x)]
Encerrada(x, status) == [venda[x] EXCEPT !.status = status, !.bilhetes = 0]
LidaPor(x) == {r \in Pedidos : consulta[r].x = x}

\* A webhook, the job or the ADMIN.
Aprovar(x) ==
    /\ venda[x].status = "PENDENTE"
    /\ venda' = [venda EXCEPT ![x] = Aprovada(x)] /\ aprovou' = aprovou \cup {x}
    /\ UNCHANGED <<rede, vinculo, paga, consulta, resposta, cruzou, dona>>
Fechar(x, status) ==
    /\ venda[x].status \in (IF status = "RECUSADO" THEN {"PENDENTE"}
                            ELSE {"PENDENTE", "APROVADO", "RECUSADO"})
    /\ venda' = [venda EXCEPT ![x] = Encerrada(x, status)]
    /\ cruzou' = IF LidaPor(x) = {} THEN cruzou ELSE cruzou \cup {x}
    /\ UNCHANGED <<rede, vinculo, paga, consulta, resposta, aprovou, dona>>

-----------------------------------------------------------------------------
(* The polls: consultarStatusPagamento(Sena) of the POS and of the bot, findOne and       *)
(* consultarStatus of the panel.                                                          *)
Responder(r, canal, x, pago) ==
    /\ resposta' = [x |-> x, canal |-> canal, pago |-> pago]
    /\ consulta' = [consulta EXCEPT ![r] = Livre]

Enxerga(canal, x) ==
    CASE canal = "pos" -> \E u \in Vendedores \cup Distribuidores : x \in NoPos(u)
      [] canal = "painel" -> x \in DoPainel
      [] canal = "whatsapp" -> \E cpf \in Cpfs : x \in NoWhatsapp(cpf)

\* The panel asks the gateway about the sales of the POS, the others about any that waits.
PerguntaAoGateway(canal, x) ==
    venda[x].status = "PENDENTE" /\ (canal = "painel" => venda[x].canal = "pos")
Ler(r, canal, x) ==
    /\ consulta[r] = Livre /\ Enxerga(canal, x)
    /\ \/ /\ PerguntaAoGateway(canal, x)
          /\ consulta' = [consulta EXCEPT ![r] = [passo |-> "gateway", x |-> x, canal |-> canal]]
          /\ UNCHANGED resposta
       \/ /\ ~PerguntaAoGateway(canal, x)
          /\ Responder(r, canal, x, venda[x].status = "APROVADO")
    /\ UNCHANGED <<linhas, historia>>

\* Mutant: the bot answers what the gateway says.
RespostaDoGateway(x) == x \in paga
\* The bot never confirms: it answers the status that it read, and that was PENDENTE.
RespostaDoBot(x) == FALSE

\* The gateway answers, or does not (then the row is answered as it was read).
Perguntar(r) ==
    LET q == consulta[r]
    IN  /\ q.passo = "gateway"
        /\ \/ /\ q.x \in paga /\ q.canal # "whatsapp"
              /\ consulta' = [consulta EXCEPT ![r].passo = "confirmar"]
              /\ UNCHANGED resposta
           \/ Responder(r, q.canal, q.x, q.canal = "whatsapp" /\ RespostaDoBot(q.x))
        /\ UNCHANGED <<linhas, historia>>

\* confirmarPagamento refuses a sale that no longer waits.  The panel then reads the row
\* again; the POS takes the refusal for "já havia sido confirmada".
Confirmar(r) ==
    LET q == consulta[r]
    IN  /\ q.passo = "confirmar"
        /\ \/ /\ venda[q.x].status = "PENDENTE"
              /\ venda' = [venda EXCEPT ![q.x] = Aprovada(q.x)]
              /\ aprovou' = aprovou \cup {q.x}
              /\ Responder(r, q.canal, q.x, TRUE)
           \/ /\ venda[q.x].status # "PENDENTE"
              /\ Responder(r, q.canal, q.x, q.canal = "pos" \/ venda[q.x].status = "APROVADO")
              /\ UNCHANGED <<venda, aprovou>>
        /\ UNCHANGED <<rede, vinculo, paga, cruzou, dona>>

Next ==
    \/ \E c \in Clientes, v \in Vendedores \cup {Nulo}, d \in Distribuidores \cup {Nulo} :
         \/ Religar(c, v, d)
         \/ \E x \in Vendas, canal \in {"pos", "painel", "whatsapp"} : Vender(x, c, canal, v, d)
    \/ \E v \in Vendedores, d \in Distribuidores : Transferir(v, d)
    \/ \E x \in Vendas :
         \/ Pagar(x) \/ Aprovar(x) \/ Fechar(x, "RECUSADO") \/ Fechar(x, "CANCELADO")
         \/ \E r \in Pedidos, canal \in {"pos", "painel", "whatsapp"} : Ler(r, canal, x)
    \/ \E r \in Pedidos : Perguntar(r) \/ Confirmar(r)

Spec == Init /\ [][Next]_vars

-----------------------------------------------------------------------------
Linha == [c : Clientes, v : Vendedores \cup {Nulo}, d : Distribuidores \cup {Nulo},
          canal : {"pos", "painel", "whatsapp"}, bilhetes : Nat,
          status : {"PENDENTE", "APROVADO", "RECUSADO", "CANCELADO"}]
TypeOK ==
    /\ rede \in [Vendedores -> Distribuidores]
    /\ vinculo \in [Clientes -> Filtros]
    /\ venda \in [Vendas -> Linha \cup {SemVenda}]
    /\ paga \subseteq Vendas /\ aprovou \subseteq Vendas /\ cruzou \subseteq Vendas
    /\ \A r \in Pedidos : consulta[r].passo \in {"livre", "gateway", "confirmar"}
    /\ dona \in [Clientes -> Vendas \cup {Nulo}]

\* A filter by seller or by network brings no sale into the list of who did not have it.
FiltroNaoAlarga ==
    \A x \in Vendas : Existe(x) =>
        \A u \in Operadores, f \in Filtros : x \in Painel(u, f) => x \in Hierarquia(u)

\* The 403 of the POS and the 404 of the panel draw the same line: the operator of a
\* terminal follows there the sales of Prêmios that its panel lists, wherever the seller
\* has been moved since.
PosEPainelConcordam ==
    \A u \in Vendedores \cup Distribuidores :
        NoPos(u) \cap DoPainel = {x \in Hierarquia(u) : venda[x].canal = "pos"}

\* The search by CPF asks twice for the scope, of the customer and of the sale: of a customer
\* saved without a mask, the sale that gave the link is found by its seller and by its
\* network.  The sales of a row with a mask are found by nobody, the ADMIN included, although
\* "A leitura aceita os dois formatos" (cpf.util.ts:10): those and no others.
AchaPorCpf ==
    /\ \A c \in Clientes \ Mascarados : dona[c] \in DoPainel =>
          LET x == venda[dona[c]]
          IN  \A u \in ({x.v} \cap Vendedores) \cup ({x.d} \cap Distribuidores) :
                 dona[c] \in PorCpf(u, CpfDe[c])
    /\ \A x \in DoPainel : venda[x].c \in Mascarados <=> \A cpf \in Cpfs : x \notin PorCpf(Admin, cpf)

\* The channels say the same number of cards of a sale, which is what was bought, before
\* the tickets exist, while they do and after they are freed.
CanaisContamIgual ==
    \A x \in Vendas : Existe(x) =>
        IF ProdutoDe[x] = "sena" THEN CartelasDaSena(x) = Comprados(x)
        ELSE /\ {CartelasNoPainel(x), CartelasNoArquivo(x), CartelasNoWhatsapp(x)} = {Comprados(x)}
             /\ venda[x].status = "APROVADO" => CartelasNaLoja(x) = Comprados(x)

\* "pago" is said of a sale that was approved; the POS may say it of one that was cancelled
\* or refused while it polled.
PagoFoiAprovada ==
    resposta # Nulo /\ resposta.pago =>
        resposta.x \in aprovou \/ (resposta.canal = "pos" /\ resposta.x \in cruzou)
=============================================================================
