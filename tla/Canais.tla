------------------------------- MODULE Canais --------------------------------
(***************************************************************************)
(* What comes from outside: who looks at an offer and buys it (Vitrine),   *)
(* the webhooks of the gateways (Pagamentos), who looks for a sale or      *)
(* polls its payment (Consultas), and the contact form of the shop         *)
(* (FaleConosco); the job that settles what nobody notified                *)
(* (Reconciliacao); and the trail that the writes of all of them leave     *)
(* (Auditoria).  The same processes serve the six; each module keeps, of   *)
(* the rows and keys, the ones it asks about, so a step of one leaves the  *)
(* others alone.                                                           *)
(***************************************************************************)
EXTENDS Pagamentos, Sequences

CONSTANTS
    Compras, Clientes, Vendedores, Distribuidores, Admin,
    Cpfs, CpfDe, Mascarados, ProdutoDe, Quantidade, Chances, \* the constants of Consultas
    Mensagens, Limite, MaxMensagens, MaxConta,        \* those of FaleConosco
    VendasPos, Jobs, Paineis, LoteDoJob,              \* of Reconciliacao
    Escritores, LinhasDoBanco, Roteiros, Conexoes,    \* of Auditoria
    Conjuntos, MaxQuantidade, MaxVersoes              \* and of Vitrine

\* A sale has cards, and a card of the Sena is one; who operates is a seller or a network,
\* not both, and the ADMIN neither.  Cliente.cpf is unique, which a mask gets around.
ASSUME ConsultasAssumption ==
    /\ Admin \notin Vendedores \cup Distribuidores
    /\ CpfDe \in [Clientes -> Cpfs]
    /\ \A c, k \in Clientes \ Mascarados : CpfDe[c] = CpfDe[k] => c = k
    /\ Nulo \notin Compras \cup Vendedores \cup Distribuidores
    /\ Vendedores \cap Distribuidores = {}
    /\ Quantidade \in [Compras -> Nat \ {0}] /\ Chances \in [Compras -> Nat \ {0}]
    /\ \A x \in Compras : ProdutoDe[x] = "sena" => Chances[x] = 1

\* The sales of the machines are numbered in the order of createdAt.
ASSUME ReconciliacaoAssumption ==
    IsFiniteSet(VendasPos) /\ VendasPos = 1 .. Cardinality(VendasPos)

\* Every write is audited, of one row or in lots.  Rows are numbered in the order in which the
\* requests write them: opposite orders are the matter of TravasDeLinha.
ASSUME AuditoriaAssumption ==
    /\ IsFiniteSet(Escritores) /\ IsFiniteSet(LinhasDoBanco) /\ Conexoes \in Nat
    /\ LinhasDoBanco = 1 .. Cardinality(LinhasDoBanco)
    /\ Nulo \notin Escritores \X (1 .. 3)
    /\ \A r \in Roteiros :
          /\ r \in Seq([op : {"update", "updateMany"}, linha : LinhasDoBanco]) /\ Len(r) \in 1 .. 3
          /\ \A i, j \in DOMAIN r : i < j => r[i].linha <= r[j].linha

\* An edition has combos, no two of one origin with the same number of chances (validarCombos),
\* and POS is the origin of no combo.
ASSUME VitrineAssumption ==
    /\ MaxQuantidade \in Nat /\ MaxVersoes \in Nat
    /\ \A combos \in Conjuntos :
          /\ combos # {} /\ combos \subseteq [origem : {"DIGITAL", "FISICO"}, chances : Nat \ {0}, preco : Nat]
          /\ \A c, d \in combos : c.origem = d.origem /\ c.chances = d.chances => c = d
          /\ \A c \in combos, n \in 0 .. MaxVersoes : <<n, c.origem, c.chances>> # Nulo

VARIABLES
    rede, vinculo, linha, paga, consulta, resposta, aprovou, cruzou, dona,
    comRedis, conta, prazo, envio, gravadas, parou, perdida, juntos,
    vendaPos, velha, turno, agente, cancelamento, trocada, cruzada,
    banco, trilha, escritor, sobreposto, opaca,
    edicaoVista, tela, compra

consultas == <<rede, vinculo, linha, paga, consulta, resposta, aprovou, cruzou, dona>>
contato == <<comRedis, conta, prazo, envio, gravadas, parou, perdida, juntos>>
reconciliacao == <<vendaPos, velha, turno, agente, cancelamento, trocada, cruzada>>
auditoria == <<banco, trilha, escritor, sobreposto, opaca>>
vitrine == <<edicaoVista, tela, compra>>

Q == INSTANCE Consultas WITH Vendas <- Compras, venda <- linha
F == INSTANCE FaleConosco WITH pedido <- envio, concorreu <- juntos
R == INSTANCE Reconciliacao WITH
         Vendas <- VendasPos, Limite <- LoteDoJob, venda <- vendaPos, trava <- turno, cruzou <- cruzada
A == INSTANCE Auditoria WITH
         Pedidos <- Escritores, Linhas <- LinhasDoBanco, pedido <- escritor, concorreu <- sobreposto
V == INSTANCE Vitrine WITH edicao <- edicaoVista, venda <- compra

CanaisInit == Init /\ Q!Init /\ F!Init /\ R!Init /\ A!Init /\ V!Init
PassoDaCobranca == Next /\ UNCHANGED <<consultas, contato, reconciliacao, auditoria, vitrine>>
PassoDaConsulta == Q!Next /\ UNCHANGED <<vars, contato, reconciliacao, auditoria, vitrine>>
PassoDoContato == F!Next /\ UNCHANGED <<vars, consultas, reconciliacao, auditoria, vitrine>>
PassoDaReconciliacao == R!Next /\ UNCHANGED <<vars, consultas, contato, auditoria, vitrine>>
PassoDaTrilha == A!Next /\ UNCHANGED <<vars, consultas, contato, reconciliacao, vitrine>>
PassoDaVitrine == V!Next /\ UNCHANGED <<vars, consultas, contato, reconciliacao, auditoria>>
CanaisNext ==
    \/ PassoDaCobranca \/ PassoDaConsulta \/ PassoDoContato \/ PassoDaReconciliacao
    \/ PassoDaTrilha \/ PassoDaVitrine
canais == <<vars, consultas, contato, reconciliacao, auditoria, vitrine>>
CanaisSpec == CanaisInit /\ [][CanaisNext]_canais
-----------------------------------------------------------------------------
\* Who sees a sale: no filter widens the list of the panel (Consultas!FiltroNaoAlarga), the POS
\* follows the sales that the panel lists (PosEPainelConcordam), and the search by CPF finds
\* those of a customer saved without a mask, and no others (AchaPorCpf), whatever network the
\* seller was moved to.
VeQuemVendeu == Q!TypeOK /\ Q!FiltroNaoAlarga /\ Q!PosEPainelConcordam /\ Q!AchaPorCpf

\* What the channels answer: they count the same cards (Consultas!CanaisContamIgual), and say
\* "pago" of what was approved (PagoFoiAprovada).
RespostasConcordam == Q!CanaisContamIgual /\ Q!PagoFoiAprovada

\* A message is saved once in its cooldown (FaleConosco!MensagemUmaVez), who is told to wait
\* has its message saved (RecusaTemMensagem), and the limits yield (LimiteCede).
ContatoConfere == F!TypeOK /\ F!MensagemUmaVez /\ F!RecusaTemMensagem /\ F!LimiteCede

\* Whoever writes the payload of a sale over what others wrote, it goes on naming the provider
\* of the charge and the reason of a cancellation (Reconciliacao!CargaNomeiaProvedor, MotivoFica).
CargaNaoSePerde == R!TypeOK /\ R!CargaNomeiaProvedor /\ R!MotivoFica

\* What is in the database has its record (Auditoria!EscritaTemRegistro), the records of a row
\* are a chain while requests come one at a time (TrilhaEncadeadaEmSerie), and a connection
\* left is enough to go on (ComFolgaNaoTrava).
TrilhaConfere ==
    A!TypeOK /\ A!EscritaTemRegistro /\ A!TrilhaEncadeadaEmSerie /\ A!ComFolgaNaoTrava

\* What the screen shows is charged (Vitrine!CobraOQueMostrou), accepted (OfertaVale), the
\* same in every channel (PrecoIgualNosCanais) and can be delivered (VendidoSeEntrega),
\* although the ADMIN replaces the combos between the screen, the charge and the approval.
OfertaSeCumpre ==
    V!TypeOK /\ V!CobraOQueMostrou /\ V!OfertaVale /\ V!PrecoIgualNosCanais /\ V!VendidoSeEntrega
=============================================================================
