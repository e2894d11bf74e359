------------------------------- MODULE Frota -------------------------------
(***************************************************************************)
(* The fleet of card machines (MaquininhasService) and the sales that the  *)
(* POS makes on them: a machine is of one network and at most of one of    *)
(* its sellers, and who reaches it reads its history.                      *)
(*                                                                         *)
(* A request checks and then writes, with nothing held in between: another *)
(* request, or the ADMIN's PATCH of the seller, may fall between the two.  *)
(* The credit of the machine is in CreditoMaquininha; here its balance may *)
(* be zero at any time.                                                    *)
(***************************************************************************)
EXTENDS Integers, SequencesExt

CONSTANTS
    Maquininhas,    \* serial numbers, normalized
    Vendedores, Distribuidores,
    Pedidos,        \* requests in flight at the same time
    Admin,
    Nulo, Ausente,  \* an empty field; a field that did not come
    MaxVendas       \* bound: the sales of a behaviour

VARIABLES
    rede,       \* rede[v]: the network of the seller
    aprovado,   \* the sellers with aprovadoEm and no rejeitadoEm
    maquina,    \* maquina[m]: its row, or SemLinha
    tarefa,     \* tarefa[r]: what request r has checked and will write
    historico,  \* the sales with a machine, in the order of createdAt
    mudou,      \* history: the machines and sellers that changed network
    concorreu   \* history: have two requests ever been in flight together?

servico == <<rede, aprovado, maquina, tarefa, historico>>
vars == <<servico, mudou, concorreu>>

SemLinha == [d |-> Nulo, v |-> Nulo, ativa |-> FALSE, excluida |-> FALSE]
Existe(m) == maquina[m] # SemLinha
Livre == [passo |-> "livre", u |-> Admin, m |-> Nulo, d |-> Ausente, v |-> Ausente,
          ativa |-> Ausente, tipo |-> Ausente]
Tipos == {"CDP", "SENA"}
Operadores == {Admin} \cup Vendedores \cup Distribuidores
Corpos == [d : Distribuidores \cup {Ausente}, v : Vendedores \cup {Nulo, Ausente},
           ativa : BOOLEAN \cup {Ausente}]

\* buildEscopoDoOperador: every read of a machine goes through it.
Alcanca(u, m) ==
    /\ Existe(m) /\ ~maquina[m].excluida
    /\ u \in Distribuidores => maquina[m].d = u
    /\ u \in Vendedores => maquina[m].v = u

\* findAll: only the ADMIN's filter by network is read, since it REPLACES the scope's.
Listar(u, filtro) ==
    {m \in Maquininhas : Alcanca(u, m) /\ (u = Admin /\ filtro \in Distribuidores => maquina[m].d = filtro)}

\* A machine that sells: of the operator, not excluded and ATIVA.  By id or by serial number.
Opera(u, m) == Alcanca(u, m) /\ maquina[m].ativa

\* garantirVendedorDaRede
VendedorDaRede(v, d) == rede[v] = d /\ v \in aprovado

-----------------------------------------------------------------------------
Init ==
    /\ rede \in [Vendedores -> Distribuidores]
    /\ aprovado = {}
    /\ maquina = [m \in Maquininhas |-> SemLinha]
    /\ tarefa = [r \in Pedidos |-> Livre]
    /\ historico = << >>
    /\ mudou = {} /\ concorreu = FALSE

Planejar(r, t) == tarefa[r] = Livre /\ tarefa' = [tarefa EXCEPT ![r] = t]
Terminar(r) == tarefa' = [tarefa EXCEPT ![r] = Livre]

\* create, up to the transaction.  A distributor registers in its own network, whatever the
\* body names; the serial number of an excluded machine does not come back.
PedirCadastro(r, u, m, d, v) ==
    LET alvo == IF u \in Distribuidores THEN u ELSE d
    IN  /\ ~Existe(m)
        /\ v \in Vendedores => VendedorDaRede(v, alvo)
        /\ Planejar(r, [Livre EXCEPT !.passo = "cadastrar", !.u = u, !.m = m, !.d = alvo, !.v = v])
        /\ UNCHANGED <<rede, aprovado, maquina, historico, mudou>>

\* The serial number is unique: of two inserts the second aborts.  It is born ATIVA.
Cadastrar(r) ==
    LET t == tarefa[r]
    IN  /\ t.passo = "cadastrar"
        /\ maquina' = IF Existe(t.m) THEN maquina
                      ELSE [maquina EXCEPT ![t.m] = [d |-> t.d, v |-> t.v, ativa |-> TRUE,
                                                     excluida |-> FALSE]]
        /\ Terminar(r)
        /\ UNCHANGED <<rede, aprovado, historico, mudou>>

\* update, up to the write: only the ADMIN moves the machine, and the seller it names is
\* of the network where the machine will be.
PedirAlteracao(r, u, m, corpo) ==
    LET d == IF u = Admin /\ corpo.d # Ausente THEN corpo.d ELSE maquina[m].d
    IN  /\ Alcanca(u, m)
        /\ corpo.v \in Vendedores => VendedorDaRede(corpo.v, d)
        /\ Planejar(r, [Livre EXCEPT !.passo = "alterar", !.u = u, !.m = m, !.v = corpo.v,
                            !.d = IF d = maquina[m].d THEN Ausente ELSE d, !.ativa = corpo.ativa])
        /\ UNCHANGED <<rede, aprovado, maquina, historico, mudou>>

\* Mutant: the machine leaves the network with its seller.
DonoQueFica(t, atual) == IF t.v # Ausente THEN t.v ELSE atual
\* A machine that changes network lets go of its seller, unless a new one is named; an
\* empty seller returns it to the stock.
NovoDono(t, atual) ==
    IF t.v # Ausente THEN t.v ELSE IF t.d # Ausente THEN Nulo ELSE atual

Alterada(linha, t) ==
    [linha EXCEPT !.d = IF t.d = Ausente THEN @ ELSE t.d, !.v = NovoDono(t, @),
                  !.ativa = IF t.ativa = Ausente THEN @ ELSE t.ativa]

Alterar(r) ==
    LET t == tarefa[r]
    IN  /\ t.passo = "alterar"
        /\ maquina' = [maquina EXCEPT ![t.m] = Alterada(maquina[t.m], t)]
        /\ mudou' = IF maquina'[t.m].d # maquina[t.m].d THEN mudou \cup {t.m} ELSE mudou
        /\ Terminar(r)
        /\ UNCHANGED <<rede, aprovado, historico>>

\* remove: the ADMIN, and a balance of zero.  The row stays.
PedirExclusao(r, m) ==
    /\ Alcanca(Admin, m)
    /\ Planejar(r, [Livre EXCEPT !.passo = "excluir", !.m = m])
    /\ UNCHANGED <<rede, aprovado, maquina, historico, mudou>>
Excluir(r) ==
    /\ tarefa[r].passo = "excluir"
    /\ maquina' = [maquina EXCEPT ![tarefa[r].m].excluida = TRUE]
    /\ Terminar(r)
    /\ UNCHANGED <<rede, aprovado, historico, mudou>>

\* criarVenda and criarVendaSena: the machine is checked before the sale is created, and
\* the network of the sale is the seller's when the row is written (Origem).
PedirVenda(r, u, m, v, tipo) ==
    /\ Opera(u, m)
    /\ Planejar(r, [Livre EXCEPT !.passo = "vender", !.u = u, !.m = m, !.v = v, !.tipo = tipo])
    /\ UNCHANGED <<rede, aprovado, maquina, historico, mudou>>
RedeDaVenda(t) == IF t.u \in Vendedores THEN rede[t.u] ELSE t.u
Vender(r) ==
    LET t == tarefa[r]
    IN  /\ t.passo = "vender"
        /\ historico' = IF t.v \in Vendedores /\ rede[t.v] # RedeDaVenda(t) THEN historico
                        ELSE Append(historico, [m |-> t.m, v |-> t.v, d |-> RedeDaVenda(t),
                                                tipo |-> t.tipo])
        /\ Terminar(r)
        /\ UNCHANGED <<rede, aprovado, maquina, mudou>>

\* PATCH of the seller by ADMIN (Cadastros): its machine is not looked at.
Transferir(v, d) ==
    /\ rede[v] # d
    /\ rede' = [rede EXCEPT ![v] = d]
    /\ mudou' = mudou \cup {v}
    /\ UNCHANGED <<aprovado, maquina, tarefa, historico>>
AprovarVendedor(v) ==
    /\ v \notin aprovado
    /\ aprovado' = aprovado \cup {v}
    /\ UNCHANGED <<rede, maquina, tarefa, historico, mudou>>

EmVoo == {r \in Pedidos : tarefa[r] # Livre}
Passo ==
    \/ \E r \in Pedidos \ EmVoo, m \in Maquininhas, u \in {Admin} \cup Distribuidores :
         \/ \E d \in Distribuidores, v \in Vendedores \cup {Nulo} : PedirCadastro(r, u, m, d, v)
         \/ \E corpo \in Corpos : PedirAlteracao(r, u, m, corpo)
    \/ \E r \in Pedidos \ EmVoo, m \in Maquininhas, tipo \in Tipos :
         /\ Len(historico) < MaxVendas
         /\ \/ \E u \in Vendedores : PedirVenda(r, u, m, u, tipo)
            \/ \E u \in Distribuidores, v \in Vendedores \cup {Nulo} : PedirVenda(r, u, m, v, tipo)
    \/ \E r \in Pedidos :
         \/ \E m \in Maquininhas : PedirExclusao(r, m)
         \/ Cadastrar(r) \/ Alterar(r) \/ Excluir(r) \/ Vender(r)
    \/ \E v \in Vendedores : AprovarVendedor(v) \/ \E d \in Distribuidores : Transferir(v, d)

Next == Passo /\ concorreu' = (concorreu \/ \E r, s \in EmVoo' : r # s)

Spec == Init /\ [][Next]_vars

-----------------------------------------------------------------------------
(* The history of a machine, page by page (listarVendasDaMaquininha). *)
\* orderBy createdAt desc.
DaUltima(S) ==
    CHOOSE s \in [1..Cardinality(S) -> S] : \A i, j \in DOMAIN s : i < j => s[i] > s[j]
\* slice(antes, ate); take: ate is slice(0, ate).
Fatia(s, antes, ate) == SubSeq(s, antes + 1, IF ate < Len(s) THEN ate ELSE Len(s))

\* The rows of one product; Nulo is no filter by product.
Linhas(m, tipo) == {i \in DOMAIN historico : historico[i].m = m /\ historico[i].tipo = tipo}
Incluidos(filtro) == {tipo \in Tipos : filtro \in {Nulo, tipo}}

\* skip + limit of each table, so that the page is in what came.
Janela(p, limite) == p * limite
Tabela(m, tipo, janela) == Fatia(DaUltima(Linhas(m, tipo)), 0, janela)

Pagina(m, filtro, p, limite) ==
    LET vieram == UNION {ToSet(Tabela(m, tipo, Janela(p, limite))) : tipo \in Incluidos(filtro)}
    IN  Fatia(DaUltima(vieram), (p - 1) * limite, p * limite)
Total(m, filtro) ==
    LET conta(tipo) == IF tipo \in Incluidos(filtro) THEN Cardinality(Linhas(m, tipo)) ELSE 0
    IN  conta("CDP") + conta("SENA")

-----------------------------------------------------------------------------
Linha == [d : Distribuidores, v : Vendedores \cup {Nulo}, ativa : BOOLEAN, excluida : BOOLEAN]
TypeOK ==
    /\ rede \in [Vendedores -> Distribuidores] /\ aprovado \subseteq Vendedores
    /\ maquina \in [Maquininhas -> Linha \cup {SemLinha}]
    /\ tarefa \in [Pedidos -> [passo : {"livre", "cadastrar", "alterar", "excluir", "vender"},
                   u : Operadores, m : Maquininhas \cup {Nulo}, d : Distribuidores \cup {Ausente},
                   v : Vendedores \cup {Nulo, Ausente}, ativa : BOOLEAN \cup {Ausente},
                   tipo : Tipos \cup {Ausente}]]
    /\ historico \in Seq([m : Maquininhas, v : Vendedores \cup {Nulo}, d : Distribuidores, tipo : Tipos])
    /\ mudou \subseteq Maquininhas \cup Vendedores /\ concorreu \in BOOLEAN

\* "manter o vínculo deixaria um aparelho de uma rede operado por vendedor de outra"
\* (maquininhas.service.ts:291): while no two requests overlapped, the seller of a machine
\* is an approved one of its network, unless the seller was moved.
AparelhoNaRede ==
    ~concorreu => \A m \in Maquininhas :
        maquina[m].v \in Vendedores \ mudou => VendedorDaRede(maquina[m].v, maquina[m].d)

\* "toda venda daquele aparelho e, por construcao, da rede de quem pode ve-lo"
\* (pos.service.ts:507): so it is while neither the machine nor its sellers ever moved.
HistoricoDaRede ==
    \A i \in DOMAIN historico :
        LET x == historico[i]
        IN  ~concorreu /\ mudou = {} => \A d \in Distribuidores : Alcanca(d, x.m) => x.d = d

\* A filter takes machines off the list of an operator and brings none to it.
ListaNaoAlarga ==
    \A u \in Operadores, d \in Distribuidores : Listar(u, d) \subseteq Listar(u, Nulo)

\* The pages and the total of the two tables are those of one table with the sales of both,
\* whatever the size of the page and the filter.
PaginasFecham ==
    \A m \in Maquininhas, filtro \in Tipos \cup {Nulo} :
        LET todas == UNION {Linhas(m, tipo) : tipo \in Incluidos(filtro)}
        IN  /\ Total(m, filtro) = Cardinality(todas)
            /\ \A limite \in DOMAIN historico, p \in 1..(Len(historico) + 1) :
                  Pagina(m, filtro, p, limite) = Fatia(DaUltima(todas), (p - 1) * limite, p * limite)
=============================================================================
