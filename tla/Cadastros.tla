------------------------------ MODULE Cadastros ------------------------------
(***************************************************************************)
(* The registration of distributors (networks) and sellers, and who may    *)
(* log in: DistribuidoresService, VendedoresService, AuthService and       *)
(* PosAuthService.                                                         *)
(*                                                                         *)
(* A registration is a row and a Usuario with a status of its own; the     *)
(* panel's login looks at one, the card machine's at the other.  Every     *)
(* handler reads first and writes in a transaction later, so two of them   *)
(* interleave on the same row.  A seller who registers by the network's    *)
(* public link waits, INATIVO, for an approval.  Exclusion is logical, and *)
(* a distributor is not excluded over live sellers, machines or a balance. *)
(***************************************************************************)
EXTENDS Naturals, FiniteSets

CONSTANTS
    Distribuidores, Vendedores,  \* CPFs that may be registered as each
    Pedidos,                     \* requests in flight at the same time
    Admin, Nulo,                 \* the ADMIN; nobody
    MaxTokens                    \* bound: rotations of a network's public link

ASSUME CadastrosAssumption ==
    /\ Distribuidores \cap Vendedores = {}
    /\ Admin \notin Distribuidores /\ Nulo \notin Distribuidores \cup Vendedores
    /\ MaxTokens \in Nat

Pessoas == Distribuidores \cup Vendedores

VARIABLES
    linha,       \* linha[x]: the row of x and its Usuario
    token,       \* token[d]: the version of tokenCadastro in the row of d
    frota,       \* networks with a machine that is not excluded
    sessao,      \* who holds a token of the panel or of the POS
    pedido,      \* pedido[r]: what request r read and is going to write
    recusados,   \* history: sellers refused while they waited for approval
    atropelado   \* history: rows written by a handler that had read them before an exclusion

vars == <<linha, token, frota, sessao, pedido, recusados, atropelado>>

Status == {"nenhum", "ATIVO", "INATIVO"}
\* The row of a registration and its Usuario; approved unless it comes by the link.
Novo(rede, st) == [usuario |-> st, status |-> st, rede |-> rede, excluido |-> FALSE,
                   saldo |-> FALSE, aprovado |-> st = "ATIVO", rejeitado |-> FALSE]
Vazia == [Novo(Nulo, "nenhum") EXCEPT !.aprovado = FALSE]
Livre == [op |-> "nenhuma", alvo |-> Nulo, rede |-> Nulo, st |-> "nenhum", carimbo |-> "nenhum"]

Existe(x) == linha[x].status # "nenhum"
\* buildEscopoDoOperador: what a handler sees of the rows.
Alcanca(ator, x) ==
    /\ Existe(x) /\ ~linha[x].excluido
    /\ ator = Admin \/ linha[x].rede = ator
Pendente(v) == Existe(v) /\ ~linha[v].excluido /\ ~linha[v].aprovado /\ ~linha[v].rejeitado
NaRede(d) == {v \in Vendedores : Existe(v) /\ ~linha[v].excluido /\ linha[v].rede = d}

\* JwtStrategy and JwtPosStrategy, at every request: the Usuario is active and, for a
\* seller, the network too.
Passa(x) ==
    /\ linha[x].usuario = "ATIVO"
    /\ linha[x].rede # Nulo => linha[linha[x].rede].status # "INATIVO"
Opera(x) == x \in sessao /\ Passa(x)
Atua(ator) == ator = Admin \/ Opera(ator)

Init ==
    /\ linha = [x \in Pessoas |-> Vazia]
    /\ token = [d \in Distribuidores |-> 0]
    /\ frota = {} /\ sessao = {}
    /\ pedido = [r \in Pedidos |-> Livre]
    /\ recusados = {} /\ atropelado = {}

-----------------------------------------------------------------------------
\* What the handlers read and check before the transaction.
Comecar(r, op, x, rede, st, carimbo) ==
    /\ pedido[r] = Livre
    /\ pedido' = [pedido EXCEPT ![r] =
           [op |-> op, alvo |-> x, rede |-> rede, st |-> st, carimbo |-> carimbo]]
    /\ UNCHANGED <<linha, token, frota, sessao, recusados, atropelado>>

\* DistribuidoresService.create: ADMIN; the CPF is free.
CriarDistribuidor(r, d) == ~Existe(d) /\ Comecar(r, "cadastrar", d, Nulo, "ATIVO", "nenhum")

\* VendedoresService.create: the network exists, whatever its status.
CriarVendedor(r, ator, v, d) ==
    /\ ~Existe(v) /\ Existe(d)
    /\ Atua(ator) /\ ator \in {Admin, d}
    /\ Comecar(r, "cadastrar", v, d, "ATIVO", "nenhum")

\* autoCadastrar: the token of the link is the current one of an active network.
AutoCadastrar(r, v, d, t) ==
    /\ ~Existe(v)
    /\ t = token[d] /\ linha[d].status = "ATIVO"
    /\ Comecar(r, "cadastrar", v, d, "INATIVO", "nenhum")

Aprovar(r, ator, v) ==
    /\ Atua(ator) /\ Alcanca(ator, v)
    /\ ~linha[v].aprovado
    /\ Comecar(r, "gravar", v, Nulo, "ATIVO", "aprova")

\* The stamp that the PATCH of a status implies, from the row as it was read.
CarimboDoStatus(v, st) ==
    CASE st = "ATIVO" /\ ~linha[v].aprovado -> "aprova"
      [] st = "INATIVO" /\ ~linha[v].aprovado /\ ~linha[v].rejeitado -> "recusa"
      [] OTHER -> "nenhum"

\* PATCH: a status or none, and a network, which only ADMIN may change.
AtualizarVendedor(r, ator, v, st, rede) ==
    /\ Atua(ator) /\ Alcanca(ator, v)
    /\ rede # Nulo => ator = Admin /\ Existe(rede)
    /\ Comecar(r, "gravar", v, rede, st, CarimboDoStatus(v, st))

AtualizarDistribuidor(r, d, st) ==
    Alcanca(Admin, d) /\ Comecar(r, "gravar", d, Nulo, st, "nenhum")

\* remove: the pending one is refused.
Remover(r, ator, x) ==
    /\ Atua(ator) /\ Alcanca(ator, x)
    /\ Comecar(r, "gravar", x, Nulo, "INATIVO", CarimboDoStatus(x, "INATIVO"))

\* VendedoresService.excluir: ADMIN; without a balance.
ExcluirVendedor(r, v) ==
    /\ Alcanca(Admin, v) /\ ~linha[v].saldo
    /\ Comecar(r, "excluir", v, Nulo, "INATIVO", "nenhum")

\* DistribuidoresService.excluir: nor over live sellers or machines.
ExcluirDistribuidor(r, d) ==
    /\ Alcanca(Admin, d) /\ ~linha[d].saldo
    /\ NaRede(d) = {} /\ d \notin frota
    /\ Comecar(r, "excluir", d, Nulo, "INATIVO", "nenhum")

RestaurarVendedor(r, v) ==
    linha[v].excluido /\ Comecar(r, "restaurar", v, Nulo, "nenhum", "nenhum")
RestaurarDistribuidor(r, d) ==
    linha[d].excluido /\ Comecar(r, "restaurar", d, Nulo, "nenhum", "nenhum")

-----------------------------------------------------------------------------
\* The transactions.
Terminar(r) == pedido' = [pedido EXCEPT ![r] = Livre]

\* Usuario and row are created together; the unique CPF turns a second one away.
GravarCadastro(r) ==
    LET q == pedido[r] IN
    /\ q.op = "cadastrar"
    /\ linha' = IF Existe(q.alvo) THEN linha
                ELSE [linha EXCEPT ![q.alvo] = Novo(q.rede, q.st)]
    /\ Terminar(r) /\ UNCHANGED <<token, frota, sessao, recusados, atropelado>>

\* Usuario.status follows the status that the request brings.
UsuarioSegue(x, st) == IF st = "nenhum" THEN linha[x].usuario ELSE st

\* The row of the target with what the request brings.
Gravada(q) ==
    [linha[q.alvo] EXCEPT
        !.usuario = UsuarioSegue(q.alvo, q.st),
        !.status = IF q.st = "nenhum" THEN @ ELSE q.st,
        !.rede = IF q.rede = Nulo THEN @ ELSE q.rede,
        !.aprovado = @ \/ q.carimbo = "aprova",
        !.rejeitado = (@ \/ q.carimbo = "recusa") /\ q.carimbo # "aprova"]

\* aprovar, update and remove: both rows, by what was read.
Gravar(r) ==
    LET q == pedido[r] IN
    /\ q.op = "gravar"
    /\ linha' = [linha EXCEPT ![q.alvo] = Gravada(q)]
    /\ recusados' = IF q.st = "INATIVO" /\ Pendente(q.alvo) THEN recusados \cup {q.alvo} ELSE recusados
    /\ atropelado' = IF linha[q.alvo].excluido THEN atropelado \cup {q.alvo} ELSE atropelado
    /\ Terminar(r) /\ UNCHANGED <<token, frota, sessao>>

\* Mutant: the row is hidden, not deactivated.
ExcluirSoEsconde(r) ==
    LET q == pedido[r] IN
    /\ q.op = "excluir"
    /\ linha' = [linha EXCEPT ![q.alvo].excluido = TRUE]
    /\ Terminar(r) /\ UNCHANGED <<token, frota, sessao, recusados, atropelado>>
\* excluir hides and deactivates.
GravarExclusao(r) ==
    LET q == pedido[r] IN
    /\ q.op = "excluir"
    /\ linha' = [linha EXCEPT ![q.alvo] =
           [@ EXCEPT !.usuario = "INATIVO", !.status = "INATIVO", !.excluido = TRUE]]
    /\ Terminar(r) /\ UNCHANGED <<token, frota, sessao, recusados, atropelado>>

\* restaurar: back in the listings, and still INATIVO.
GravarRestauracao(r) ==
    LET q == pedido[r] IN
    /\ q.op = "restaurar"
    /\ linha' = [linha EXCEPT ![q.alvo].excluido = FALSE]
    /\ Terminar(r) /\ UNCHANGED <<token, frota, sessao, recusados, atropelado>>

-----------------------------------------------------------------------------
\* regenerarTokenCadastro, of an inactive network too.
RegenerarToken(ator, d) ==
    /\ Atua(ator) /\ ator \in {Admin, d} /\ Existe(d)
    /\ token[d] < MaxTokens
    /\ token' = [token EXCEPT ![d] = @ + 1]
    /\ UNCHANGED <<linha, frota, sessao, pedido, recusados, atropelado>>

\* AuthService.login, by e-mail and password: the Usuario and the network.
LoginPainel(x) ==
    /\ Existe(x) /\ Passa(x)
    /\ sessao' = sessao \cup {x}
    /\ UNCHANGED <<linha, token, frota, pedido, recusados, atropelado>>

\* PosAuthService.login, by CPF: the row and the network.
LoginPos(x) ==
    /\ linha[x].status = "ATIVO"
    /\ linha[x].rede # Nulo => linha[linha[x].rede].status # "INATIVO"
    /\ sessao' = sessao \cup {x}
    /\ UNCHANGED <<linha, token, frota, pedido, recusados, atropelado>>

\* Sales approved and cancelled, in Vendas: the balance comes and goes.
MudarSaldo(x) ==
    /\ Existe(x)
    /\ linha' = [linha EXCEPT ![x].saldo = ~@]
    /\ UNCHANGED <<token, frota, sessao, pedido, recusados, atropelado>>

\* Machines of the network, in CreditoMaquininha.
MudarFrota(d) ==
    /\ Existe(d)
    /\ frota' = IF d \in frota THEN frota \ {d} ELSE frota \cup {d}
    /\ UNCHANGED <<linha, token, sessao, pedido, recusados, atropelado>>

Atores == {Admin} \cup Distribuidores

Next ==
    \/ \E r \in Pedidos :
         \/ \E d \in Distribuidores :
              \/ CriarDistribuidor(r, d) \/ ExcluirDistribuidor(r, d) \/ RestaurarDistribuidor(r, d)
              \/ Remover(r, Admin, d)
              \/ \E st \in Status : AtualizarDistribuidor(r, d, st)
         \/ \E v \in Vendedores :
              \/ ExcluirVendedor(r, v) \/ RestaurarVendedor(r, v)
              \/ \E ator \in Atores :
                   \/ Aprovar(r, ator, v) \/ Remover(r, ator, v)
                   \/ \E d \in Distribuidores : CriarVendedor(r, ator, v, d)
                   \/ \E st \in Status, rede \in Distribuidores \cup {Nulo} :
                          AtualizarVendedor(r, ator, v, st, rede)
              \/ \E d \in Distribuidores, t \in 0..MaxTokens : AutoCadastrar(r, v, d, t)
         \/ GravarCadastro(r) \/ Gravar(r) \/ GravarExclusao(r) \/ GravarRestauracao(r)
    \/ \E ator \in Atores, d \in Distribuidores : RegenerarToken(ator, d)
    \/ \E x \in Pessoas : LoginPainel(x) \/ LoginPos(x) \/ MudarSaldo(x)
    \/ \E d \in Distribuidores : MudarFrota(d)

Spec == Init /\ [][Next]_vars

-----------------------------------------------------------------------------
TypeOK ==
    /\ linha \in [Pessoas -> [usuario : Status, status : Status, rede : Distribuidores \cup {Nulo},
                              excluido : BOOLEAN, saldo : BOOLEAN,
                              aprovado : BOOLEAN, rejeitado : BOOLEAN]]
    /\ token \in [Distribuidores -> 0..MaxTokens]
    /\ frota \subseteq Distribuidores
    /\ sessao \subseteq Pessoas
    /\ pedido \in [Pedidos -> [op : {"nenhuma", "cadastrar", "gravar", "excluir", "restaurar"},
                               alvo : Pessoas \cup {Nulo}, rede : Distribuidores \cup {Nulo},
                               st : Status, carimbo : {"nenhum", "aprova", "recusa"}]]
    /\ \A x \in Pessoas : linha[x].rede # Nulo <=> (x \in Vendedores /\ Existe(x))

\* Two logins look at two rows: whatever handlers interleave, they never disagree, so
\* that nobody is turned away by one channel and let in by the other.
StatusAndamJuntos == \A x \in Pessoas : linha[x].usuario = linha[x].status

\* Whoever operates has been approved by somebody of the network, in a network that
\* is active, whenever the session was opened.
OperaSoAprovado ==
    \A v \in Vendedores : Opera(v) => linha[v].aprovado /\ linha[linha[v].rede].status = "ATIVO"

\* A refused registration does not come back to the queue of those who wait.
RecusadoForaDaFila == \A v \in recusados : ~Pendente(v)

\* An excluded registration does not operate, unless a handler that had read it before
\* the exclusion wrote it after.
ExcluidoNaoOpera == \A x \in Pessoas \ atropelado : linha[x].excluido => ~Opera(x)

\* Who may operate is the same in both logins, was approved, and was not refused or excluded,
\* whatever handlers overlap.
OperaQuemPode ==
    TypeOK /\ StatusAndamJuntos /\ OperaSoAprovado /\ RecusadoForaDaFila /\ ExcluidoNaoOpera

=============================================================================
