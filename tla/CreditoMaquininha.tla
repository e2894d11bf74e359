-------------------------- MODULE CreditoMaquininha --------------------------
(***************************************************************************)
(* The credit of the card machines (CreditosMaquininhaService) as the      *)
(* concurrent PostgreSQL transactions it really is.                        *)
(*                                                                         *)
(* Isolation is READ COMMITTED, Prisma's default: every statement sees the *)
(* rows committed when it starts; an UPDATE takes the row's lock and holds *)
(* it until the commit, and an UPDATE that waited re-evaluates its WHERE   *)
(* on the committed row.  What a transaction wrote before its commit is    *)
(* kept in its own record (saldoTx) and becomes visible in one step.       *)
(*                                                                         *)
(* A "pedido" is one HTTP request being served.  Several run at once on    *)
(* the same machine: MANUAL sales, cancellations, the ADMIN's movements,   *)
(* a change of the limit and the logical exclusion of the machine.         *)
(***************************************************************************)
EXTENDS Integers, Sequences

CONSTANTS
    Maquininhas,      \* card machines that may be registered
    Vendas,           \* MANUAL sales (fresh uuids), Prêmios or Sena
    Pedidos,          \* requests that may be in flight at the same time
    Nulo,             \* null: no machine, no sale, nobody
    ValoresVenda,     \* totals a sale may have (zero is legal), in centavos
    ValoresAjuste,    \* values the ADMIN enters (@IsPositive)
    Limites,          \* limits the ADMIN may set (@Min(0) @Max)
    LimiteMaximo,     \* LIMITE_CREDITO_MAXIMO
    CreditoInicial,   \* CREDITO_INICIAL_MAQUININHA
    MaxMovimentos     \* bound: the ADMIN enters no movement in a longer ledger

ASSUME CreditoAssumption ==
    /\ Nulo \notin Maquininhas \cup Vendas \cup Pedidos
    /\ ValoresVenda \subseteq Nat
    /\ ValoresAjuste \subseteq Nat \ {0}
    /\ LimiteMaximo \in Nat
    /\ Limites \subseteq 0..LimiteMaximo
    /\ CreditoInicial \in Nat \ {0}
    /\ CreditoInicial <= LimiteMaximo
    /\ MaxMovimentos \in Nat

VARIABLES
    situacao,   \* situacao[m]: "ausente", "cadastrada" or "excluida" (deletedAt)
    limite,     \* limite[m]: Maquininha.limiteCredito
    saldo,      \* saldo[m]: Maquininha.saldoCredito, as committed
    razao,      \* razao[m]: committed MovimentoCreditoMaquininha rows of m
    venda,      \* venda[v]: "nenhuma" or the committed status of sale v
    trava,      \* trava[m]: the transaction that holds the lock of m's row
    pedido      \* pedido[p]: what request p is doing

vars == <<situacao, limite, saldo, razao, venda, trava, pedido>>

\* The promise this module implements, and the ledger vocabulary it shares.
Razao == INSTANCE RazaoDeCredito
           WITH Valores <- ValoresVenda \cup ValoresAjuste \cup {CreditoInicial}

TiposManuais == {"RECARGA", "AJUSTE_CREDITO", "AJUSTE_DEBITO"}

Passos == {"ocioso", "lerLimite", "lerRazao", "atualizar", "travado",
           "semMovimento", "excluir"}

Ocioso == [passo |-> "ocioso", tipo |-> "NENHUM", m |-> Nulo, v |-> Nulo,
           valor |-> 0, teto |-> 0, saldoTx |-> 0]

\* Request p inside its transaction, after a step that changed these fields.
Em(p, novoPasso) == [pedido EXCEPT ![p].passo = novoPasso]

\* The transaction of p ends, committed or not, and p's request is over.
Encerrar(p) ==
    /\ pedido' = [pedido EXCEPT ![p] = Ocioso]
    /\ trava' = [m \in Maquininhas |-> IF trava[m] = p THEN Nulo ELSE trava[m]]

Novo(t, m, v, x, passo) ==
    [passo |-> passo, tipo |-> t, m |-> m, v |-> v, valor |-> x,
     teto |-> 0, saldoTx |-> 0]

-----------------------------------------------------------------------------
Init ==
    /\ situacao = [m \in Maquininhas |-> "ausente"]
    /\ limite = [m \in Maquininhas |-> 0]
    /\ saldo = [m \in Maquininhas |-> 0]
    /\ razao = [m \in Maquininhas |-> <<>>]
    /\ venda = [v \in Vendas |-> "nenhuma"]
    /\ trava = [m \in Maquininhas |-> Nulo]
    /\ pedido = [p \in Pedidos |-> Ocioso]

\* MaquininhasService.create: the row, the maximum limit and the opening
\* RECARGA of creditarAbertura are one commit, invisible until then.
Criar(m) ==
    /\ situacao[m] = "ausente"
    /\ situacao' = [situacao EXCEPT ![m] = "cadastrada"]
    /\ limite' = [limite EXCEPT ![m] = LimiteMaximo]
    /\ saldo' = [saldo EXCEPT ![m] = @ + CreditoInicial]
    /\ razao' = [razao EXCEPT ![m] =
          Append(@, Razao!LinhaDoRazao(saldo[m] + CreditoInicial, "RECARGA",
                                       CreditoInicial, Nulo))]
    /\ UNCHANGED <<venda, trava, pedido>>

\* The POS resolves the machine (garantirMaquininhaDoOperador, which skips
\* excluded ones) and opens the transaction of a MANUAL sale: venda.create.
IniciarVenda(p, m, v, x) ==
    /\ pedido[p].passo = "ocioso"
    /\ situacao[m] = "cadastrada"
    /\ venda[v] = "nenhuma"
    /\ \A q \in Pedidos : pedido[q].v # v
    /\ pedido' = [pedido EXCEPT ![p] = Novo("CONSUMO", m, v, x, "lerLimite")]
    /\ UNCHANGED <<situacao, limite, saldo, razao, venda, trava>>

\* lancarMovimento opens its transaction.  The route does not go through
\* buildEscopoDoOperador: an excluded machine still accepts movements.
IniciarLancamento(p, m, t, x) ==
    /\ pedido[p].passo = "ocioso"
    /\ situacao[m] # "ausente"
    /\ Len(razao[m]) < MaxMovimentos
    /\ pedido' = [pedido EXCEPT ![p] = Novo(t, m, Nulo, x, "lerLimite")]
    /\ UNCHANGED <<situacao, limite, saldo, razao, venda, trava>>

\* VendasService.cancelar reads the sale outside the transaction and refuses
\* only one already CANCELADO; then the transaction reaches estornarVenda.
IniciarCancelamento(p, v) ==
    /\ pedido[p].passo = "ocioso"
    /\ venda[v] = "APROVADO"
    /\ pedido' = [pedido EXCEPT ![p] = Novo("ESTORNO", Nulo, v, 0, "lerRazao")]
    /\ UNCHANGED <<situacao, limite, saldo, razao, venda, trava>>

\* debitarVenda and lancarMovimento read the limit.  An AJUSTE_DEBITO reads it
\* too but asks nothing of it.
ExigeLimite(p) == pedido[p].tipo # "AJUSTE_DEBITO"

LerLimite(p) ==
    /\ pedido[p].passo = "lerLimite"
    /\ ExigeLimite(p) => limite[pedido[p].m] > 0
    /\ pedido[p].valor > 0
    /\ pedido' = [pedido EXCEPT ![p].passo = "atualizar",
                                ![p].teto = limite[pedido[p].m]]
    /\ UNCHANGED <<situacao, limite, saldo, razao, venda, trava>>

\* limiteCredito zero means "not configured": 409, the transaction is undone.
RecusarSemLimite(p) ==
    /\ pedido[p].passo = "lerLimite"
    /\ ExigeLimite(p)
    /\ limite[pedido[p].m] <= 0
    /\ Encerrar(p)
    /\ UNCHANGED <<situacao, limite, saldo, razao, venda>>

\* A sale of zero does not move credit: debitarVenda returns early.
DispensarDebito(p) ==
    /\ pedido[p].passo = "lerLimite"
    /\ limite[pedido[p].m] > 0
    /\ pedido[p].valor <= 0
    /\ pedido' = Em(p, "semMovimento")
    /\ UNCHANGED <<situacao, limite, saldo, razao, venda, trava>>

\* estornarVenda: the first CONSUMO of the sale, unless an ESTORNO exists.
BuscarConsumo(p) ==
    /\ pedido[p].passo = "lerRazao"
    /\ \A m \in Maquininhas : ~Razao!TemMovimento(m, pedido[p].v, "ESTORNO")
    /\ \E m \in Maquininhas : \E i \in 1..Len(razao[m]) :
          /\ razao[m][i].tipo = "CONSUMO"
          /\ razao[m][i].venda = pedido[p].v
          /\ pedido' = [pedido EXCEPT ![p].passo = "atualizar", ![p].m = m,
                                      ![p].valor = razao[m][i].valor]
    /\ UNCHANGED <<situacao, limite, saldo, razao, venda, trava>>

\* Nothing to give back: no CONSUMO, or already given back.
DispensarEstorno(p) ==
    /\ pedido[p].passo = "lerRazao"
    /\ \/ \A m \in Maquininhas : ~Razao!TemMovimento(m, pedido[p].v, "CONSUMO")
       \/ \E m \in Maquininhas : Razao!TemMovimento(m, pedido[p].v, "ESTORNO")
    /\ pedido' = Em(p, "semMovimento")
    /\ UNCHANGED <<situacao, limite, saldo, razao, venda, trava>>

\* Mutant of the WHERE: the value that enters is forgotten.
CondicaoSemValor(p) ==
    /\ pedido[p].tipo \in {"CONSUMO", "AJUSTE_DEBITO"}
         => saldo[pedido[p].m] >= pedido[p].valor
    /\ pedido[p].tipo \in {"RECARGA", "AJUSTE_CREDITO"}
         => saldo[pedido[p].m] <= pedido[p].teto

\* The WHERE of each UPDATE on the machine's row.
CondicaoDoUpdate(p) ==
    LET r == pedido[p] IN
    /\ r.tipo \in {"CONSUMO", "AJUSTE_DEBITO"} => saldo[r.m] >= r.valor
    /\ r.tipo \in {"RECARGA", "AJUSTE_CREDITO"} => saldo[r.m] <= r.teto - r.valor

\* Mutant: the balance is computed without waiting for the row's lock.
AtualizarSemTrava(p) ==
    /\ pedido[p].passo = "atualizar"
    /\ CondicaoDoUpdate(p)
    /\ trava' = [trava EXCEPT ![pedido[p].m] = p]
    /\ pedido' = [pedido EXCEPT ![p].passo = "travado",
          ![p].saldoTx = Razao!ComEfeito(saldo[pedido[p].m], pedido[p].tipo, pedido[p].valor)]
    /\ UNCHANGED <<situacao, limite, saldo, razao, venda>>

\* The UPDATE finds the row free and its WHERE true: it locks the row.
AtualizarSaldo(p) ==
    /\ pedido[p].passo = "atualizar"
    /\ trava[pedido[p].m] = Nulo
    /\ CondicaoDoUpdate(p)
    /\ trava' = [trava EXCEPT ![pedido[p].m] = p]
    /\ pedido' = [pedido EXCEPT ![p].passo = "travado",
          ![p].saldoTx = Razao!ComEfeito(saldo[pedido[p].m], pedido[p].tipo, pedido[p].valor)]
    /\ UNCHANGED <<situacao, limite, saldo, razao, venda>>

\* Mutant: a request that the UPDATE does not serve waits for balance.
EsperarPorSaldo(p) ==
    /\ pedido[p].passo = "atualizar"
    /\ ~CondicaoDoUpdate(p)
    /\ UNCHANGED vars

\* count = 0: 409.  A committed row that fails the WHERE is not waited for.
RecusarPorSaldo(p) ==
    /\ pedido[p].passo = "atualizar"
    /\ ~CondicaoDoUpdate(p)
    /\ Encerrar(p)
    /\ UNCHANGED <<situacao, limite, saldo, razao, venda>>

\* Mutant: the schema has no unique index on (vendaId, tipo).
SemIndiceUnico(p) == TRUE

\* @@unique([vendaId, tipo]) accepts the row p is about to insert.
UnicoPorVendaETipo(p) ==
    pedido[p].v # Nulo =>
        \A m \in Maquininhas : ~Razao!TemMovimento(m, pedido[p].v, pedido[p].tipo)

\* What the sale's own UPDATE or INSERT leaves in venda when p commits.
GravarVenda(p) ==
    venda' = IF pedido[p].v = Nulo THEN venda
             ELSE [venda EXCEPT ![pedido[p].v] =
                     IF pedido[p].tipo = "CONSUMO" THEN "APROVADO" ELSE "CANCELADO"]

\* registrarMovimento and the commit of the whole transaction.
Registrar(p) ==
    LET r == pedido[p] IN
    /\ r.passo = "travado"
    /\ UnicoPorVendaETipo(p)
    /\ saldo' = [saldo EXCEPT ![r.m] = r.saldoTx]
    /\ razao' = [razao EXCEPT ![r.m] =
          Append(@, Razao!LinhaDoRazao(r.saldoTx, r.tipo, r.valor, r.v))]
    /\ GravarVenda(p)
    /\ Encerrar(p)
    /\ UNCHANGED <<situacao, limite>>

\* The unique index refuses the second ESTORNO: everything is rolled back.
RecusarDuplicado(p) ==
    /\ pedido[p].passo = "travado"
    /\ ~UnicoPorVendaETipo(p)
    /\ Encerrar(p)
    /\ UNCHANGED <<situacao, limite, saldo, razao, venda>>

ConfirmarSemMovimento(p) ==
    /\ pedido[p].passo = "semMovimento"
    /\ GravarVenda(p)
    /\ Encerrar(p)
    /\ UNCHANGED <<situacao, limite, saldo, razao>>

\* Anything else of the caller's transaction fails (no tickets left, the
\* connection or the transaction's time is over): nothing was committed.
Reverter(p) ==
    /\ pedido[p].passo \in {"lerLimite", "lerRazao", "atualizar", "travado", "semMovimento"}
    /\ Encerrar(p)
    /\ UNCHANGED <<situacao, limite, saldo, razao, venda>>

\* atualizarLimite: one UPDATE, which waits for the row's lock.  Lowering the
\* limit does not confiscate, and an excluded machine is not refused.
AtualizarLimite(m, l) ==
    /\ situacao[m] # "ausente"
    /\ trava[m] = Nulo
    /\ l # limite[m]
    /\ limite' = [limite EXCEPT ![m] = l]
    /\ UNCHANGED <<situacao, saldo, razao, venda, trava, pedido>>

\* MaquininhasService.remove reads the balance and refuses a positive one...
LerParaExcluir(p, m) ==
    /\ pedido[p].passo = "ocioso"
    /\ situacao[m] = "cadastrada"
    /\ saldo[m] <= 0
    /\ pedido' = [pedido EXCEPT ![p] = Novo("EXCLUSAO", m, Nulo, 0, "excluir")]
    /\ UNCHANGED <<situacao, limite, saldo, razao, venda, trava>>

\* ...and then writes deletedAt in a statement of its own.
Excluir(p) ==
    /\ pedido[p].passo = "excluir"
    /\ trava[pedido[p].m] = Nulo
    /\ situacao' = [situacao EXCEPT ![pedido[p].m] = "excluida"]
    /\ Encerrar(p)
    /\ UNCHANGED <<limite, saldo, razao, venda>>

-----------------------------------------------------------------------------
\* The steps a request in flight takes by itself, the rollback aside.
Avancar(p) ==
    \/ LerLimite(p)
    \/ RecusarSemLimite(p)
    \/ DispensarDebito(p)
    \/ BuscarConsumo(p)
    \/ DispensarEstorno(p)
    \/ AtualizarSaldo(p)
    \/ RecusarPorSaldo(p)
    \/ Registrar(p)
    \/ RecusarDuplicado(p)
    \/ ConfirmarSemMovimento(p)
    \/ Excluir(p)

Iniciar(p) ==
    \/ \E m \in Maquininhas, v \in Vendas, x \in ValoresVenda : IniciarVenda(p, m, v, x)
    \/ \E m \in Maquininhas, t \in TiposManuais, x \in ValoresAjuste :
          IniciarLancamento(p, m, t, x)
    \/ \E v \in Vendas : IniciarCancelamento(p, v)
    \/ \E m \in Maquininhas : LerParaExcluir(p, m)

Next ==
    \/ \E m \in Maquininhas : Criar(m)
    \/ \E m \in Maquininhas, l \in Limites : AtualizarLimite(m, l)
    \/ \E p \in Pedidos : Iniciar(p) \/ Avancar(p) \/ Reverter(p)

Spec == Init /\ [][Next]_vars

\* PostgreSQL grants a row's lock in the order it was asked for, so a waiting
\* UPDATE is not overtaken for ever: strong fairness.  Nothing obliges a new
\* request to arrive, nor a transaction to fail.
Justica == \A p \in Pedidos : SF_vars(Avancar(p))

FairSpec == Spec /\ Justica
-----------------------------------------------------------------------------
Pedido ==
    [passo: Passos,
     tipo: Razao!TipoMovimentoCredito \cup {"NENHUM", "EXCLUSAO"},
     m: Maquininhas \cup {Nulo}, v: Vendas \cup {Nulo},
     valor: Nat, teto: Nat, saldoTx: Int]

\* Every variable has its type.
TypeOK ==
    /\ situacao \in [Maquininhas -> {"ausente", "cadastrada", "excluida"}]
    /\ limite \in [Maquininhas -> 0..LimiteMaximo]
    /\ saldo \in [Maquininhas -> Int]
    /\ razao \in [Maquininhas -> Seq(Razao!Movimento)]
    /\ venda \in [Vendas -> {"nenhuma", "APROVADO", "CANCELADO"}]
    /\ trava \in [Maquininhas -> Pedidos \cup {Nulo}]
    /\ pedido \in [Pedidos -> Pedido]

\* No machine ever owes: sales that run at the same time on one machine never
\* spend more than its balance between them, because debitarVenda checks and
\* decrements in one conditional UPDATE.
SaldoNuncaNegativo == \A m \in Maquininhas : saldo[m] >= 0

\* "saldo = soma dos movimentos": each row of a ledger starts at the balance
\* where the row before it stopped, moves by its own value, and the last one
\* stops at saldoCredito.  A lost or a doubled update of the balance, or a
\* saldoPosterior read outside the row's lock, breaks the chain.
RazaoEncadeado ==
    \A m \in Maquininhas :
      LET linhas == razao[m] IN
      /\ \A i \in 1..Len(linhas) :
           /\ linhas[i].saldoAnterior = IF i = 1 THEN 0 ELSE linhas[i - 1].saldoPosterior
           /\ linhas[i].saldoPosterior =
                Razao!ComEfeito(linhas[i].saldoAnterior, linhas[i].tipo, linhas[i].valor)
      /\ saldo[m] = IF linhas = <<>> THEN 0 ELSE linhas[Len(linhas)].saldoPosterior

\* The account of a machine, whatever runs on it at once: typed, never below zero, and its
\* ledger an unbroken chain down to saldoCredito.
ContaConfere == TypeOK /\ SaldoNuncaNegativo /\ RazaoEncadeado

\* The credit a sale consumed is given back once at most, to the machine that
\* paid it, by exactly what it paid, however many cancellations of the sale
\* run at the same time.
EstornoEspelhaConsumo ==
    \A m \in Maquininhas : \A i \in 1..Len(razao[m]) :
      razao[m][i].tipo = "ESTORNO" =>
        /\ \E j \in 1..(i - 1) :
              /\ razao[m][j].tipo = "CONSUMO"
              /\ razao[m][j].venda = razao[m][i].venda
              /\ razao[m][j].valor = razao[m][i].valor
        /\ \A n \in Maquininhas : \A k \in 1..Len(razao[n]) :
              razao[n][k].tipo = "ESTORNO" /\ razao[n][k].venda = razao[m][i].venda
                => n = m /\ k = i

\* The credit and the sale fall or pass together: an approved sale keeps its
\* consumption, a cancelled one has given back what it consumed, and a sale
\* that was never committed left nothing in any ledger.
VendaERazaoAndamJuntos ==
    \A v \in Vendas :
      LET consumiu  == \E m \in Maquininhas : Razao!TemMovimento(m, v, "CONSUMO")
          devolveu  == \E m \in Maquininhas : Razao!TemMovimento(m, v, "ESTORNO")
      IN /\ venda[v] = "nenhuma" => ~consumiu
         /\ venda[v] = "APROVADO" => ~devolveu
         /\ venda[v] = "CANCELADO" => (consumiu <=> devolveu)

\* The credit goes where the sale goes: given back once, exactly, with the cancellation,
\* and neither of the two without the other.
CreditoSegueVenda == EstornoEspelhaConsumo /\ VendaERazaoAndamJuntos

\* A step that leaves more than LIMITE_CREDITO_MAXIMO on a machine by adding to
\* it is the refund of a cancelled sale: no recharge or adjustment gets there,
\* whatever limit it read and whatever happened since.
SoEstornoPassaDoMaximo ==
    [][\A m \in Maquininhas :
          saldo'[m] > saldo[m] /\ saldo'[m] > LimiteMaximo
            => razao'[m][Len(razao'[m])].tipo = "ESTORNO"]_vars

\* Every request in flight ends, and so gives back the lock it holds.
TodoPedidoTermina ==
    \A p \in Pedidos : pedido[p].passo # "ocioso" ~> pedido[p].passo = "ocioso"

\* The transactions implement the ledger.
ImplementaRazao == Razao!Spec

\* The transactions implement the ledger, and only its refunds pass the maximum.
RazaoComTeto == ImplementaRazao /\ SoEstornoPassaDoMaximo
=============================================================================
