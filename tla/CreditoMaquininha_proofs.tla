----------------------- MODULE CreditoMaquininha_proofs -----------------------
(***************************************************************************)
(* Safety of the credit ledger for any number of machines, sales, requests *)
(* and values: the balance never goes below zero, and every ledger is a    *)
(* chain that ends at its machine's balance.                               *)
(***************************************************************************)
EXTENDS CreditoMaquininha, TLAPS

\* One machine's ledger, `linhas`, is a chain from 0 to the balance s.
Cadeia(linhas, s) ==
    /\ \A i \in 1..Len(linhas) :
         /\ linhas[i].saldoAnterior = IF i = 1 THEN 0 ELSE linhas[i - 1].saldoPosterior
         /\ linhas[i].saldoPosterior =
              Razao!ComEfeito(linhas[i].saldoAnterior, linhas[i].tipo, linhas[i].valor)
    /\ s = IF linhas = <<>> THEN 0 ELSE linhas[Len(linhas)].saldoPosterior

\* What request p knows of the row it is going to change or has changed.
PedidoCoerente(p) ==
    LET r == pedido[p] IN
    /\ r.passo \in {"lerLimite", "atualizar", "travado", "excluir"} =>
         r.m \in Maquininhas /\ situacao[r.m] # "ausente"
    /\ r.passo \in {"lerLimite", "lerRazao", "atualizar", "travado"} =>
         r.tipo \in Razao!TipoMovimentoCredito
    /\ r.passo = "travado" =>
         /\ trava[r.m] = p
         /\ r.saldoTx = Razao!ComEfeito(saldo[r.m], r.tipo, r.valor)
         /\ r.saldoTx >= 0

\* Only the transaction that changed the row of m holds its lock.
TravaCoerente ==
    \A p \in Pedidos : \A m \in Maquininhas :
        trava[m] = p => pedido[p].passo = "travado" /\ pedido[p].m = m

\* A machine has movements only once it is registered.
SoCadastradaTemRazao ==
    \A m \in Maquininhas : situacao[m] = "ausente" => razao[m] = <<>>

IInv ==
    /\ TypeOK
    /\ SaldoNuncaNegativo
    /\ \A m \in Maquininhas : Cadeia(razao[m], saldo[m])
    /\ \A p \in Pedidos : PedidoCoerente(p)
    /\ TravaCoerente
    /\ SoCadastradaTemRazao

-----------------------------------------------------------------------------
\* A ledger stays a chain when registrarMovimento appends the row of a
\* movement of value x that took the balance from s to ComEfeito(s, t, x).
LEMMA CadeiaCresce ==
    ASSUME NEW linhas \in Seq(Razao!Movimento), NEW s \in Int,
           NEW t \in Razao!TipoMovimentoCredito, NEW x \in Nat,
           NEW v \in Vendas \cup {Nulo}, Cadeia(linhas, s)
    PROVE  LET depois == Razao!ComEfeito(s, t, x)
               linha  == Razao!LinhaDoRazao(depois, t, x, v)
           IN /\ linha \in Razao!Movimento
              /\ Append(linhas, linha) \in Seq(Razao!Movimento)
              /\ Cadeia(Append(linhas, linha), depois)
<1> DEFINE depois == Razao!ComEfeito(s, t, x)
           linha  == Razao!LinhaDoRazao(depois, t, x, v)
           novas  == Append(linhas, linha)
<1>1. depois \in Int
  BY DEF Razao!ComEfeito
<1>2. linha \in Razao!Movimento
  BY <1>1 DEF Razao!LinhaDoRazao, Razao!Movimento
<1>3. linha.saldoAnterior = s /\ linha.saldoPosterior = depois
      /\ linha.tipo = t /\ linha.valor = x
  BY DEF Razao!LinhaDoRazao, Razao!ComEfeito
<1>4. novas \in Seq(Razao!Movimento) /\ Len(novas) = Len(linhas) + 1
  BY <1>2
<1>5. /\ Len(linhas) \in Nat
      /\ \A i \in 1..Len(linhas) : novas[i] = linhas[i]
      /\ novas[Len(novas)] = linha
  BY <1>2
<1>6. ASSUME NEW i \in 1..Len(novas)
      PROVE  /\ novas[i].saldoAnterior = IF i = 1 THEN 0 ELSE novas[i - 1].saldoPosterior
             /\ novas[i].saldoPosterior =
                  Razao!ComEfeito(novas[i].saldoAnterior, novas[i].tipo, novas[i].valor)
  <2>1. CASE i \in 1..Len(linhas)
    <3>1. i # 1 => i - 1 \in 1..Len(linhas)
      BY <2>1, <1>5
    <3> QED
      BY <2>1, <3>1, <1>5 DEF Cadeia
  <2>2. CASE i = Len(novas) /\ linhas = <<>>
    BY <2>2, <1>3, <1>4, <1>5 DEF Cadeia
  <2>3. CASE i = Len(novas) /\ linhas # <<>>
    <3>1. i - 1 = Len(linhas) /\ i - 1 \in 1..Len(linhas) /\ i # 1
      BY <2>3, <1>4, <1>5
    <3>2. novas[i - 1].saldoPosterior = s
      BY <2>3, <3>1, <1>5 DEF Cadeia
    <3> QED
      BY <2>3, <3>1, <3>2, <1>3, <1>5
  <2> QED
    BY <2>1, <2>2, <2>3, <1>4, <1>5
<1>7. novas # <<>> /\ depois = novas[Len(novas)].saldoPosterior
  BY <1>3, <1>4, <1>5
<1> HIDE DEF linha, depois, novas
<1>8. Cadeia(novas, depois)
  BY <1>6, <1>7 DEF Cadeia
<1> QED
  BY <1>2, <1>4, <1>8 DEF novas, linha, depois

\* The initial states satisfy the invariant: no machine exists yet.
LEMMA InitIInv == Init => IInv
<1> SUFFICES ASSUME Init PROVE IInv
  OBVIOUS
<1>1. TypeOK
  BY CreditoAssumption DEF Init, TypeOK, Pedido, Passos, Ocioso
<1>2. SaldoNuncaNegativo /\ \A m \in Maquininhas : Cadeia(razao[m], saldo[m])
  BY DEF Init, SaldoNuncaNegativo, Cadeia
<1>3. (\A p \in Pedidos : PedidoCoerente(p)) /\ TravaCoerente /\ SoCadastradaTemRazao
  BY CreditoAssumption DEF Init, PedidoCoerente, TravaCoerente, SoCadastradaTemRazao, Ocioso
<1> QED
  BY <1>1, <1>2, <1>3 DEF IInv

\* Ending a request frees what it held and disturbs no other request, as long
\* as the balance of the machines that the others have locked stays as it is.
LEMMA EncerrarCoerente ==
    ASSUME IInv, NEW q \in Pedidos, Encerrar(q),
           \A m \in Maquininhas : situacao[m] # "ausente" => situacao'[m] # "ausente",
           \A m \in Maquininhas : trava[m] # q /\ trava[m] # Nulo => saldo'[m] = saldo[m]
    PROVE  /\ pedido' \in [Pedidos -> Pedido]
           /\ trava' \in [Maquininhas -> Pedidos \cup {Nulo}]
           /\ \A p \in Pedidos : PedidoCoerente(p)'
           /\ TravaCoerente'
<1> USE CreditoAssumption DEF IInv, Encerrar
<1>1. pedido' \in [Pedidos -> Pedido] /\ trava' \in [Maquininhas -> Pedidos \cup {Nulo}]
  BY DEF TypeOK, Pedido, Passos, Ocioso
<1>2. ASSUME NEW p \in Pedidos PROVE PedidoCoerente(p)'
  <2>1. CASE p = q
    BY <2>1 DEF PedidoCoerente, Ocioso, TypeOK
  <2>2. CASE p # q
    <3>1. pedido'[p] = pedido[p]
      BY <2>2 DEF TypeOK
    <3>2. pedido[p].passo = "travado" =>
            /\ trava'[pedido[p].m] = p
            /\ saldo'[pedido[p].m] = saldo[pedido[p].m]
      BY <2>2 DEF PedidoCoerente, TypeOK
    <3> QED
      BY <3>1, <3>2 DEF PedidoCoerente
  <2> QED
    BY <2>1, <2>2
<1>3. TravaCoerente'
  BY DEF TravaCoerente, TypeOK
<1> QED
  BY <1>1, <1>2, <1>3

\* A step that only changes what request q is doing, and takes no lock, keeps
\* the coherence of the requests when q's new record is coherent by itself.
LEMMA PassoCoerente ==
    ASSUME IInv, NEW q \in Pedidos, NEW r \in Pedido,
           pedido' = [pedido EXCEPT ![q] = r],
           UNCHANGED <<situacao, limite, saldo, razao, venda, trava>>,
           pedido[q].passo # "travado", r.passo # "travado",
           r.passo \in {"lerLimite", "atualizar", "excluir"} =>
             r.m \in Maquininhas /\ situacao[r.m] # "ausente",
           r.passo \in {"lerLimite", "lerRazao", "atualizar"} =>
             r.tipo \in Razao!TipoMovimentoCredito
    PROVE  IInv'
<1> USE DEF IInv
<1>1. TypeOK'
  BY DEF TypeOK
<1>2. ASSUME NEW p \in Pedidos PROVE PedidoCoerente(p)'
  <2>1. CASE p = q
    BY <2>1 DEF PedidoCoerente, TypeOK
  <2>2. CASE p # q
    <3>1. pedido'[p] = pedido[p] /\ PedidoCoerente(p)
      BY <2>2 DEF TypeOK
    <3> QED
      BY <3>1 DEF PedidoCoerente
  <2> QED
    BY <2>1, <2>2
<1>3. TravaCoerente'
  BY DEF TravaCoerente, TypeOK
<1>4. /\ SaldoNuncaNegativo' /\ SoCadastradaTemRazao'
      /\ \A m \in Maquininhas : Cadeia(razao[m], saldo[m])'
  BY DEF SaldoNuncaNegativo, Cadeia, SoCadastradaTemRazao
<1> QED
  BY <1>1, <1>2, <1>3, <1>4

\* A step that ends request q and changes no row keeps the invariant.
LEMMA EncerrarSemGravar ==
    ASSUME IInv, NEW q \in Pedidos, Encerrar(q), UNCHANGED <<limite, saldo, razao>>,
           situacao' \in [Maquininhas -> {"ausente", "cadastrada", "excluida"}],
           \A m \in Maquininhas : situacao[m] # "ausente" <=> situacao'[m] # "ausente",
           venda' \in [Vendas -> {"nenhuma", "APROVADO", "CANCELADO"}]
    PROVE  IInv'
<1>1. /\ pedido' \in [Pedidos -> Pedido]
      /\ trava' \in [Maquininhas -> Pedidos \cup {Nulo}]
      /\ \A p \in Pedidos : PedidoCoerente(p)'
      /\ TravaCoerente'
  BY EncerrarCoerente
<1>2. TypeOK'
  BY <1>1 DEF IInv, TypeOK
<1>3. /\ SaldoNuncaNegativo' /\ SoCadastradaTemRazao'
      /\ \A m \in Maquininhas : Cadeia(razao[m], saldo[m])'
  BY DEF IInv, SaldoNuncaNegativo, Cadeia, SoCadastradaTemRazao
<1> QED
  BY <1>1, <1>2, <1>3 DEF IInv

\* GravarVenda writes a status.
LEMMA GravarVendaTipada ==
    ASSUME TypeOK, NEW p \in Pedidos, GravarVenda(p)
    PROVE  venda' \in [Vendas -> {"nenhuma", "APROVADO", "CANCELADO"}]
BY DEF TypeOK, GravarVenda

\* A row of machine m that moves by x keeps the ledgers when the movement is
\* appended to m's ledger and nobody else's.
LEMMA MovimentoMantemRazao ==
    ASSUME IInv, NEW m \in Maquininhas, NEW t \in Razao!TipoMovimentoCredito,
           NEW x \in Nat, NEW v \in Vendas \cup {Nulo}, NEW depois \in Int,
           depois = Razao!ComEfeito(saldo[m], t, x), depois >= 0,
           saldo' = [saldo EXCEPT ![m] = depois],
           razao' = [razao EXCEPT ![m] = Append(@, Razao!LinhaDoRazao(depois, t, x, v))]
    PROVE  /\ saldo' \in [Maquininhas -> Int]
           /\ razao' \in [Maquininhas -> Seq(Razao!Movimento)]
           /\ SaldoNuncaNegativo'
           /\ \A n \in Maquininhas : Cadeia(razao[n], saldo[n])'
<1> DEFINE linha == Razao!LinhaDoRazao(depois, t, x, v)
<1>1. razao[m] \in Seq(Razao!Movimento) /\ saldo[m] \in Int /\ Cadeia(razao[m], saldo[m])
  BY DEF IInv, TypeOK
<1>2. /\ Append(razao[m], linha) \in Seq(Razao!Movimento)
      /\ Cadeia(Append(razao[m], linha), depois)
  BY <1>1, CadeiaCresce
<1> HIDE DEF linha
<1>3. razao' = [razao EXCEPT ![m] = Append(razao[m], linha)]
  BY DEF linha
<1>4. saldo' \in [Maquininhas -> Int] /\ razao' \in [Maquininhas -> Seq(Razao!Movimento)]
  BY <1>2, <1>3 DEF IInv, TypeOK
<1>5. SaldoNuncaNegativo'
  BY DEF IInv, TypeOK, SaldoNuncaNegativo
<1>6. ASSUME NEW n \in Maquininhas PROVE Cadeia(razao'[n], saldo'[n])
  <2>1. CASE n = m
    BY <2>1, <1>2, <1>3 DEF IInv, TypeOK
  <2>2. CASE n # m
    <3>1. razao'[n] = razao[n] /\ saldo'[n] = saldo[n] /\ Cadeia(razao[n], saldo[n])
      BY <2>2, <1>3 DEF IInv, TypeOK
    <3> QED
      BY <3>1
  <2> QED
    BY <2>1, <2>2
<1> QED
  BY <1>4, <1>5, <1>6 DEF Cadeia

\* Registering a machine with its opening recharge.
LEMMA CriarIInv ==
    ASSUME IInv, NEW m \in Maquininhas, Criar(m)
    PROVE  IInv'
<1> USE CreditoAssumption DEF IInv
<1>1. "RECARGA" \in Razao!TipoMovimentoCredito /\ CreditoInicial \in Nat
      /\ saldo[m] + CreditoInicial = Razao!ComEfeito(saldo[m], "RECARGA", CreditoInicial)
      /\ saldo[m] + CreditoInicial \in Int /\ saldo[m] + CreditoInicial >= 0
  BY DEF Razao!TipoMovimentoCredito, Razao!MovimentosPositivos, Razao!ComEfeito, TypeOK,
         SaldoNuncaNegativo
<1>2. /\ saldo' \in [Maquininhas -> Int]
      /\ razao' \in [Maquininhas -> Seq(Razao!Movimento)]
      /\ SaldoNuncaNegativo'
      /\ \A n \in Maquininhas : Cadeia(razao[n], saldo[n])'
  <2>1. saldo' = [saldo EXCEPT ![m] = saldo[m] + CreditoInicial]
    BY DEF Criar, TypeOK
  <2>2. razao' = [razao EXCEPT ![m] = Append(@, Razao!LinhaDoRazao(
                     saldo[m] + CreditoInicial, "RECARGA", CreditoInicial, Nulo))]
    BY DEF Criar
  <2> QED
    BY <1>1, <2>1, <2>2, MovimentoMantemRazao
<1>3. TypeOK'
  BY <1>2 DEF Criar, TypeOK
<1>4. ASSUME NEW p \in Pedidos PROVE PedidoCoerente(p)'
  <2>1. pedido[p].passo \in {"lerLimite", "atualizar", "travado", "excluir"} => pedido[p].m # m
    BY DEF Criar, PedidoCoerente
  <2>2. \A n \in Maquininhas : n # m => saldo'[n] = saldo[n] /\ situacao'[n] = situacao[n]
    BY DEF Criar, TypeOK
  <2> QED
    BY <2>1, <2>2 DEF Criar, PedidoCoerente
<1>5. TravaCoerente' /\ SoCadastradaTemRazao'
  BY DEF Criar, TravaCoerente, SoCadastradaTemRazao, TypeOK
<1> QED
  BY <1>2, <1>3, <1>4, <1>5

\* Taking the row's lock and computing the balance the commit will publish.
LEMMA AtualizarSaldoIInv ==
    ASSUME IInv, NEW q \in Pedidos, AtualizarSaldo(q)
    PROVE  IInv'
<1> USE CreditoAssumption DEF IInv
<1> DEFINE r == pedido[q]
           s == Razao!ComEfeito(saldo[r.m], r.tipo, r.valor)
<1>1. /\ r \in Pedido /\ r.m \in Maquininhas /\ situacao[r.m] # "ausente"
      /\ r.tipo \in Razao!TipoMovimentoCredito /\ r.valor \in Nat /\ saldo[r.m] \in Int
  BY DEF AtualizarSaldo, PedidoCoerente, TypeOK, Pedido
<1>2. s \in Int /\ s >= 0
  BY <1>1 DEF AtualizarSaldo, CondicaoDoUpdate, Razao!ComEfeito, Razao!TipoMovimentoCredito,
              Razao!MovimentosPositivos, Razao!MovimentosNegativos, SaldoNuncaNegativo
<1>3. /\ pedido' = [pedido EXCEPT ![q] = [r EXCEPT !.passo = "travado", !.saldoTx = s]]
      /\ trava' = [trava EXCEPT ![r.m] = q] /\ trava[r.m] = Nulo
      /\ UNCHANGED <<situacao, limite, saldo, razao, venda>>
  BY DEF AtualizarSaldo, TypeOK
<1> HIDE DEF s
<1>4. TypeOK'
  BY <1>1, <1>2, <1>3 DEF TypeOK, Pedido, Passos
<1>5. ASSUME NEW p \in Pedidos PROVE PedidoCoerente(p)'
  <2>1. CASE p = q
    BY <2>1, <1>1, <1>2, <1>3 DEF PedidoCoerente, TypeOK, s
  <2>2. CASE p # q
    <3>1. pedido'[p] = pedido[p] /\ PedidoCoerente(p)
      BY <2>2, <1>3 DEF TypeOK
    <3>2. pedido[p].passo = "travado" => trava'[pedido[p].m] = p
      BY <3>1, <1>3 DEF PedidoCoerente, TypeOK
    <3> QED
      BY <3>1, <3>2, <1>3 DEF PedidoCoerente
  <2> QED
    BY <2>1, <2>2
<1>6. TravaCoerente'
  <2>1. r.passo # "travado"
    BY DEF AtualizarSaldo
  <2> QED
    BY <1>1, <1>3, <2>1 DEF TravaCoerente, TypeOK
<1>7. /\ SaldoNuncaNegativo' /\ SoCadastradaTemRazao'
      /\ \A m \in Maquininhas : Cadeia(razao[m], saldo[m])'
  BY <1>3 DEF SaldoNuncaNegativo, Cadeia, SoCadastradaTemRazao
<1> QED
  BY <1>4, <1>5, <1>6, <1>7

\* registrarMovimento and the commit: the balance published is the one
\* computed under the lock, so the new row continues the chain.
LEMMA RegistrarIInv ==
    ASSUME IInv, NEW q \in Pedidos, Registrar(q)
    PROVE  IInv'
<1> USE CreditoAssumption DEF IInv
<1> DEFINE r == pedido[q]
<1>1. /\ r \in Pedido /\ r.m \in Maquininhas /\ situacao[r.m] # "ausente"
      /\ r.tipo \in Razao!TipoMovimentoCredito /\ r.valor \in Nat
      /\ r.v \in Vendas \cup {Nulo} /\ r.saldoTx \in Int
      /\ trava[r.m] = q /\ r.saldoTx >= 0
      /\ r.saldoTx = Razao!ComEfeito(saldo[r.m], r.tipo, r.valor)
  BY DEF Registrar, PedidoCoerente, TypeOK, Pedido
<1>2. /\ saldo' = [saldo EXCEPT ![r.m] = r.saldoTx]
      /\ razao' = [razao EXCEPT ![r.m] =
            Append(@, Razao!LinhaDoRazao(r.saldoTx, r.tipo, r.valor, r.v))]
      /\ GravarVenda(q) /\ Encerrar(q) /\ UNCHANGED <<situacao, limite>>
  BY DEF Registrar
<1>3. /\ saldo' \in [Maquininhas -> Int]
      /\ razao' \in [Maquininhas -> Seq(Razao!Movimento)]
      /\ SaldoNuncaNegativo'
      /\ \A n \in Maquininhas : Cadeia(razao[n], saldo[n])'
  <2> HIDE DEF r
  <2> QED
    BY <1>1, <1>2, MovimentoMantemRazao
<1>4. /\ pedido' \in [Pedidos -> Pedido]
      /\ trava' \in [Maquininhas -> Pedidos \cup {Nulo}]
      /\ \A p \in Pedidos : PedidoCoerente(p)'
      /\ TravaCoerente'
  <2>1. \A m \in Maquininhas : trava[m] # q /\ trava[m] # Nulo => saldo'[m] = saldo[m]
    BY <1>1, <1>2 DEF TypeOK
  <2> QED
    BY <1>2, <2>1, EncerrarCoerente
<1>5. TypeOK' /\ SoCadastradaTemRazao'
  BY <1>1, <1>2, <1>3, <1>4, GravarVendaTipada DEF TypeOK, SoCadastradaTemRazao
<1> QED
  BY <1>3, <1>4, <1>5

\* The record of a request that arrives.
LEMMA NovoTipado ==
    ASSUME NEW t \in Razao!TipoMovimentoCredito \cup {"NENHUM", "EXCLUSAO"},
           NEW m \in Maquininhas \cup {Nulo}, NEW v \in Vendas \cup {Nulo},
           NEW x \in Nat, NEW passo \in Passos
    PROVE  /\ Novo(t, m, v, x, passo) \in Pedido
           /\ Novo(t, m, v, x, passo).passo = passo
           /\ Novo(t, m, v, x, passo).m = m
           /\ Novo(t, m, v, x, passo).tipo = t
BY DEF Novo, Pedido

\* A request that arrives, or that reads before it writes, changes no row.
LEMMA LeituraIInv ==
    ASSUME IInv, NEW q \in Pedidos,
           \/ Iniciar(q) \/ LerLimite(q) \/ DispensarDebito(q)
           \/ BuscarConsumo(q) \/ DispensarEstorno(q)
    PROVE  IInv'
<1> USE CreditoAssumption DEF IInv
<1>0. pedido[q] \in Pedido /\ pedido \in [Pedidos -> Pedido]
  BY DEF TypeOK
<1>1. ASSUME NEW m \in Maquininhas, NEW v \in Vendas, NEW x \in ValoresVenda,
             IniciarVenda(q, m, v, x)
      PROVE  IInv'
  <2> DEFINE r == Novo("CONSUMO", m, v, x, "lerLimite")
  <2>1. "CONSUMO" \in Razao!TipoMovimentoCredito /\ x \in Nat
    BY DEF Razao!TipoMovimentoCredito, Razao!MovimentosNegativos
  <2>2. r \in Pedido /\ r.passo = "lerLimite" /\ r.m = m /\ r.tipo = "CONSUMO"
    BY <2>1, NovoTipado DEF Passos
  <2>3. /\ pedido' = [pedido EXCEPT ![q] = r] /\ pedido[q].passo = "ocioso"
        /\ situacao[m] = "cadastrada"
        /\ UNCHANGED <<situacao, limite, saldo, razao, venda, trava>>
    BY <1>1 DEF IniciarVenda
  <2> HIDE DEF r
  <2> QED
    BY <2>1, <2>2, <2>3, PassoCoerente
<1>2. ASSUME NEW m \in Maquininhas, NEW t \in TiposManuais, NEW x \in ValoresAjuste,
             IniciarLancamento(q, m, t, x)
      PROVE  IInv'
  <2> DEFINE r == Novo(t, m, Nulo, x, "lerLimite")
  <2>1. t \in Razao!TipoMovimentoCredito /\ x \in Nat
    BY DEF TiposManuais, Razao!TipoMovimentoCredito, Razao!MovimentosNegativos,
           Razao!MovimentosPositivos
  <2>2. r \in Pedido /\ r.passo = "lerLimite" /\ r.m = m /\ r.tipo = t
    BY <2>1, NovoTipado DEF Passos
  <2>3. /\ pedido' = [pedido EXCEPT ![q] = r] /\ pedido[q].passo = "ocioso"
        /\ situacao[m] # "ausente"
        /\ UNCHANGED <<situacao, limite, saldo, razao, venda, trava>>
    BY <1>2 DEF IniciarLancamento
  <2> HIDE DEF r
  <2> QED
    BY <2>1, <2>2, <2>3, PassoCoerente
<1>3. ASSUME NEW v \in Vendas, IniciarCancelamento(q, v) PROVE IInv'
  <2> DEFINE r == Novo("ESTORNO", Nulo, v, 0, "lerRazao")
  <2>1. "ESTORNO" \in Razao!TipoMovimentoCredito
    BY DEF Razao!TipoMovimentoCredito, Razao!MovimentosPositivos
  <2>2. r \in Pedido /\ r.passo = "lerRazao" /\ r.tipo = "ESTORNO"
    BY <2>1, NovoTipado DEF Passos
  <2>3. /\ pedido' = [pedido EXCEPT ![q] = r] /\ pedido[q].passo = "ocioso"
        /\ UNCHANGED <<situacao, limite, saldo, razao, venda, trava>>
    BY <1>3 DEF IniciarCancelamento
  <2> HIDE DEF r
  <2> QED
    BY <2>1, <2>2, <2>3, PassoCoerente
<1>4. ASSUME NEW m \in Maquininhas, LerParaExcluir(q, m) PROVE IInv'
  <2> DEFINE r == Novo("EXCLUSAO", m, Nulo, 0, "excluir")
  <2>0. /\ "EXCLUSAO" \in Razao!TipoMovimentoCredito \cup {"NENHUM", "EXCLUSAO"}
        /\ 0 \in Nat /\ "excluir" \in Passos
    BY DEF Passos
  <2>1. r \in Pedido /\ r.passo = "excluir" /\ r.m = m
    BY <2>0, NovoTipado
  <2>2. /\ pedido' = [pedido EXCEPT ![q] = r] /\ pedido[q].passo = "ocioso"
        /\ situacao[m] = "cadastrada"
        /\ UNCHANGED <<situacao, limite, saldo, razao, venda, trava>>
    BY <1>4 DEF LerParaExcluir
  <2> HIDE DEF r
  <2> QED
    BY <2>1, <2>2, PassoCoerente
<1>5. CASE LerLimite(q)
  <2> DEFINE r == [pedido[q] EXCEPT !.passo = "atualizar", !.teto = limite[pedido[q].m]]
  <2>1. /\ pedido[q].m \in Maquininhas /\ situacao[pedido[q].m] # "ausente"
        /\ pedido[q].tipo \in Razao!TipoMovimentoCredito
    BY <1>5 DEF LerLimite, PedidoCoerente
  <2>2. limite[pedido[q].m] \in Nat
    BY <2>1 DEF TypeOK
  <2>3. r \in Pedido /\ r.passo = "atualizar" /\ r.m = pedido[q].m /\ r.tipo = pedido[q].tipo
    BY <1>0, <2>2 DEF Pedido, Passos
  <2>4. pedido' = [pedido EXCEPT ![q] = r]
    BY <1>0, <1>5 DEF LerLimite
  <2>5. pedido[q].passo # "travado" /\ UNCHANGED <<situacao, limite, saldo, razao, venda, trava>>
    BY <1>5 DEF LerLimite
  <2> HIDE DEF r
  <2> QED
    BY <2>1, <2>3, <2>4, <2>5, PassoCoerente
<1>6. CASE DispensarDebito(q) \/ DispensarEstorno(q)
  <2> DEFINE r == [pedido[q] EXCEPT !.passo = "semMovimento"]
  <2>1. r \in Pedido /\ r.passo = "semMovimento"
    BY <1>0 DEF Pedido, Passos
  <2>2. pedido' = [pedido EXCEPT ![q] = r]
    BY <1>0, <1>6 DEF DispensarDebito, DispensarEstorno, Em
  <2>3. pedido[q].passo # "travado" /\ UNCHANGED <<situacao, limite, saldo, razao, venda, trava>>
    BY <1>6 DEF DispensarDebito, DispensarEstorno
  <2> HIDE DEF r
  <2> QED
    BY <2>1, <2>2, <2>3, PassoCoerente
<1>7. CASE BuscarConsumo(q)
  <2>0. PICK m \in Maquininhas : \E i \in 1..Len(razao[m]) :
          /\ razao[m][i].tipo = "CONSUMO"
          /\ pedido' = [pedido EXCEPT ![q].passo = "atualizar", ![q].m = m,
                                      ![q].valor = razao[m][i].valor]
    BY <1>7 DEF BuscarConsumo
  <2>1. PICK i \in 1..Len(razao[m]) :
          /\ razao[m][i].tipo = "CONSUMO"
          /\ pedido' = [pedido EXCEPT ![q].passo = "atualizar", ![q].m = m,
                                      ![q].valor = razao[m][i].valor]
    BY <2>0
  <2> DEFINE r == [pedido[q] EXCEPT !.passo = "atualizar", !.m = m,
                                    !.valor = razao[m][i].valor]
  <2>2. razao[m][i] \in Razao!Movimento /\ razao[m] # <<>>
    BY DEF TypeOK
  <2>3. razao[m][i].valor \in Nat /\ situacao[m] # "ausente"
    BY <2>2 DEF Razao!Movimento, SoCadastradaTemRazao
  <2>4. r \in Pedido /\ r.passo = "atualizar" /\ r.m = m /\ r.tipo = pedido[q].tipo
    BY <1>0, <2>3 DEF Pedido, Passos
  <2>5. pedido' = [pedido EXCEPT ![q] = r]
    BY <1>0, <2>1
  <2>6. /\ pedido[q].passo = "lerRazao"
        /\ UNCHANGED <<situacao, limite, saldo, razao, venda, trava>>
    BY <1>7 DEF BuscarConsumo
  <2>7. pedido[q].tipo \in Razao!TipoMovimentoCredito
    BY <2>6 DEF PedidoCoerente
  <2> HIDE DEF r
  <2> QED
    BY <2>3, <2>4, <2>5, <2>6, <2>7, PassoCoerente
<1> QED
  BY <1>1, <1>2, <1>3, <1>4, <1>5, <1>6, <1>7 DEF Iniciar

\* A refusal, a rollback, a commit without movement and an exclusion end the
\* request and touch no balance and no ledger.
LEMMA FimSemMovimentoIInv ==
    ASSUME IInv, NEW q \in Pedidos,
           \/ RecusarSemLimite(q) \/ RecusarPorSaldo(q) \/ RecusarDuplicado(q)
           \/ ConfirmarSemMovimento(q) \/ Excluir(q) \/ Reverter(q)
    PROVE  IInv'
<1>1. CASE RecusarSemLimite(q) \/ RecusarPorSaldo(q) \/ RecusarDuplicado(q) \/ Reverter(q)
  <2>1. Encerrar(q) /\ UNCHANGED <<situacao, limite, saldo, razao, venda>>
    BY <1>1 DEF RecusarSemLimite, RecusarPorSaldo, RecusarDuplicado, Reverter
  <2>2. /\ situacao \in [Maquininhas -> {"ausente", "cadastrada", "excluida"}]
        /\ venda \in [Vendas -> {"nenhuma", "APROVADO", "CANCELADO"}]
    BY DEF IInv, TypeOK
  <2> QED
    BY <2>1, <2>2, EncerrarSemGravar
<1>2. CASE ConfirmarSemMovimento(q)
  <2>1. Encerrar(q) /\ GravarVenda(q) /\ UNCHANGED <<situacao, limite, saldo, razao>>
    BY <1>2 DEF ConfirmarSemMovimento
  <2>2. /\ situacao \in [Maquininhas -> {"ausente", "cadastrada", "excluida"}]
        /\ venda' \in [Vendas -> {"nenhuma", "APROVADO", "CANCELADO"}]
    BY <2>1, GravarVendaTipada DEF IInv, TypeOK
  <2> QED
    BY <2>1, <2>2, EncerrarSemGravar
<1>3. CASE Excluir(q)
  <2>1. /\ Encerrar(q) /\ UNCHANGED <<limite, saldo, razao, venda>>
        /\ situacao' = [situacao EXCEPT ![pedido[q].m] = "excluida"]
        /\ pedido[q].passo = "excluir"
    BY <1>3 DEF Excluir
  <2>2. pedido[q].m \in Maquininhas /\ situacao[pedido[q].m] # "ausente"
    BY <2>1 DEF IInv, PedidoCoerente
  <2>3. /\ situacao' \in [Maquininhas -> {"ausente", "cadastrada", "excluida"}]
        /\ \A m \in Maquininhas : situacao[m] # "ausente" <=> situacao'[m] # "ausente"
        /\ venda' \in [Vendas -> {"nenhuma", "APROVADO", "CANCELADO"}]
    BY <2>1, <2>2 DEF IInv, TypeOK
  <2> QED
    BY <2>1, <2>3, EncerrarSemGravar
<1> QED
  BY <1>1, <1>2, <1>3

\* A change of the limit moves no credit.
LEMMA AtualizarLimiteIInv ==
    ASSUME IInv, NEW m \in Maquininhas, NEW l \in Limites, AtualizarLimite(m, l)
    PROVE  IInv'
<1>1. l \in 0..LimiteMaximo
  BY CreditoAssumption
<1>2. TypeOK'
  BY <1>1 DEF IInv, TypeOK, AtualizarLimite
<1>3. /\ SaldoNuncaNegativo' /\ TravaCoerente' /\ SoCadastradaTemRazao'
      /\ \A n \in Maquininhas : Cadeia(razao[n], saldo[n])'
      /\ \A p \in Pedidos : PedidoCoerente(p)'
  BY DEF IInv, AtualizarLimite, SaldoNuncaNegativo, TravaCoerente, SoCadastradaTemRazao,
         Cadeia, PedidoCoerente
<1> QED
  BY <1>2, <1>3 DEF IInv

\* Every step, of whatever requests, keeps the invariant.
LEMMA NextIInv == IInv /\ [Next]_vars => IInv'
<1> SUFFICES ASSUME IInv, [Next]_vars PROVE IInv'
  OBVIOUS
<1>1. CASE UNCHANGED vars
  BY <1>1 DEF IInv, vars, TypeOK, SaldoNuncaNegativo, Cadeia, PedidoCoerente, TravaCoerente,
              SoCadastradaTemRazao
<1>2. ASSUME NEW m \in Maquininhas, Criar(m) PROVE IInv'
  BY <1>2, CriarIInv
<1>3. ASSUME NEW m \in Maquininhas, NEW l \in Limites, AtualizarLimite(m, l) PROVE IInv'
  BY <1>3, AtualizarLimiteIInv
<1>4. ASSUME NEW p \in Pedidos, Iniciar(p) \/ Avancar(p) \/ Reverter(p) PROVE IInv'
  <2>1. CASE Iniciar(p) \/ LerLimite(p) \/ DispensarDebito(p) \/ BuscarConsumo(p)
             \/ DispensarEstorno(p)
    BY <2>1, LeituraIInv
  <2>2. CASE AtualizarSaldo(p)
    BY <2>2, AtualizarSaldoIInv
  <2>3. CASE Registrar(p)
    BY <2>3, RegistrarIInv
  <2>4. CASE RecusarSemLimite(p) \/ RecusarPorSaldo(p) \/ RecusarDuplicado(p)
             \/ ConfirmarSemMovimento(p) \/ Excluir(p) \/ Reverter(p)
    BY <2>4, FimSemMovimentoIInv
  <2> QED
    BY <1>4, <2>1, <2>2, <2>3, <2>4 DEF Avancar
<1> QED
  BY <1>1, <1>2, <1>3, <1>4 DEF Next

-----------------------------------------------------------------------------
\* The strengthened invariant holds in every behaviour of the transactions.
THEOREM Invariante == Spec => []IInv
<1>1. Init => IInv
  BY InitIInv
<1>2. IInv /\ [Next]_vars => IInv'
  BY NextIInv
<1> QED
  BY <1>1, <1>2, PTL DEF Spec

\* The state of the machines, sales and requests keeps its type.
THEOREM CreditoTipado == Spec => []TypeOK
<1>1. IInv => TypeOK
  BY DEF IInv
<1> QED
  BY <1>1, Invariante, PTL

\* Sales, adjustments and refunds running at once never leave a machine owing.
THEOREM SaldoSeguro == Spec => []SaldoNuncaNegativo
<1>1. IInv => SaldoNuncaNegativo
  BY DEF IInv
<1> QED
  BY <1>1, Invariante, PTL

\* The balance of a machine is what its ledger adds up to, row by row.
THEOREM RazaoSempreEncadeado == Spec => []RazaoEncadeado
<1>1. IInv => RazaoEncadeado
  BY DEF IInv, Cadeia, RazaoEncadeado
<1> QED
  BY <1>1, Invariante, PTL

\* The account of every machine is sound: typed, never in debt, and its ledger an unbroken
\* chain that ends at the balance (ContaConfere).
THEOREM ContaSempreConfere == Spec => []ContaConfere
BY CreditoTipado, SaldoSeguro, RazaoSempreEncadeado, PTL DEF ContaConfere

-----------------------------------------------------------------------------
(***************************************************************************)
(* Sales and refunds: a refund mirrors one consumption, the sale and its   *)
(* movements fall or pass together, nothing but a refund passes the        *)
(* maximum, and the transactions implement RazaoDeCredito.                 *)
(***************************************************************************)
Valores == ValoresVenda \cup ValoresAjuste \cup {CreditoInicial}
TemLinha(v, t) == \E m \in Maquininhas : Razao!TemMovimento(m, v, t)

\* The consumption of sale v, by x, is in the first n rows of a ledger.
Consumiu(linhas, n, v, x) ==
    \E j \in 1..n :
        /\ linhas[j].tipo = "CONSUMO"
        /\ linhas[j].venda = v
        /\ linhas[j].valor = x

\* The rows that carry a sale carry one, each at most once per type...
LinhasDeVenda ==
    \A m \in Maquininhas : \A i \in 1..Len(razao[m]) :
        /\ razao[m][i].tipo \in Razao!TiposDeVenda => razao[m][i].venda \in Vendas
        /\ razao[m][i].tipo = "CONSUMO" => razao[m][i].valor \in Valores \ {0}
        /\ razao[m][i].tipo = "ESTORNO"
             => Consumiu(razao[m], i - 1, razao[m][i].venda, razao[m][i].valor)

\* ...as the unique index says.
LinhasUnicas ==
    \A m, n \in Maquininhas : \A i \in 1..Len(razao[m]) : \A k \in 1..Len(razao[n]) :
        /\ razao[m][i].tipo \in Razao!TiposDeVenda
        /\ razao[m][i].tipo = razao[n][k].tipo
        /\ razao[m][i].venda = razao[n][k].venda
        => m = n /\ i = k

\* What a request with record r knows of the sale and of the value it moves.
PedidoDeVenda(r) ==
    /\ r.passo = "ocioso" => r.tipo = "NENHUM"
    /\ r.tipo \in Razao!TiposDeVenda <=> r.v \in Vendas
    /\ r.tipo = "CONSUMO" => venda[r.v] = "nenhuma"
    /\ r.tipo = "ESTORNO" => venda[r.v] # "nenhuma"
    /\ r.passo = "excluir" => r.tipo = "EXCLUSAO"
    /\ r.passo = "lerRazao" => r.tipo = "ESTORNO"
    /\ r.passo = "lerLimite" =>
         /\ r.tipo # "ESTORNO" /\ r.valor \in Valores
         /\ r.tipo # "CONSUMO" => r.valor > 0
    /\ r.passo = "semMovimento" =>
         /\ r.tipo \in Razao!TiposDeVenda
         /\ r.tipo = "ESTORNO" /\ TemLinha(r.v, "CONSUMO") => TemLinha(r.v, "ESTORNO")
    /\ r.passo \in {"atualizar", "travado"} =>
         /\ r.valor \in Valores \ {0}
         /\ r.tipo = "ESTORNO" => Consumiu(razao[r.m], Len(razao[r.m]), r.v, r.valor)
    /\ r.teto <= LimiteMaximo
    /\ r.passo = "travado" /\ r.tipo \in {"RECARGA", "AJUSTE_CREDITO"} => r.saldoTx <= r.teto

\* A sale being made is nobody else's.
VendaDeUmSo ==
    \A p, q \in Pedidos :
        p # q /\ pedido[p].tipo = "CONSUMO" => pedido[q].v # pedido[p].v

\* VendaERazaoAndamJuntos, of one sale.
VendaComLinhas(v) ==
    /\ venda[v] = "nenhuma" => ~TemLinha(v, "CONSUMO")
    /\ venda[v] = "APROVADO" => ~TemLinha(v, "ESTORNO")
    /\ venda[v] = "CANCELADO" => (TemLinha(v, "CONSUMO") <=> TemLinha(v, "ESTORNO"))

EInv ==
    /\ LinhasDeVenda
    /\ LinhasUnicas
    /\ \A p \in Pedidos : PedidoDeVenda(pedido[p])
    /\ VendaDeUmSo
    /\ \A v \in Vendas : VendaComLinhas(v)

-----------------------------------------------------------------------------
\* What appending a row to the ledger of m changes, and what it leaves.
LEMMA LinhaNova ==
    ASSUME razao \in [Maquininhas -> Seq(Razao!Movimento)],
           NEW m \in Maquininhas, NEW linha \in Razao!Movimento,
           razao' = [razao EXCEPT ![m] = Append(@, linha)]
    PROVE  /\ Len(razao'[m]) = Len(razao[m]) + 1 /\ Len(razao[m]) \in Nat
           /\ razao'[m][Len(razao[m]) + 1] = linha
           /\ \A n \in Maquininhas :
                /\ n # m => razao'[n] = razao[n]
                /\ Len(razao[n]) \in Nat
                /\ \A i \in 1..Len(razao[n]) : i \in 1..Len(razao'[n]) /\ razao'[n][i] = razao[n][i]
                /\ \A i \in 1..Len(razao'[n]) :
                     i \in 1..Len(razao[n]) \/ (n = m /\ i = Len(razao[m]) + 1)
           /\ \A n \in Maquininhas, v \in Vendas, t \in Razao!TipoMovimentoCredito :
                Razao!TemMovimento(n, v, t)' <=>
                  Razao!TemMovimento(n, v, t) \/ (n = m /\ linha.venda = v /\ linha.tipo = t)
<1>1. /\ razao[m] \in Seq(Razao!Movimento)
      /\ razao'[m] = Append(razao[m], linha)
      /\ \A n \in Maquininhas : n # m => razao'[n] = razao[n]
      /\ \A n \in Maquininhas : razao[n] \in Seq(Razao!Movimento)
  OBVIOUS
<1>2. /\ Len(razao'[m]) = Len(razao[m]) + 1 /\ Len(razao[m]) \in Nat
      /\ razao'[m][Len(razao[m]) + 1] = linha
      /\ \A i \in 1..Len(razao[m]) : razao'[m][i] = razao[m][i]
  BY <1>1
<1>3. ASSUME NEW n \in Maquininhas
      PROVE  /\ n # m => razao'[n] = razao[n]
             /\ Len(razao[n]) \in Nat
             /\ \A i \in 1..Len(razao[n]) : i \in 1..Len(razao'[n]) /\ razao'[n][i] = razao[n][i]
             /\ \A i \in 1..Len(razao'[n]) :
                  i \in 1..Len(razao[n]) \/ (n = m /\ i = Len(razao[m]) + 1)
  <2>1. Len(razao[n]) \in Nat
    BY <1>1
  <2>2. CASE n = m
    BY <2>1, <2>2, <1>2
  <2>3. CASE n # m
    BY <2>1, <2>3, <1>1
  <2> QED
    BY <2>2, <2>3
<1>4. ASSUME NEW n \in Maquininhas, NEW v \in Vendas, NEW t \in Razao!TipoMovimentoCredito
      PROVE  Razao!TemMovimento(n, v, t)' <=>
               Razao!TemMovimento(n, v, t) \/ (n = m /\ linha.venda = v /\ linha.tipo = t)
  <2>1. Razao!TemMovimento(n, v, t)' <=>
          \E i \in 1..Len(razao'[n]) : razao'[n][i].venda = v /\ razao'[n][i].tipo = t
    BY DEF Razao!TemMovimento
  <2>2. Razao!TemMovimento(n, v, t) <=>
          \E i \in 1..Len(razao[n]) : razao[n][i].venda = v /\ razao[n][i].tipo = t
    BY DEF Razao!TemMovimento
  <2>3. ASSUME Razao!TemMovimento(n, v, t)'
        PROVE  Razao!TemMovimento(n, v, t) \/ (n = m /\ linha.venda = v /\ linha.tipo = t)
    <3>1. PICK i \in 1..Len(razao'[n]) : razao'[n][i].venda = v /\ razao'[n][i].tipo = t
      BY <2>1, <2>3
    <3>2. CASE i \in 1..Len(razao[n])
      BY <3>1, <3>2, <1>3, <2>2
    <3>3. CASE n = m /\ i = Len(razao[m]) + 1
      BY <3>1, <3>3, <1>2
    <3> QED
      BY <3>2, <3>3, <1>3
  <2>4. ASSUME Razao!TemMovimento(n, v, t) PROVE Razao!TemMovimento(n, v, t)'
    BY <2>1, <2>2, <2>4, <1>3
  <2>5. ASSUME n = m /\ linha.venda = v /\ linha.tipo = t PROVE Razao!TemMovimento(n, v, t)'
    <3>1. Len(razao[m]) + 1 \in 1..Len(razao'[n])
      BY <1>2, <2>5
    <3> QED
      BY <2>1, <3>1, <1>2, <2>5
  <2> QED
    BY <2>3, <2>4, <2>5
<1> QED
  BY <1>2, <1>3, <1>4

\* A row that carries no sale, or the first of its type for its sale, keeps the
\* rows as they have to be.
LEMMA LinhasCrescem ==
    ASSUME razao \in [Maquininhas -> Seq(Razao!Movimento)], LinhasDeVenda, LinhasUnicas,
           NEW m \in Maquininhas, NEW linha \in Razao!Movimento,
           razao' = [razao EXCEPT ![m] = Append(@, linha)],
           linha.tipo \in Razao!TiposDeVenda =>
             /\ linha.venda \in Vendas
             /\ \A n \in Maquininhas : ~Razao!TemMovimento(n, linha.venda, linha.tipo),
           linha.tipo = "CONSUMO" => linha.valor \in Valores \ {0},
           linha.tipo = "ESTORNO" => Consumiu(razao[m], Len(razao[m]), linha.venda, linha.valor)
    PROVE  LinhasDeVenda' /\ LinhasUnicas'
<1>1. /\ Len(razao'[m]) = Len(razao[m]) + 1 /\ Len(razao[m]) \in Nat
      /\ razao'[m][Len(razao[m]) + 1] = linha
      /\ \A n \in Maquininhas :
           /\ Len(razao[n]) \in Nat
           /\ \A i \in 1..Len(razao[n]) : i \in 1..Len(razao'[n]) /\ razao'[n][i] = razao[n][i]
           /\ \A i \in 1..Len(razao'[n]) :
                i \in 1..Len(razao[n]) \/ (n = m /\ i = Len(razao[m]) + 1)
  BY LinhaNova
<1>2. ASSUME NEW n \in Maquininhas, NEW k \in 0..Len(razao[n]), NEW v, NEW x,
             Consumiu(razao[n], k, v, x)
      PROVE  Consumiu(razao'[n], k, v, x)
  <2>1. PICK j \in 1..k : /\ razao[n][j].tipo = "CONSUMO"
                          /\ razao[n][j].venda = v
                          /\ razao[n][j].valor = x
    BY <1>2 DEF Consumiu
  <2>2. j \in 1..Len(razao[n])
    BY <1>1
  <2> QED
    BY <1>1, <2>1, <2>2 DEF Consumiu
<1>3. LinhasDeVenda'
  <2> SUFFICES ASSUME NEW n \in Maquininhas, NEW i \in 1..Len(razao'[n])
               PROVE  /\ razao'[n][i].tipo \in Razao!TiposDeVenda => razao'[n][i].venda \in Vendas
                      /\ razao'[n][i].tipo = "CONSUMO" => razao'[n][i].valor \in Valores \ {0}
                      /\ razao'[n][i].tipo = "ESTORNO"
                           => Consumiu(razao'[n], i - 1, razao'[n][i].venda, razao'[n][i].valor)
    BY DEF LinhasDeVenda
  <2>1. CASE i \in 1..Len(razao[n])
    <3>1. razao'[n][i] = razao[n][i] /\ i - 1 \in 0..Len(razao[n])
      BY <1>1, <2>1
    <3> QED
      BY <1>2, <2>1, <3>1 DEF LinhasDeVenda
  <2>2. CASE n = m /\ i = Len(razao[m]) + 1
    <3>1. i - 1 = Len(razao[m]) /\ i - 1 \in 0..Len(razao[m]) /\ razao'[n][i] = linha
      BY <1>1, <2>2
    <3> QED
      BY <1>2, <2>2, <3>1
  <2> QED
    BY <1>1, <2>1, <2>2
<1>4. LinhasUnicas'
  <2> SUFFICES ASSUME NEW a \in Maquininhas, NEW b \in Maquininhas,
                      NEW i \in 1..Len(razao'[a]), NEW k \in 1..Len(razao'[b])
               PROVE  /\ razao'[a][i].tipo \in Razao!TiposDeVenda
                      /\ razao'[a][i].tipo = razao'[b][k].tipo
                      /\ razao'[a][i].venda = razao'[b][k].venda
                      => a = b /\ i = k
    BY DEF LinhasUnicas
  <2> SUFFICES ASSUME razao'[a][i].tipo \in Razao!TiposDeVenda,
                      razao'[a][i].tipo = razao'[b][k].tipo,
                      razao'[a][i].venda = razao'[b][k].venda
               PROVE  a = b /\ i = k
    OBVIOUS
  <2>1. CASE i \in 1..Len(razao[a]) /\ k \in 1..Len(razao[b])
    BY <1>1, <2>1 DEF LinhasUnicas
  <2>2. CASE a = m /\ i = Len(razao[m]) + 1 /\ b = m /\ k = Len(razao[m]) + 1
    BY <2>2
  <2>3. CASE i \in 1..Len(razao[a]) /\ b = m /\ k = Len(razao[m]) + 1
    <3>1. razao'[b][k] = linha /\ razao'[a][i] = razao[a][i]
      BY <1>1, <2>3
    <3>2. Razao!TemMovimento(a, linha.venda, linha.tipo)
      BY <2>3, <3>1 DEF Razao!TemMovimento
    <3> QED
      BY <3>1, <3>2
  <2>4. CASE k \in 1..Len(razao[b]) /\ a = m /\ i = Len(razao[m]) + 1
    <3>1. razao'[a][i] = linha /\ razao'[b][k] = razao[b][k]
      BY <1>1, <2>4
    <3>2. Razao!TemMovimento(b, linha.venda, linha.tipo)
      BY <2>4, <3>1 DEF Razao!TemMovimento
    <3> QED
      BY <3>1, <3>2
  <2> QED
    BY <1>1, <2>1, <2>2, <2>3, <2>4
<1> QED
  BY <1>3, <1>4

\* Of a sale, the ledgers say one thing more.
LEMMA TemLinhaNova ==
    ASSUME razao \in [Maquininhas -> Seq(Razao!Movimento)],
           NEW m \in Maquininhas, NEW linha \in Razao!Movimento,
           razao' = [razao EXCEPT ![m] = Append(@, linha)],
           NEW v \in Vendas, NEW t \in Razao!TipoMovimentoCredito
    PROVE  TemLinha(v, t)' <=> TemLinha(v, t) \/ (linha.venda = v /\ linha.tipo = t)
<1>1. \A n \in Maquininhas :
        Razao!TemMovimento(n, v, t)' <=>
          Razao!TemMovimento(n, v, t) \/ (n = m /\ linha.venda = v /\ linha.tipo = t)
  BY LinhaNova
<1> QED
  BY <1>1 DEF TemLinha

\* What is given back was consumed.
LEMMA DevolveuConsumiu ==
    ASSUME LinhasDeVenda, NEW v \in Vendas, TemLinha(v, "ESTORNO"),
           razao \in [Maquininhas -> Seq(Razao!Movimento)]
    PROVE  TemLinha(v, "CONSUMO")
<1>1. PICK m \in Maquininhas : Razao!TemMovimento(m, v, "ESTORNO")
  BY DEF TemLinha
<1>2. PICK i \in 1..Len(razao[m]) : razao[m][i].venda = v /\ razao[m][i].tipo = "ESTORNO"
  BY <1>1 DEF Razao!TemMovimento
<1>3. Consumiu(razao[m], i - 1, v, razao[m][i].valor)
  BY <1>2 DEF LinhasDeVenda
<1>4. PICK j \in 1..(i - 1) : razao[m][j].tipo = "CONSUMO" /\ razao[m][j].venda = v
  BY <1>3 DEF Consumiu
<1>5. Len(razao[m]) \in Nat
  OBVIOUS
<1>6. j \in 1..Len(razao[m])
  BY <1>5
<1> QED
  BY <1>4, <1>6 DEF TemLinha, Razao!TemMovimento

\* The types of movement, for the steps that name one.
LEMMA Tipos ==
    /\ {"CONSUMO", "ESTORNO"} \subseteq Razao!TipoMovimentoCredito
    /\ Razao!TiposDeVenda = {"CONSUMO", "ESTORNO"}
    /\ TiposManuais \cap Razao!TiposDeVenda = {}
    /\ Razao!TipoMovimentoCredito = TiposManuais \cup Razao!TiposDeVenda
BY DEF Razao!TipoMovimentoCredito, Razao!MovimentosPositivos, Razao!MovimentosNegativos,
       Razao!TiposDeVenda, TiposManuais

\* No machine, no sale and no request: nothing to relate.
LEMMA InitEInv == Init => EInv
<1> SUFFICES ASSUME Init PROVE EInv
  OBVIOUS
<1>1. LinhasDeVenda /\ LinhasUnicas
  BY DEF Init, LinhasDeVenda, LinhasUnicas
<1>2. ASSUME NEW v \in Vendas PROVE VendaComLinhas(v)
  BY DEF Init, VendaComLinhas, TemLinha, Razao!TemMovimento
<1>3. (\A p \in Pedidos : PedidoDeVenda(pedido[p])) /\ VendaDeUmSo
  BY CreditoAssumption, Tipos DEF Init, PedidoDeVenda, VendaDeUmSo, Ocioso
<1> QED
  BY <1>1, <1>2, <1>3 DEF EInv


\* A request the step is not about goes on knowing what it knew, when rows are
\* only added, no consumption to a sale on record, and a sale stays on record.
LEMMA PedidoFica ==
    ASSUME razao \in [Maquininhas -> Seq(Razao!Movimento)],
           NEW r \in Pedido, PedidoDeVenda(r),
           r.passo \in {"atualizar", "travado"} => r.m \in Maquininhas,
           \A n \in Maquininhas :
             /\ Len(razao'[n]) \in Nat /\ Len(razao[n]) <= Len(razao'[n])
             /\ \A i \in 1..Len(razao[n]) : razao'[n][i] = razao[n][i],
           r.tipo = "CONSUMO" => venda'[r.v] = "nenhuma",
           r.tipo = "ESTORNO" =>
             /\ venda'[r.v] # "nenhuma"
             /\ TemLinha(r.v, "CONSUMO")' => TemLinha(r.v, "CONSUMO")
             /\ TemLinha(r.v, "ESTORNO") => TemLinha(r.v, "ESTORNO")'
    PROVE  PedidoDeVenda(r)'
<1>1. ASSUME r.passo \in {"atualizar", "travado"}, r.tipo = "ESTORNO"
      PROVE  Consumiu(razao'[r.m], Len(razao'[r.m]), r.v, r.valor)
  <2>1. Consumiu(razao[r.m], Len(razao[r.m]), r.v, r.valor) /\ r.m \in Maquininhas
    BY <1>1 DEF PedidoDeVenda
  <2>2. PICK j \in 1..Len(razao[r.m]) : /\ razao[r.m][j].tipo = "CONSUMO"
                                        /\ razao[r.m][j].venda = r.v
                                        /\ razao[r.m][j].valor = r.valor
    BY <2>1 DEF Consumiu
  <2>3. Len(razao[r.m]) \in Nat /\ razao'[r.m][j] = razao[r.m][j]
    BY <2>1, <2>2
  <2>4. j \in 1..Len(razao'[r.m])
    BY <2>1, <2>3
  <2> QED
    BY <2>2, <2>3, <2>4 DEF Consumiu
<1>2. ASSUME r.passo = "semMovimento", r.tipo = "ESTORNO", TemLinha(r.v, "CONSUMO")'
      PROVE  TemLinha(r.v, "ESTORNO")'
  BY <1>2 DEF PedidoDeVenda
<1>3. /\ r.passo = "ocioso" => r.tipo = "NENHUM"
      /\ r.tipo \in Razao!TiposDeVenda <=> r.v \in Vendas
      /\ r.passo = "excluir" => r.tipo = "EXCLUSAO"
      /\ r.passo = "lerRazao" => r.tipo = "ESTORNO"
      /\ r.passo = "lerLimite" =>
           /\ r.tipo # "ESTORNO" /\ r.valor \in Valores
           /\ r.tipo # "CONSUMO" => r.valor > 0
      /\ r.passo = "semMovimento" => r.tipo \in Razao!TiposDeVenda
      /\ r.passo \in {"atualizar", "travado"} => r.valor \in Valores \ {0}
      /\ r.teto <= LimiteMaximo
      /\ r.passo = "travado" /\ r.tipo \in {"RECARGA", "AJUSTE_CREDITO"} => r.saldoTx <= r.teto
  BY DEF PedidoDeVenda
<1> QED
  BY <1>1, <1>2, <1>3 DEF PedidoDeVenda, Razao!TiposDeVenda

\* A step that gives request q a record coherent with rows and sales that do
\* not change keeps the invariant; a sale that q begins is in no other request.
LEMMA PassoSemLinha ==
    ASSUME IInv, EInv, NEW q \in Pedidos, NEW r \in Pedido,
           pedido' = [pedido EXCEPT ![q] = r], UNCHANGED <<razao, venda>>,
           PedidoDeVenda(r),
           \/ r.v = Nulo
           \/ r.v = pedido[q].v /\ r.tipo = pedido[q].tipo
           \/ r.tipo = "CONSUMO" /\ \A p \in Pedidos : pedido[p].v # r.v
           \/ r.tipo = "ESTORNO"
    PROVE  EInv'
<1>0. /\ pedido \in [Pedidos -> Pedido]
      /\ \A p \in Pedidos : p # q => pedido'[p] = pedido[p]
      /\ pedido'[q] = r
  BY DEF IInv, TypeOK
<1>1. LinhasDeVenda' /\ LinhasUnicas' /\ \A v \in Vendas : VendaComLinhas(v)'
  BY DEF EInv, LinhasDeVenda, LinhasUnicas, VendaComLinhas, TemLinha, Razao!TemMovimento
<1>2. ASSUME NEW p \in Pedidos PROVE PedidoDeVenda(pedido[p])'
  BY <1>0 DEF EInv, PedidoDeVenda, TemLinha, Razao!TemMovimento
<1>3. VendaDeUmSo'
  <2> SUFFICES ASSUME NEW a \in Pedidos, NEW b \in Pedidos, a # b, pedido'[a].tipo = "CONSUMO"
               PROVE  pedido'[b].v # pedido'[a].v
    BY DEF VendaDeUmSo
  <2>0. /\ \A p \in Pedidos : pedido[p].tipo = "CONSUMO" =>
                                pedido[p].v \in Vendas /\ venda[pedido[p].v] = "nenhuma"
        /\ r.tipo = "CONSUMO" => r.v \in Vendas /\ venda[r.v] = "nenhuma"
        /\ r.tipo = "ESTORNO" => r.v \in Vendas /\ venda[r.v] # "nenhuma"
    BY Tipos DEF EInv, PedidoDeVenda
  <2>1. CASE a # q /\ b # q
    BY <1>0, <2>1 DEF EInv, VendaDeUmSo
  <2>2. CASE a = q
    <3>1. r.tipo = "CONSUMO" /\ r.v \in Vendas /\ pedido'[b].v = pedido[b].v
      BY <1>0, <2>0, <2>2
    <3>2. r.v # Nulo
      BY <3>1, CreditoAssumption
    <3> QED
      BY <1>0, <2>2, <3>1, <3>2 DEF EInv, VendaDeUmSo
  <2>3. CASE b = q
    <3>1. /\ pedido'[a] = pedido[a] /\ pedido[a].tipo = "CONSUMO"
          /\ pedido[a].v \in Vendas /\ venda[pedido[a].v] = "nenhuma"
      BY <1>0, <2>0, <2>3
    <3>2. pedido[a].v # Nulo
      BY <3>1, CreditoAssumption
    <3> QED
      BY <1>0, <2>0, <2>3, <3>1, <3>2 DEF EInv, VendaDeUmSo
  <2> QED
    BY <2>1, <2>2, <2>3
<1> QED
  BY <1>1, <1>2, <1>3 DEF EInv

\* A request that ends knows nothing.
LEMMA OciosoDeVenda == Ocioso \in Pedido /\ PedidoDeVenda(Ocioso) /\ Ocioso.v = Nulo
BY CreditoAssumption, Tipos DEF Ocioso, Pedido, Passos, PedidoDeVenda

\* A request that ends without a row leaves the rest as it is.
LEMMA FimSemLinha ==
    ASSUME IInv, EInv, NEW q \in Pedidos, Encerrar(q), UNCHANGED <<razao, venda>>
    PROVE  EInv'
<1>1. pedido' = [pedido EXCEPT ![q] = Ocioso]
  BY DEF Encerrar
<1> QED
  BY <1>1, OciosoDeVenda, PassoSemLinha

\* What is known of a request in flight, of IInv and EInv together.
LEMMA DoPedido ==
    ASSUME IInv, EInv, NEW q \in Pedidos
    PROVE  /\ pedido \in [Pedidos -> Pedido] /\ pedido[q] \in Pedido
           /\ PedidoDeVenda(pedido[q]) /\ PedidoCoerente(q)
           /\ pedido[q].valor \in Nat /\ pedido[q].teto \in Nat
BY DEF IInv, EInv, TypeOK, Pedido

\* A request that arrives, and one that reads the limit, keep the invariant.
LEMMA ChegadaEInv ==
    ASSUME IInv, EInv, NEW q \in Pedidos, Iniciar(q) \/ LerLimite(q)
    PROVE  EInv'
<1>0. pedido[q] \in Pedido /\ pedido \in [Pedidos -> Pedido]
  BY DoPedido
<1>1. ASSUME NEW m \in Maquininhas, NEW v \in Vendas, NEW x \in ValoresVenda,
             IniciarVenda(q, m, v, x)
      PROVE  EInv'
  <2> DEFINE r == Novo("CONSUMO", m, v, x, "lerLimite")
  <2>1. r \in Pedido /\ r.v = v /\ r.tipo = "CONSUMO"
    BY CreditoAssumption, Tipos DEF Novo, Pedido, Passos
  <2>2. PedidoDeVenda(r)
    BY <1>1, CreditoAssumption, Tipos DEF IniciarVenda, Novo, PedidoDeVenda, Valores
  <2>3. /\ pedido' = [pedido EXCEPT ![q] = r] /\ UNCHANGED <<razao, venda>>
        /\ \A p \in Pedidos : pedido[p].v # v
    BY <1>1 DEF IniciarVenda
  <2> HIDE DEF r
  <2> QED
    BY <2>1, <2>2, <2>3, PassoSemLinha
<1>2. ASSUME NEW m \in Maquininhas, NEW t \in TiposManuais, NEW x \in ValoresAjuste,
             IniciarLancamento(q, m, t, x)
      PROVE  EInv'
  <2> DEFINE r == Novo(t, m, Nulo, x, "lerLimite")
  <2>0. t \in Razao!TipoMovimentoCredito /\ t \notin {"CONSUMO", "ESTORNO", "NENHUM"}
    BY Tipos DEF TiposManuais
  <2>1. r \in Pedido /\ r.v = Nulo
    BY <2>0, CreditoAssumption DEF Novo, Pedido, Passos
  <2>2. PedidoDeVenda(r)
    BY <2>0, CreditoAssumption, Tipos DEF Novo, PedidoDeVenda, Valores
  <2>3. pedido' = [pedido EXCEPT ![q] = r] /\ UNCHANGED <<razao, venda>>
    BY <1>2 DEF IniciarLancamento
  <2> HIDE DEF r
  <2> QED
    BY <2>1, <2>2, <2>3, PassoSemLinha
<1>3. ASSUME NEW v \in Vendas, IniciarCancelamento(q, v) PROVE EInv'
  <2> DEFINE r == Novo("ESTORNO", Nulo, v, 0, "lerRazao")
  <2>1. r \in Pedido /\ r.tipo = "ESTORNO"
    BY Tipos DEF Novo, Pedido, Passos
  <2>2. PedidoDeVenda(r)
    BY <1>3, CreditoAssumption, Tipos DEF IniciarCancelamento, Novo, PedidoDeVenda
  <2>3. pedido' = [pedido EXCEPT ![q] = r] /\ UNCHANGED <<razao, venda>>
    BY <1>3 DEF IniciarCancelamento
  <2> HIDE DEF r
  <2> QED
    BY <2>1, <2>2, <2>3, PassoSemLinha
<1>4. ASSUME NEW m \in Maquininhas, LerParaExcluir(q, m) PROVE EInv'
  <2> DEFINE r == Novo("EXCLUSAO", m, Nulo, 0, "excluir")
  <2>1. r \in Pedido /\ r.v = Nulo
    BY DEF Novo, Pedido, Passos
  <2>2. PedidoDeVenda(r)
    BY CreditoAssumption, Tipos DEF Novo, PedidoDeVenda
  <2>3. pedido' = [pedido EXCEPT ![q] = r] /\ UNCHANGED <<razao, venda>>
    BY <1>4 DEF LerParaExcluir
  <2> HIDE DEF r
  <2> QED
    BY <2>1, <2>2, <2>3, PassoSemLinha
<1>5. CASE LerLimite(q)
  <2> DEFINE r == [pedido[q] EXCEPT !.passo = "atualizar", !.teto = limite[pedido[q].m]]
  <2>1. pedido[q].m \in Maquininhas /\ limite[pedido[q].m] \in 0..LimiteMaximo
        /\ limite[pedido[q].m] \in Nat /\ limite[pedido[q].m] <= LimiteMaximo
    BY <1>5, DoPedido, CreditoAssumption DEF LerLimite, PedidoCoerente, IInv, TypeOK
  <2>2. r \in Pedido /\ r.v = pedido[q].v /\ r.tipo = pedido[q].tipo
    BY <1>0, <2>1 DEF Pedido, Passos
  <2>3. PedidoDeVenda(r)
    BY <1>0, <1>5, <2>1, DoPedido, Tipos DEF LerLimite, PedidoDeVenda, Pedido
  <2>4. pedido' = [pedido EXCEPT ![q] = r] /\ UNCHANGED <<razao, venda>>
    BY <1>0, <1>5 DEF LerLimite
  <2> HIDE DEF r
  <2> QED
    BY <2>2, <2>3, <2>4, PassoSemLinha
<1> QED
  BY <1>1, <1>2, <1>3, <1>4, <1>5 DEF Iniciar

\* Finding that nothing is to be moved, or what a refund has to mirror.
LEMMA BuscaEInv ==
    ASSUME IInv, EInv, NEW q \in Pedidos,
           DispensarDebito(q) \/ DispensarEstorno(q) \/ BuscarConsumo(q)
    PROVE  EInv'
<1>0. pedido[q] \in Pedido /\ pedido \in [Pedidos -> Pedido]
  BY DoPedido
<1>1. CASE DispensarDebito(q) \/ DispensarEstorno(q)
  <2> DEFINE r == [pedido[q] EXCEPT !.passo = "semMovimento"]
  <2>1. r \in Pedido /\ r.v = pedido[q].v /\ r.tipo = pedido[q].tipo
    BY <1>0 DEF Pedido, Passos
  <2>2. PedidoDeVenda(r)
    <3>1. CASE DispensarDebito(q)
      BY <1>0, <3>1, DoPedido, Tipos DEF DispensarDebito, PedidoDeVenda, Pedido
    <3>2. CASE DispensarEstorno(q)
      <4>1. TemLinha(pedido[q].v, "CONSUMO") => TemLinha(pedido[q].v, "ESTORNO")
        BY <3>2 DEF DispensarEstorno, TemLinha
      <4> QED
        BY <1>0, <3>2, <4>1, DoPedido, Tipos DEF DispensarEstorno, PedidoDeVenda, Pedido
    <3> QED
      BY <1>1, <3>1, <3>2
  <2>3. pedido' = [pedido EXCEPT ![q] = r] /\ UNCHANGED <<razao, venda>>
    BY <1>0, <1>1 DEF DispensarDebito, DispensarEstorno, Em
  <2> HIDE DEF r
  <2> QED
    BY <2>1, <2>2, <2>3, PassoSemLinha
<1>2. CASE BuscarConsumo(q)
  <2>0. PICK m \in Maquininhas : \E i \in 1..Len(razao[m]) :
          /\ razao[m][i].tipo = "CONSUMO"
          /\ razao[m][i].venda = pedido[q].v
          /\ pedido' = [pedido EXCEPT ![q].passo = "atualizar", ![q].m = m,
                                      ![q].valor = razao[m][i].valor]
    BY <1>2 DEF BuscarConsumo
  <2>1. PICK i \in 1..Len(razao[m]) :
          /\ razao[m][i].tipo = "CONSUMO"
          /\ razao[m][i].venda = pedido[q].v
          /\ pedido' = [pedido EXCEPT ![q].passo = "atualizar", ![q].m = m,
                                      ![q].valor = razao[m][i].valor]
    BY <2>0
  <2> DEFINE x == razao[m][i].valor
             r == [pedido[q] EXCEPT !.passo = "atualizar", !.m = m, !.valor = x]
  <2>2. x \in Nat /\ x \in Valores \ {0}
    <3>1. razao[m][i] \in Razao!Movimento
      BY DEF IInv, TypeOK
    <3>2. LinhasDeVenda
      BY DEF EInv
    <3> QED
      BY <2>1, <3>1, <3>2 DEF LinhasDeVenda, Razao!Movimento
  <2>3. Consumiu(razao[m], Len(razao[m]), pedido[q].v, x)
    BY <2>1 DEF Consumiu
  <2> HIDE DEF x
  <2>4. r \in Pedido /\ r.v = pedido[q].v /\ r.tipo = pedido[q].tipo
    BY <1>0, <2>2 DEF Pedido, Passos
  <2>5. PedidoDeVenda(r)
    BY <1>0, <1>2, <2>2, <2>3, DoPedido, Tipos DEF BuscarConsumo, PedidoDeVenda, Pedido
  <2>6. pedido' = [pedido EXCEPT ![q] = r] /\ UNCHANGED <<razao, venda>>
    BY <1>0, <1>2, <2>1 DEF BuscarConsumo, x
  <2> HIDE DEF r
  <2> QED
    BY <2>4, <2>5, <2>6, PassoSemLinha
<1> QED
  BY <1>1, <1>2

\* The UPDATE that locks the row keeps to the limit that was read.
LEMMA AtualizarSaldoEInv ==
    ASSUME IInv, EInv, NEW q \in Pedidos, AtualizarSaldo(q)
    PROVE  EInv'
<1> DEFINE s == Razao!ComEfeito(saldo[pedido[q].m], pedido[q].tipo, pedido[q].valor)
           r == [pedido[q] EXCEPT !.passo = "travado", !.saldoTx = s]
<1>0. pedido[q] \in Pedido /\ pedido \in [Pedidos -> Pedido]
  BY DoPedido
<1>1. /\ pedido[q].m \in Maquininhas /\ saldo[pedido[q].m] \in Int
      /\ pedido[q].tipo \in Razao!TipoMovimentoCredito
  BY DoPedido DEF AtualizarSaldo, PedidoCoerente, IInv, TypeOK
<1>2. s \in Int
  BY <1>1, DoPedido DEF Razao!ComEfeito
<1>3. pedido[q].tipo \in {"RECARGA", "AJUSTE_CREDITO"} => s <= pedido[q].teto
  BY <1>1, DoPedido DEF AtualizarSaldo, CondicaoDoUpdate, Razao!ComEfeito,
                        Razao!MovimentosPositivos
<1> HIDE DEF s
<1>4. r \in Pedido /\ r.v = pedido[q].v /\ r.tipo = pedido[q].tipo
  BY <1>0, <1>2 DEF Pedido, Passos
<1>5. PedidoDeVenda(r)
  BY <1>0, <1>3, DoPedido, Tipos DEF AtualizarSaldo, PedidoDeVenda, Pedido
<1>6. pedido' = [pedido EXCEPT ![q] = r] /\ UNCHANGED <<razao, venda>>
  BY <1>0 DEF AtualizarSaldo, s
<1> HIDE DEF r
<1> QED
  BY <1>4, <1>5, <1>6, PassoSemLinha

\* Whoever ends leaves its sale to nobody.
LEMMA VendaDeUmSoFim ==
    ASSUME IInv, EInv, NEW q \in Pedidos, Encerrar(q)
    PROVE  VendaDeUmSo'
<1>1. /\ \A p \in Pedidos : p # q => pedido'[p] = pedido[p]
      /\ pedido'[q] = Ocioso
  BY DoPedido DEF Encerrar
<1>2. \A p \in Pedidos : pedido[p].tipo = "CONSUMO" => pedido[p].v # Nulo
  BY CreditoAssumption, Tipos DEF EInv, PedidoDeVenda
<1> QED
  BY <1>1, <1>2 DEF EInv, VendaDeUmSo, Ocioso

\* What GravarVenda leaves to the requests of other sales.
LEMMA GravarVendaDosOutros ==
    ASSUME IInv, EInv, NEW q \in Pedidos, GravarVenda(q),
           pedido[q].v # Nulo => pedido[q].tipo \in Razao!TiposDeVenda
    PROVE  /\ \A v \in Vendas : v # pedido[q].v => venda'[v] = venda[v]
           /\ \A v \in Vendas : venda[v] # "nenhuma" => venda'[v] # "nenhuma"
           /\ pedido[q].tipo = "CONSUMO" => venda'[pedido[q].v] = "APROVADO"
           /\ pedido[q].tipo = "ESTORNO" => venda'[pedido[q].v] = "CANCELADO"
           /\ \A p \in Pedidos : p # q /\ pedido[p].tipo = "CONSUMO"
                => venda'[pedido[p].v] = "nenhuma"
           /\ \A p \in Pedidos : pedido[p].tipo = "ESTORNO" => venda'[pedido[p].v] # "nenhuma"
<1>1. /\ venda \in [Vendas -> {"nenhuma", "APROVADO", "CANCELADO"}]
      /\ pedido[q].v \in Vendas \cup {Nulo} /\ Nulo \notin Vendas
  BY DoPedido, CreditoAssumption DEF IInv, TypeOK, Pedido
<1>2. \A p \in Pedidos : pedido[p].tipo \in {"CONSUMO", "ESTORNO"} => pedido[p].v \in Vendas
  BY Tipos DEF EInv, PedidoDeVenda
<1>3. /\ \A v \in Vendas : v # pedido[q].v => venda'[v] = venda[v]
      /\ \A v \in Vendas : venda[v] # "nenhuma" => venda'[v] # "nenhuma"
  BY <1>1 DEF GravarVenda
<1>4. /\ pedido[q].tipo = "CONSUMO" => venda'[pedido[q].v] = "APROVADO"
      /\ pedido[q].tipo = "ESTORNO" => venda'[pedido[q].v] = "CANCELADO"
  BY <1>1, <1>2 DEF GravarVenda
<1>5. ASSUME NEW p \in Pedidos, p # q, pedido[p].tipo = "CONSUMO"
      PROVE  venda'[pedido[p].v] = "nenhuma"
  BY <1>2, <1>3, <1>5 DEF EInv, VendaDeUmSo, PedidoDeVenda
<1>6. ASSUME NEW p \in Pedidos, pedido[p].tipo = "ESTORNO"
      PROVE  venda'[pedido[p].v] # "nenhuma"
  BY <1>2, <1>3, <1>6 DEF EInv, PedidoDeVenda
<1> QED
  BY <1>3, <1>4, <1>5, <1>6

\* The commit of a sale or a cancellation that moves nothing.
LEMMA ConfirmarEInv ==
    ASSUME IInv, EInv, NEW q \in Pedidos, ConfirmarSemMovimento(q)
    PROVE  EInv'
<1> DEFINE r == pedido[q]
<1>0. /\ PedidoDeVenda(r) /\ r.tipo \in {"CONSUMO", "ESTORNO"} /\ r.v \in Vendas
      /\ r.tipo = "ESTORNO" /\ TemLinha(r.v, "CONSUMO") => TemLinha(r.v, "ESTORNO")
  BY DoPedido, Tipos DEF ConfirmarSemMovimento, PedidoDeVenda
<1>1. GravarVenda(q) /\ Encerrar(q) /\ UNCHANGED razao
  BY DEF ConfirmarSemMovimento
<1>2. /\ \A v \in Vendas : v # r.v => venda'[v] = venda[v]
      /\ \A v \in Vendas : venda[v] # "nenhuma" => venda'[v] # "nenhuma"
      /\ r.tipo = "CONSUMO" => venda'[r.v] = "APROVADO"
      /\ r.tipo = "ESTORNO" => venda'[r.v] = "CANCELADO"
      /\ \A p \in Pedidos : p # q /\ pedido[p].tipo = "CONSUMO" => venda'[pedido[p].v] = "nenhuma"
      /\ \A p \in Pedidos : pedido[p].tipo = "ESTORNO" => venda'[pedido[p].v] # "nenhuma"
  BY <1>0, <1>1, Tipos, GravarVendaDosOutros
<1>3. LinhasDeVenda' /\ LinhasUnicas' /\ razao \in [Maquininhas -> Seq(Razao!Movimento)]
  BY <1>1 DEF EInv, LinhasDeVenda, LinhasUnicas, IInv, TypeOK
<1>4. \A v \in Vendas, t \in {"CONSUMO", "ESTORNO"} : TemLinha(v, t)' <=> TemLinha(v, t)
  BY <1>1 DEF TemLinha, Razao!TemMovimento
<1>5. ASSUME NEW p \in Pedidos PROVE PedidoDeVenda(pedido[p])'
  <2>1. CASE p = q
    <3>1. pedido'[p] = Ocioso
      BY <1>1, <2>1, DoPedido DEF Encerrar
    <3> QED
      BY <3>1, CreditoAssumption, Tipos DEF PedidoDeVenda, Ocioso, Razao!TiposDeVenda
  <2>2. CASE p # q
    <3>1. pedido'[p] = pedido[p]
      BY <1>1, <2>2, DoPedido DEF Encerrar
    <3>2. pedido[p].tipo \in {"CONSUMO", "ESTORNO"} => pedido[p].v \in Vendas
      BY Tipos DEF EInv, PedidoDeVenda
    <3> DEFINE s == pedido[p]
    <3>3. /\ s \in Pedido /\ PedidoDeVenda(s)
          /\ s.passo \in {"atualizar", "travado"} => s.m \in Maquininhas
      BY DoPedido DEF PedidoCoerente
    <3>4. \A n \in Maquininhas : Len(razao[n]) \in Nat /\ razao'[n] = razao[n]
      BY <1>1, <1>3
    <3>5. PedidoDeVenda(s)'
      BY <1>2, <1>3, <1>4, <2>2, <3>1, <3>2, <3>3, <3>4, PedidoFica
    <3> QED
      BY <3>1, <3>5
  <2> QED
    BY <2>1, <2>2
<1>6. ASSUME NEW v \in Vendas PROVE VendaComLinhas(v)'
  <2>1. VendaComLinhas(v)
    BY DEF EInv
  <2>2. TemLinha(v, "ESTORNO") => TemLinha(v, "CONSUMO")
    BY <1>3, DevolveuConsumiu DEF EInv
  <2>3. r.tipo = "CONSUMO" => venda[r.v] = "nenhuma"
    BY <1>0 DEF PedidoDeVenda
  <2> QED
    BY <1>0, <1>2, <1>4, <2>1, <2>2, <2>3 DEF VendaComLinhas
<1> QED
  BY <1>1, <1>3, <1>5, <1>6, VendaDeUmSoFim DEF EInv

\* The commit of a movement: its row is the first of its type for its sale, and
\* a refund finds the consumption it mirrors in the same ledger.
LEMMA RegistrarEInv ==
    ASSUME IInv, EInv, NEW q \in Pedidos, Registrar(q)
    PROVE  EInv'
<1> DEFINE r == pedido[q]
           linha == Razao!LinhaDoRazao(r.saldoTx, r.tipo, r.valor, r.v)
<1>0. /\ r \in Pedido /\ PedidoDeVenda(r) /\ r.m \in Maquininhas
      /\ r.tipo \in Razao!TipoMovimentoCredito
      /\ r.valor \in Valores \ {0}
      /\ r.tipo = "ESTORNO" => Consumiu(razao[r.m], Len(razao[r.m]), r.v, r.valor)
      /\ r.tipo \in {"CONSUMO", "ESTORNO"} <=> r.v \in Vendas
  BY DoPedido, Tipos DEF Registrar, PedidoDeVenda, PedidoCoerente
<1>1. /\ UnicoPorVendaETipo(q) /\ GravarVenda(q) /\ Encerrar(q)
      /\ razao' = [razao EXCEPT ![r.m] = Append(@, linha)]
      /\ LinhasDeVenda /\ LinhasUnicas /\ razao \in [Maquininhas -> Seq(Razao!Movimento)]
  BY DEF Registrar, EInv, IInv, TypeOK
<1>2. linha \in Razao!Movimento
  BY <1>0 DEF Razao!LinhaDoRazao, Razao!Movimento, Pedido
<1>3. linha.tipo = r.tipo /\ linha.venda = r.v /\ linha.valor = r.valor
  BY DEF Razao!LinhaDoRazao
<1> HIDE DEF linha, r
<1>4. LinhasDeVenda' /\ LinhasUnicas'
  <2>1. r.tipo \in Razao!TiposDeVenda =>
          \A n \in Maquininhas : ~Razao!TemMovimento(n, r.v, r.tipo)
    BY <1>0, <1>1, Tipos, CreditoAssumption DEF UnicoPorVendaETipo, r
  <2> QED
    BY <1>0, <1>1, <1>2, <1>3, <2>1, Tipos, LinhasCrescem
<1>5. \A v \in Vendas, t \in {"CONSUMO", "ESTORNO"} :
        TemLinha(v, t)' <=> TemLinha(v, t) \/ (r.v = v /\ r.tipo = t)
  <2> SUFFICES ASSUME NEW v \in Vendas, NEW t \in {"CONSUMO", "ESTORNO"}
               PROVE  TemLinha(v, t)' <=> TemLinha(v, t) \/ (linha.venda = v /\ linha.tipo = t)
    BY <1>3
  <2>1. t \in Razao!TipoMovimentoCredito /\ r.m \in Maquininhas
    BY <1>0, Tipos
  <2> QED
    BY <1>1, <1>2, <2>1, TemLinhaNova
<1>6. /\ \A v \in Vendas : v # r.v => venda'[v] = venda[v]
      /\ r.tipo = "CONSUMO" => venda'[r.v] = "APROVADO"
      /\ r.tipo = "ESTORNO" => venda'[r.v] = "CANCELADO"
      /\ \A p \in Pedidos : p # q /\ pedido[p].tipo = "CONSUMO" => venda'[pedido[p].v] = "nenhuma"
      /\ \A p \in Pedidos : pedido[p].tipo = "ESTORNO" => venda'[pedido[p].v] # "nenhuma"
  <2>1. r.v # Nulo => r.tipo \in Razao!TiposDeVenda
    BY <1>0, Tipos DEF Pedido
  <2> QED
    BY <1>1, <2>1, GravarVendaDosOutros DEF r
<1>7. ASSUME NEW p \in Pedidos PROVE PedidoDeVenda(pedido[p])'
  <2>1. CASE p = q
    <3>1. pedido'[p] = Ocioso
      BY <1>1, <2>1, DoPedido DEF Encerrar
    <3> QED
      BY <3>1, CreditoAssumption, Tipos DEF PedidoDeVenda, Ocioso, Razao!TiposDeVenda
  <2>2. CASE p # q
    <3> DEFINE s == pedido[p]
    <3>1. pedido'[p] = s
      BY <1>1, <2>2, DoPedido DEF Encerrar
    <3>2. /\ s \in Pedido /\ PedidoDeVenda(s)
          /\ s.passo \in {"atualizar", "travado"} => s.m \in Maquininhas
          /\ s.tipo \in {"CONSUMO", "ESTORNO"} => s.v \in Vendas
          /\ r.tipo = "CONSUMO" => s.v # r.v
      BY <2>2, DoPedido, Tipos DEF PedidoCoerente, PedidoDeVenda, EInv, VendaDeUmSo, r
    <3>3. \A n \in Maquininhas :
            /\ Len(razao'[n]) \in Nat /\ Len(razao[n]) <= Len(razao'[n])
            /\ \A i \in 1..Len(razao[n]) : razao'[n][i] = razao[n][i]
      <4> SUFFICES ASSUME NEW n \in Maquininhas
                   PROVE  /\ Len(razao'[n]) \in Nat /\ Len(razao[n]) <= Len(razao'[n])
                          /\ \A i \in 1..Len(razao[n]) : razao'[n][i] = razao[n][i]
        OBVIOUS
      <4>1. /\ Len(razao'[r.m]) = Len(razao[r.m]) + 1 /\ Len(razao[r.m]) \in Nat
            /\ n # r.m => razao'[n] = razao[n]
            /\ Len(razao[n]) \in Nat
            /\ \A i \in 1..Len(razao[n]) : razao'[n][i] = razao[n][i]
        BY <1>0, <1>1, <1>2, LinhaNova
      <4> QED
        BY <4>1
    <3>4. PedidoDeVenda(s)'
      BY <1>1, <1>5, <1>6, <2>2, <3>1, <3>2, <3>3, PedidoFica
    <3> QED
      BY <3>1, <3>4
  <2> QED
    BY <2>1, <2>2
<1>8. ASSUME NEW v \in Vendas PROVE VendaComLinhas(v)'
  <2>1. VendaComLinhas(v)
    BY DEF EInv
  <2>2. TemLinha(v, "ESTORNO") => TemLinha(v, "CONSUMO")
    BY <1>1, DevolveuConsumiu
  <2>3. r.tipo = "CONSUMO" => venda[r.v] = "nenhuma"
    BY <1>0 DEF PedidoDeVenda
  <2>4. r.tipo = "ESTORNO" => TemLinha(r.v, "CONSUMO")
    BY <1>0 DEF Consumiu, TemLinha, Razao!TemMovimento
  <2> QED
    BY <1>0, <1>5, <1>6, <2>1, <2>2, <2>3, <2>4 DEF VendaComLinhas
<1> QED
  BY <1>1, <1>4, <1>7, <1>8, VendaDeUmSoFim DEF EInv

\* The opening recharge of a machine carries no sale.
LEMMA CriarEInv ==
    ASSUME IInv, EInv, NEW m \in Maquininhas, Criar(m)
    PROVE  EInv'
<1> DEFINE linha == Razao!LinhaDoRazao(saldo[m] + CreditoInicial, "RECARGA", CreditoInicial, Nulo)
<1>1. /\ razao' = [razao EXCEPT ![m] = Append(@, linha)] /\ UNCHANGED <<venda, pedido>>
      /\ LinhasDeVenda /\ LinhasUnicas /\ razao \in [Maquininhas -> Seq(Razao!Movimento)]
      /\ saldo[m] \in Int
  BY DEF Criar, EInv, IInv, TypeOK
<1>2. /\ linha \in Razao!Movimento
      /\ linha.tipo = "RECARGA"
  BY <1>1, CreditoAssumption DEF Razao!LinhaDoRazao, Razao!Movimento,
         Razao!TipoMovimentoCredito, Razao!MovimentosPositivos
<1> HIDE DEF linha
<1>3. LinhasDeVenda' /\ LinhasUnicas'
  BY <1>1, <1>2, Tipos, LinhasCrescem
<1>4. \A v \in Vendas, t \in {"CONSUMO", "ESTORNO"} : TemLinha(v, t)' <=> TemLinha(v, t)
  BY <1>1, <1>2, Tipos, TemLinhaNova
<1>5. ASSUME NEW p \in Pedidos PROVE PedidoDeVenda(pedido[p])'
  <2> DEFINE s == pedido[p]
  <2>1. /\ s \in Pedido /\ PedidoDeVenda(s)
        /\ s.passo \in {"atualizar", "travado"} => s.m \in Maquininhas
        /\ s.tipo = "CONSUMO" => venda[s.v] = "nenhuma"
        /\ s.tipo = "ESTORNO" => venda[s.v] # "nenhuma" /\ s.v \in Vendas
    BY DoPedido, Tipos DEF PedidoCoerente, PedidoDeVenda
  <2>2. ASSUME NEW n \in Maquininhas
        PROVE  /\ Len(razao'[n]) \in Nat /\ Len(razao[n]) <= Len(razao'[n])
               /\ \A i \in 1..Len(razao[n]) : razao'[n][i] = razao[n][i]
    <3>1. /\ Len(razao'[m]) = Len(razao[m]) + 1 /\ Len(razao[m]) \in Nat
          /\ n # m => razao'[n] = razao[n]
          /\ Len(razao[n]) \in Nat
          /\ \A i \in 1..Len(razao[n]) : razao'[n][i] = razao[n][i]
      BY <1>1, <1>2, LinhaNova
    <3> QED
      BY <3>1
  <2>3. PedidoDeVenda(s)'
    BY <1>1, <1>4, <2>1, <2>2, PedidoFica
  <2> QED
    BY <2>3
<1>6. (\A v \in Vendas : VendaComLinhas(v)') /\ VendaDeUmSo'
  BY <1>1, <1>4 DEF EInv, VendaComLinhas, VendaDeUmSo
<1> QED
  BY <1>3, <1>5, <1>6 DEF EInv

\* Every step, of whatever requests, keeps the sales and their rows together.
LEMMA NextEInv == IInv /\ EInv /\ [Next]_vars => EInv'
<1> SUFFICES ASSUME IInv, EInv, [Next]_vars PROVE EInv'
  OBVIOUS
<1>1. ASSUME UNCHANGED <<razao, venda, pedido>> PROVE EInv'
  BY <1>1 DEF EInv, LinhasDeVenda, LinhasUnicas, PedidoDeVenda, VendaDeUmSo, VendaComLinhas,
              TemLinha, Razao!TemMovimento
<1>2. ASSUME NEW m \in Maquininhas, Criar(m) PROVE EInv'
  BY <1>2, CriarEInv
<1>3. ASSUME NEW m \in Maquininhas, NEW l \in Limites, AtualizarLimite(m, l) PROVE EInv'
  BY <1>1, <1>3 DEF AtualizarLimite
<1>4. ASSUME NEW p \in Pedidos, Iniciar(p) \/ Avancar(p) \/ Reverter(p) PROVE EInv'
  <2>1. CASE Iniciar(p) \/ LerLimite(p)
    BY <2>1, ChegadaEInv
  <2>2. CASE DispensarDebito(p) \/ DispensarEstorno(p) \/ BuscarConsumo(p)
    BY <2>2, BuscaEInv
  <2>3. CASE AtualizarSaldo(p)
    BY <2>3, AtualizarSaldoEInv
  <2>4. CASE Registrar(p)
    BY <2>4, RegistrarEInv
  <2>5. CASE ConfirmarSemMovimento(p)
    BY <2>5, ConfirmarEInv
  <2>6. CASE RecusarSemLimite(p) \/ RecusarPorSaldo(p) \/ RecusarDuplicado(p) \/ Excluir(p)
             \/ Reverter(p)
    <3>1. Encerrar(p) /\ UNCHANGED <<razao, venda>>
      BY <2>6 DEF RecusarSemLimite, RecusarPorSaldo, RecusarDuplicado, Excluir, Reverter
    <3> QED
      BY <3>1, FimSemLinha
  <2> QED
    BY <1>4, <2>1, <2>2, <2>3, <2>4, <2>5, <2>6 DEF Avancar
<1> QED
  BY <1>1, <1>2, <1>3, <1>4 DEF Next, vars

-----------------------------------------------------------------------------
\* Sales, requests and ledgers stay coherent in every behaviour.
THEOREM Coerencia == Spec => [](IInv /\ EInv)
<1>1. Init => EInv
  BY InitEInv
<1>2. IInv /\ EInv /\ [Next]_vars => EInv'
  BY NextEInv
<1> QED
  BY <1>1, <1>2, Invariante, PTL DEF Spec

\* The credit a sale consumed is given back once at most, to the machine that
\* paid it, by what it paid.
THEOREM EstornoSempreEspelha == Spec => []EstornoEspelhaConsumo
<1>1. ASSUME EInv PROVE EstornoEspelhaConsumo
  <2> SUFFICES ASSUME NEW m \in Maquininhas, NEW i \in 1..Len(razao[m]),
                      razao[m][i].tipo = "ESTORNO"
               PROVE  /\ \E j \in 1..(i - 1) :
                           /\ razao[m][j].tipo = "CONSUMO"
                           /\ razao[m][j].venda = razao[m][i].venda
                           /\ razao[m][j].valor = razao[m][i].valor
                      /\ \A n \in Maquininhas : \A k \in 1..Len(razao[n]) :
                           razao[n][k].tipo = "ESTORNO" /\ razao[n][k].venda = razao[m][i].venda
                             => n = m /\ k = i
    BY DEF EstornoEspelhaConsumo
  <2>1. Consumiu(razao[m], i - 1, razao[m][i].venda, razao[m][i].valor)
    BY <1>1 DEF EInv, LinhasDeVenda
  <2>2. ASSUME NEW n \in Maquininhas, NEW k \in 1..Len(razao[n]),
               razao[n][k].tipo = "ESTORNO", razao[n][k].venda = razao[m][i].venda
        PROVE  n = m /\ k = i
    BY <1>1, <2>2, Tipos DEF EInv, LinhasUnicas
  <2> QED
    BY <2>1, <2>2 DEF Consumiu
<1> QED
  BY <1>1, Coerencia, PTL

\* An approved sale keeps its consumption, a cancelled one has given back what
\* it consumed, and one that was never committed left nothing.
THEOREM VendaERazaoSempreJuntos == Spec => []VendaERazaoAndamJuntos
<1>1. EInv => VendaERazaoAndamJuntos
  BY DEF EInv, VendaComLinhas, TemLinha, VendaERazaoAndamJuntos
<1> QED
  BY <1>1, Coerencia, PTL

\* Only the refund of a cancelled sale leaves more than the maximum.
THEOREM SoEstornoPassa == Spec => SoEstornoPassaDoMaximo
<1>1. ASSUME IInv, EInv, [Next]_vars, NEW m \in Maquininhas,
             saldo'[m] > saldo[m], saldo'[m] > LimiteMaximo
      PROVE  razao'[m][Len(razao'[m])].tipo = "ESTORNO"
  <2>0. saldo \in [Maquininhas -> Int] /\ razao \in [Maquininhas -> Seq(Razao!Movimento)]
    BY <1>1 DEF IInv, TypeOK
  <2>1. CASE UNCHANGED saldo
    BY <1>1, <2>0, <2>1
  <2>2. ASSUME NEW n \in Maquininhas, Criar(n) PROVE FALSE
    <3>1. razao[n] = <<>>
      BY <1>1, <2>2 DEF Criar, IInv, SoCadastradaTemRazao
    <3>2. saldo[n] = 0
      BY <1>1, <3>1 DEF IInv, Cadeia
    <3> QED
      BY <1>1, <2>0, <2>2, <3>2, CreditoAssumption DEF Criar
  <2>3. ASSUME NEW q \in Pedidos, Registrar(q)
        PROVE  razao'[m][Len(razao'[m])].tipo = "ESTORNO"
    <3> DEFINE r == pedido[q]
               linha == Razao!LinhaDoRazao(r.saldoTx, r.tipo, r.valor, r.v)
    <3>1. /\ r \in Pedido /\ PedidoDeVenda(r) /\ r.passo = "travado" /\ r.m \in Maquininhas
          /\ r.tipo \in Razao!TipoMovimentoCredito /\ r.valor \in Nat
          /\ r.saldoTx = Razao!ComEfeito(saldo[r.m], r.tipo, r.valor)
      BY <1>1, <2>3, DoPedido DEF Registrar, PedidoCoerente
    <3>2. /\ saldo' = [saldo EXCEPT ![r.m] = r.saldoTx]
          /\ razao' = [razao EXCEPT ![r.m] = Append(@, linha)]
      BY <2>3 DEF Registrar
    <3>3. m = r.m
      BY <1>1, <2>0, <3>1, <3>2
    <3>4. r.saldoTx > saldo[m] /\ r.saldoTx > LimiteMaximo
      BY <1>1, <2>0, <3>2, <3>3
    <3>5. r.tipo = "ESTORNO"
      <4>1. r.tipo \in {"RECARGA", "AJUSTE_CREDITO", "ESTORNO"}
        BY <2>0, <3>1, <3>3, <3>4 DEF Razao!ComEfeito, Razao!MovimentosPositivos,
               Razao!MovimentosNegativos, Razao!TipoMovimentoCredito
      <4>2. r.tipo \in {"RECARGA", "AJUSTE_CREDITO"} => r.saldoTx <= r.teto /\ r.teto <= LimiteMaximo
        BY <3>1 DEF PedidoDeVenda
      <4>3. r.saldoTx \in Int /\ r.teto \in Nat /\ LimiteMaximo \in Nat
        BY <3>1, CreditoAssumption DEF Pedido
      <4> QED
        BY <3>4, <4>1, <4>2, <4>3
    <3>6. linha \in Razao!Movimento /\ linha.tipo = r.tipo
      BY <3>1 DEF Razao!LinhaDoRazao, Razao!Movimento, Pedido
    <3>7. razao'[m] = Append(razao[m], linha) /\ razao[m] \in Seq(Razao!Movimento)
      BY <2>0, <3>2, <3>3
    <3> HIDE DEF linha
    <3>8. razao'[m][Len(razao'[m])] = linha
      BY <3>6, <3>7
    <3> QED
      BY <3>5, <3>6, <3>8
  <2>4. UNCHANGED saldo \/ (\E n \in Maquininhas : Criar(n)) \/ (\E q \in Pedidos : Registrar(q))
    BY <1>1 DEF Next, vars, Iniciar, Avancar, IniciarVenda, IniciarLancamento,
           IniciarCancelamento, LerParaExcluir, LerLimite, RecusarSemLimite, DispensarDebito,
           BuscarConsumo, DispensarEstorno, AtualizarSaldo, RecusarPorSaldo, RecusarDuplicado,
           ConfirmarSemMovimento, Excluir, Reverter, AtualizarLimite
  <2> QED
    BY <2>1, <2>2, <2>3, <2>4
<1>2. IInv /\ EInv /\ [Next]_vars =>
        [\A m \in Maquininhas :
           saldo'[m] > saldo[m] /\ saldo'[m] > LimiteMaximo
             => razao'[m][Len(razao'[m])].tipo = "ESTORNO"]_vars
  BY <1>1
<1> QED
  BY <1>2, Coerencia, PTL DEF Spec, SoEstornoPassaDoMaximo

\* A commit appends one movement, as the ledger allows.
LEMMA RegistrarMovimenta ==
    ASSUME IInv, EInv, NEW q \in Pedidos, Registrar(q)
    PROVE  Razao!Next
<1> DEFINE r == pedido[q]
<1>1. /\ r \in Pedido /\ PedidoDeVenda(r) /\ r.m \in Maquininhas
      /\ r.tipo \in Razao!TipoMovimentoCredito
      /\ r.valor \in Valores \ {0} /\ r.v \in Vendas \cup {Nulo}
      /\ r.saldoTx = Razao!ComEfeito(saldo[r.m], r.tipo, r.valor) /\ r.saldoTx >= 0
      /\ r.tipo = "ESTORNO" => Consumiu(razao[r.m], Len(razao[r.m]), r.v, r.valor)
  BY DoPedido DEF Registrar, PedidoDeVenda, PedidoCoerente, Pedido
<1>2. /\ UnicoPorVendaETipo(q)
      /\ saldo' = [saldo EXCEPT ![r.m] = r.saldoTx]
      /\ razao' = [razao EXCEPT ![r.m] =
            Append(@, Razao!LinhaDoRazao(r.saldoTx, r.tipo, r.valor, r.v))]
  BY DEF Registrar
<1>3. IF r.tipo \in Razao!TiposDeVenda THEN r.v \in Vendas ELSE r.v = Nulo
  BY <1>1 DEF PedidoDeVenda
<1>4. r.tipo \in Razao!TiposDeVenda =>
        \A n \in Maquininhas : ~Razao!TemMovimento(n, r.v, r.tipo)
  BY <1>2, <1>3, CreditoAssumption DEF UnicoPorVendaETipo
<1>5. saldo' = [saldo EXCEPT ![r.m] = Razao!ComEfeito(@, r.tipo, r.valor)]
  BY <1>1, <1>2
<1> HIDE DEF r
<1>6. Razao!Movimentar(r.m, r.tipo, r.valor, r.v)
  BY <1>1, <1>2, <1>3, <1>4, <1>5 DEF Razao!Movimentar, Consumiu
<1> QED
  BY <1>1, <1>6 DEF Razao!Next, Valores

\* A machine is registered by the ledger's first movement.
LEMMA CriarMovimenta ==
    ASSUME IInv, NEW m \in Maquininhas, Criar(m)
    PROVE  Razao!Next
<1>1. "RECARGA" \in Razao!TipoMovimentoCredito /\ "RECARGA" \notin Razao!TiposDeVenda
  BY DEF Razao!TipoMovimentoCredito, Razao!MovimentosPositivos, Razao!TiposDeVenda
<1>2. /\ saldo[m] \in Int /\ saldo[m] >= 0 /\ CreditoInicial \in Valores \ {0}
      /\ Razao!ComEfeito(saldo[m], "RECARGA", CreditoInicial) = saldo[m] + CreditoInicial
      /\ CreditoInicial \in Nat
  BY CreditoAssumption DEF IInv, TypeOK, SaldoNuncaNegativo, Valores, Razao!ComEfeito,
                           Razao!MovimentosPositivos
<1>3. Razao!ComEfeito(saldo[m], "RECARGA", CreditoInicial) >= 0
  BY <1>2
<1>4. /\ saldo' = [saldo EXCEPT ![m] = Razao!ComEfeito(@, "RECARGA", CreditoInicial)]
      /\ razao' = [razao EXCEPT ![m] = Append(@, Razao!LinhaDoRazao(
              Razao!ComEfeito(saldo[m], "RECARGA", CreditoInicial), "RECARGA", CreditoInicial, Nulo))]
  BY <1>2 DEF Criar
<1>5. Razao!Movimentar(m, "RECARGA", CreditoInicial, Nulo)
  BY <1>1, <1>3, <1>4 DEF Razao!Movimentar
<1> QED
  BY <1>1, <1>2, <1>5 DEF Razao!Next, Valores

\* The transactions implement the ledger: every step of theirs is one movement,
\* of whatever machine and request, or none.
THEOREM TransacoesImplementamRazao == Spec => ImplementaRazao
<1>1. Init => Razao!Init
  BY DEF Init, Razao!Init
<1>2. IInv /\ EInv /\ [Next]_vars => [Razao!Next]_<<saldo, razao>>
  <2> SUFFICES ASSUME IInv, EInv, [Next]_vars PROVE [Razao!Next]_<<saldo, razao>>
    OBVIOUS
  <2>1. ASSUME NEW q \in Pedidos, Registrar(q) PROVE Razao!Next
    BY <2>1, RegistrarMovimenta
  <2>2. ASSUME NEW m \in Maquininhas, Criar(m) PROVE Razao!Next
    BY <2>2, CriarMovimenta
  <2>3. \/ UNCHANGED <<saldo, razao>>
        \/ \E m \in Maquininhas : Criar(m)
        \/ \E q \in Pedidos : Registrar(q)
    BY DEF Next, vars, Iniciar, Avancar, IniciarVenda, IniciarLancamento,
           IniciarCancelamento, LerParaExcluir, LerLimite, RecusarSemLimite, DispensarDebito,
           BuscarConsumo, DispensarEstorno, AtualizarSaldo, RecusarPorSaldo, RecusarDuplicado,
           ConfirmarSemMovimento, Excluir, Reverter, AtualizarLimite
  <2> QED
    BY <2>1, <2>2, <2>3
<1> QED
  BY <1>1, <1>2, Coerencia, PTL DEF Spec, ImplementaRazao, Razao!Spec, Razao!razaoVars

\* The credit goes where the sale goes, whatever requests race on it (CreditoSegueVenda).
THEOREM CreditoSempreSegueVenda == Spec => []CreditoSegueVenda
BY EstornoSempreEspelha, VendaERazaoSempreJuntos, PTL DEF CreditoSegueVenda

\* The transactions implement the ledger, and only refunds pass the maximum (RazaoComTeto).
THEOREM RazaoSempreComTeto == Spec => RazaoComTeto
BY TransacoesImplementamRazao, SoEstornoPassa DEF RazaoComTeto
=============================================================================
