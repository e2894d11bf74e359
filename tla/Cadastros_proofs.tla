--------------------------- MODULE Cadastros_proofs ---------------------------
(***************************************************************************)
(* The registrations, for any networks, sellers, requests and links: the   *)
(* two logins never disagree, only the approved operate, a refused one     *)
(* leaves the queue for good and an excluded one does not come back.  And  *)
(* beside them (Redes) the link of a customer, the credit of a purchase,   *)
(* the image of a seller's link, its card machines and the pages of their  *)
(* history.                                                                *)
(***************************************************************************)
EXTENDS Redes, Sequences, SequenceTheorems, FiniteSetTheorems, WellFoundedInduction, TLAPS

ops == {"nenhuma", "cadastrar", "gravar", "excluir", "restaurar"}

Linha == [usuario : Status, status : Status, rede : Distribuidores \cup {Nulo},
          excluido : BOOLEAN, saldo : BOOLEAN, aprovado : BOOLEAN, rejeitado : BOOLEAN]
Requisicao == [op : ops, alvo : Pessoas \cup {Nulo}, rede : Distribuidores \cup {Nulo},
               st : Status, carimbo : {"nenhum", "aprova", "recusa"}]

\* A row by itself: l is the row of x; the refused and the run over are those of now.
LinhaServe(x, l, recusadosAgora, atropeladosAgora) ==
    /\ l.usuario = l.status
    /\ l.rede # Nulo <=> (x \in Vendedores /\ l.status # "nenhum")
    /\ l.status = "ATIVO" => l.aprovado
    /\ x \in Distribuidores /\ l.status # "nenhum" => l.aprovado
    /\ l.excluido => l.status = "INATIVO" \/ x \in atropeladosAgora
    /\ l.excluido => l.status # "nenhum"
    /\ l.status = "nenhum" => ~l.aprovado /\ ~l.rejeitado
    /\ x \in recusadosAgora => l.aprovado \/ l.rejeitado

LinhasServem == \A x \in Pessoas : LinhaServe(x, linha[x], recusados, atropelado)

\* The network of a seller is registered.
RedesExistem == \A x \in Pessoas : linha[x].rede # Nulo => Existe(linha[x].rede)
\* What a request carries into its transaction, against rows that only advance: an
\* activation is stamped unless the row has been approved, a deactivation unless it has
\* been approved or refused.
PedidoServe(q) ==
    /\ q.op # "nenhuma" => q.alvo \in Pessoas
    /\ q.rede # Nulo => q.alvo \in Vendedores /\ Existe(q.rede)
    /\ q.op = "cadastrar" => /\ q.alvo \in Vendedores => q.rede # Nulo
                             /\ q.st = "INATIVO" => q.alvo \in Vendedores
                             /\ q.st # "nenhum"
    /\ q.op \in {"gravar", "excluir", "restaurar"} => Existe(q.alvo)
    /\ q.op = "gravar" => /\ q.st = "ATIVO" => q.carimbo = "aprova" \/ linha[q.alvo].aprovado
                          /\ q.st = "INATIVO" => \/ q.carimbo # "nenhum"
                                                 \/ linha[q.alvo].aprovado
                                                 \/ linha[q.alvo].rejeitado

Tipado ==
    /\ linha \in [Pessoas -> Linha]
    /\ token \in [Distribuidores -> 0..MaxTokens]
    /\ frota \subseteq Distribuidores
    /\ sessao \subseteq Pessoas
    /\ pedido \in [Pedidos -> Requisicao]
    /\ recusados \subseteq Pessoas /\ atropelado \subseteq Pessoas

IInv ==
    /\ Tipado
    /\ LinhasServem
    /\ RedesExistem
    /\ \A r \in Pedidos : PedidoServe(pedido[r])

LEMMA TiposDeIInv ==
    ASSUME IInv
    PROVE  /\ TypeOK /\ StatusAndamJuntos
           /\ OperaSoAprovado /\ RecusadoForaDaFila /\ ExcluidoNaoOpera
<1> USE CadastrosAssumption DEF IInv, Tipado, LinhasServem, LinhaServe, Linha, Requisicao, ops,
        Existe, Pessoas, Status
<1>1. TypeOK
  BY DEF TypeOK
<1>2. StatusAndamJuntos
  BY DEF StatusAndamJuntos
<1>3. OperaSoAprovado
  <2> SUFFICES ASSUME NEW v \in Vendedores, Opera(v)
               PROVE  linha[v].aprovado /\ linha[linha[v].rede].status = "ATIVO"
    BY DEF OperaSoAprovado
  <2>1. linha[v].status = "ATIVO" /\ linha[v].aprovado /\ linha[v].rede # Nulo
    BY DEF Opera, Passa
  <2>2. linha[v].rede \in Distribuidores
    BY <2>1
  <2>3. linha[linha[v].rede].status \in Status \ {"nenhum", "INATIVO"}
    BY <2>1, <2>2 DEF RedesExistem, Opera, Passa
  <2> QED
    BY <2>1, <2>3
<1>4. RecusadoForaDaFila
  <2> SUFFICES ASSUME NEW v \in recusados, Pendente(v)
               PROVE  FALSE
    BY DEF RecusadoForaDaFila
  <2> QED
    BY DEF Pendente
<1>5. ExcluidoNaoOpera
  BY DEF ExcluidoNaoOpera, Opera, Passa
<1> QED
  BY <1>1, <1>2, <1>3, <1>4, <1>5

LEMMA InitIInv == Init => IInv
<1> SUFFICES ASSUME Init PROVE IInv
  OBVIOUS
<1>1. Vazia \in Linha /\ Vazia.status = "nenhum" /\ Vazia.usuario = "nenhum"
      /\ Vazia.rede = Nulo /\ ~Vazia.excluido
      /\ ~Vazia.aprovado /\ ~Vazia.rejeitado
  BY DEF Vazia, Novo, Linha, Status
<1>2. Livre \in Requisicao /\ Livre.op = "nenhuma" /\ Livre.rede = Nulo
  BY DEF Livre, Requisicao, ops, Status
<1>3. Tipado
  BY <1>1, <1>2, CadastrosAssumption DEF Init, Tipado
<1>4. LinhasServem /\ RedesExistem
  BY <1>1 DEF Init, LinhasServem, LinhaServe, RedesExistem
<1>5. \A r \in Pedidos : PedidoServe(pedido[r])
  BY <1>2 DEF Init, PedidoServe
<1> QED
  BY <1>3, <1>4, <1>5 DEF IInv

\* A handler that only reads leaves a request that serves.
LEMMA ComecarIInv ==
    ASSUME IInv, NEW r \in Pedidos, NEW q \in Requisicao, PedidoServe(q),
           pedido' = [pedido EXCEPT ![r] = q],
           UNCHANGED <<linha, token, frota, sessao, recusados, atropelado>>
    PROVE  IInv'
<1>1. Tipado'
  BY DEF IInv, Tipado
<1>2. LinhasServem' /\ RedesExistem'
  BY DEF IInv, LinhasServem, LinhaServe, RedesExistem, Existe
<1>3. ASSUME NEW s \in Pedidos PROVE PedidoServe(pedido[s])'
  <2>1. PedidoServe(pedido'[s])
    BY DEF IInv, Tipado
  <2> QED
    BY <2>1 DEF PedidoServe, Existe
<1> QED
  BY <1>1, <1>2, <1>3 DEF IInv

\* What the step of one row may do to it.
Avanca(velha, nova) ==
    /\ velha.status # "nenhum" => nova.status # "nenhum"
    /\ velha.aprovado => nova.aprovado
    /\ velha.rejeitado => nova.aprovado \/ nova.rejeitado

\* A transaction that writes one row, which advances, and ends its request or none.
LEMMA LinhaIInv ==
    ASSUME IInv, NEW x \in Pessoas, NEW l \in Linha,
           linha' = [linha EXCEPT ![x] = l], Avanca(linha[x], l),
           l.rede # Nulo => Existe(l.rede),
           LinhaServe(x, l, recusados', atropelado'),
           recusados' \in {recusados, recusados \cup {x}},
           atropelado' \in {atropelado, atropelado \cup {x}},
           \A r \in Pedidos : pedido'[r] \in {pedido[r], Livre},
           pedido' \in [Pedidos -> Requisicao],
           UNCHANGED <<token, frota, sessao>>
    PROVE  IInv'
<1>1. Tipado'
  BY DEF IInv, Tipado
<1>2. \A y \in Pessoas : linha'[y] = IF y = x THEN l ELSE linha[y]
  BY DEF IInv, Tipado
<1>3. \A y \in Pessoas : Avanca(linha[y], linha'[y])
  BY <1>2 DEF Avanca
<1>4. LinhasServem'
  BY <1>2 DEF IInv, LinhasServem, LinhaServe
<1>5. \A y \in Distribuidores : Existe(y) => Existe(y)'
  BY <1>3 DEF Avanca, Existe, Pessoas
<1>6. RedesExistem'
  <2> SUFFICES ASSUME NEW y \in Pessoas, linha'[y].rede # Nulo
               PROVE  Existe(linha[y].rede)'
    BY DEF RedesExistem
  <2>1. linha'[y].rede \in Distribuidores /\ Existe(linha'[y].rede)
    BY <1>1, <1>2 DEF IInv, RedesExistem, Tipado, Linha
  <2>2. linha'[linha'[y].rede].status # "nenhum"
    BY <2>1, <1>5 DEF Existe
  <2> QED
    BY <2>2 DEF Existe
<1>7. ASSUME NEW r \in Pedidos PROVE PedidoServe(pedido[r])'
  <2>1. CASE pedido'[r] = Livre
    BY <2>1 DEF PedidoServe, Livre
  <2>2. CASE pedido'[r] = pedido[r]
    <3> DEFINE q == pedido[r]
    <3>1. PedidoServe(q) /\ q \in Requisicao
      BY DEF IInv, Tipado
    <3>2. q.rede # Nulo => q.rede \in Distribuidores /\ linha'[q.rede].status # "nenhum"
      BY <3>1, <1>5 DEF PedidoServe, Requisicao, Existe
    <3>3. q.op # "nenhuma" => q.alvo \in Pessoas /\ Avanca(linha[q.alvo], linha'[q.alvo])
      BY <3>1, <1>3 DEF PedidoServe
    <3>4. /\ q.op # "nenhuma" => q.alvo \in Pessoas
          /\ q.rede # Nulo => q.alvo \in Vendedores /\ linha'[q.rede].status # "nenhum"
          /\ q.op = "cadastrar" => /\ q.alvo \in Vendedores => q.rede # Nulo
                                   /\ q.st = "INATIVO" => q.alvo \in Vendedores
                                   /\ q.st # "nenhum"
      BY <3>1, <3>2, <3>3 DEF PedidoServe, Existe
    <3>5. /\ q.op \in {"gravar", "excluir", "restaurar"} => linha'[q.alvo].status # "nenhum"
          /\ q.op = "gravar" => /\ q.st = "ATIVO" => q.carimbo = "aprova" \/ linha'[q.alvo].aprovado
                                /\ q.st = "INATIVO" => \/ q.carimbo # "nenhum"
                                                       \/ linha'[q.alvo].aprovado
                                                       \/ linha'[q.alvo].rejeitado
      BY <3>1, <3>3 DEF PedidoServe, Existe, Avanca
    <3> QED
      BY <2>2, <3>4, <3>5 DEF PedidoServe, Existe
  <2> QED
    BY <2>1, <2>2
<1> QED
  BY <1>1, <1>4, <1>6, <1>7 DEF IInv

\* The reads of the handlers, each with what it hands to its transaction.
LEMMA LeituraIInv ==
    ASSUME IInv, NEW r \in Pedidos, NEW op \in ops, NEW x \in Pessoas,
           NEW rede \in Distribuidores \cup {Nulo}, NEW st \in Status,
           NEW carimbo \in {"nenhum", "aprova", "recusa"},
           Comecar(r, op, x, rede, st, carimbo),
           PedidoServe([op |-> op, alvo |-> x, rede |-> rede, st |-> st, carimbo |-> carimbo])
    PROVE  IInv'
<1> DEFINE q == [op |-> op, alvo |-> x, rede |-> rede, st |-> st, carimbo |-> carimbo]
<1>1. q \in Requisicao
  BY DEF Requisicao
<1>2. pedido' = [pedido EXCEPT ![r] = q] /\ PedidoServe(q)
      /\ UNCHANGED <<linha, token, frota, sessao, recusados, atropelado>>
  BY DEF Comecar
<1> HIDE DEF q
<1> QED
  BY <1>1, <1>2, ComecarIInv

\* The stamp of a PATCH says what the row that was read did not.
LEMMA Carimbo ==
    ASSUME IInv, NEW x \in Pessoas, Existe(x), NEW st \in Status
    PROVE  /\ CarimboDoStatus(x, st) \in {"nenhum", "aprova", "recusa"}
           /\ st = "ATIVO" => CarimboDoStatus(x, st) = "aprova" \/ linha[x].aprovado
           /\ st = "INATIVO" => \/ CarimboDoStatus(x, st) # "nenhum"
                                \/ linha[x].aprovado \/ linha[x].rejeitado
BY DEF CarimboDoStatus

LEMMA CadastrarIInv ==
    ASSUME IInv, NEW r \in Pedidos
    PROVE  /\ \A d \in Distribuidores : CriarDistribuidor(r, d) => IInv'
           /\ \A ator : \A v \in Vendedores, d \in Distribuidores : CriarVendedor(r, ator, v, d) => IInv'
           /\ \A v \in Vendedores, d \in Distribuidores, t \in 0..MaxTokens :
                  AutoCadastrar(r, v, d, t) => IInv'
<1> USE DEF ops, Status, Pessoas
<1>1. ASSUME NEW d \in Distribuidores, CriarDistribuidor(r, d) PROVE IInv'
  <2>1. Comecar(r, "cadastrar", d, Nulo, "ATIVO", "nenhum")
    BY <1>1 DEF CriarDistribuidor
  <2>2. PedidoServe([op |-> "cadastrar", alvo |-> d, rede |-> Nulo, st |-> "ATIVO", carimbo |-> "nenhum"])
    BY CadastrosAssumption DEF PedidoServe
  <2> QED
    BY <2>1, <2>2, LeituraIInv
<1>2. ASSUME NEW ator, NEW v \in Vendedores, NEW d \in Distribuidores, CriarVendedor(r, ator, v, d)
      PROVE  IInv'
  <2>1. Comecar(r, "cadastrar", v, d, "ATIVO", "nenhum") /\ Existe(d)
    BY <1>2 DEF CriarVendedor
  <2>2. PedidoServe([op |-> "cadastrar", alvo |-> v, rede |-> d, st |-> "ATIVO", carimbo |-> "nenhum"])
    BY <2>1, CadastrosAssumption DEF PedidoServe
  <2> QED
    BY <2>1, <2>2, LeituraIInv
<1>3. ASSUME NEW v \in Vendedores, NEW d \in Distribuidores, NEW t \in 0..MaxTokens,
             AutoCadastrar(r, v, d, t)
      PROVE  IInv'
  <2>1. Comecar(r, "cadastrar", v, d, "INATIVO", "nenhum") /\ Existe(d)
    BY <1>3 DEF AutoCadastrar, Existe
  <2>2. PedidoServe([op |-> "cadastrar", alvo |-> v, rede |-> d, st |-> "INATIVO", carimbo |-> "nenhum"])
    BY <2>1, CadastrosAssumption DEF PedidoServe
  <2> QED
    BY <2>1, <2>2, LeituraIInv
<1> QED
  BY <1>1, <1>2, <1>3

LEMMA MudarIInv ==
    ASSUME IInv, NEW r \in Pedidos
    PROVE  /\ \A ator : \A v \in Vendedores : Aprovar(r, ator, v) => IInv'
           /\ \A ator : \A x \in Pessoas : Remover(r, ator, x) => IInv'
           /\ \A d \in Distribuidores, st \in Status : AtualizarDistribuidor(r, d, st) => IInv'
           /\ \A ator : \A v \in Vendedores, st \in Status, rede \in Distribuidores \cup {Nulo} :
                  AtualizarVendedor(r, ator, v, st, rede) => IInv'
<1> USE DEF ops, Status, Pessoas
<1>1. ASSUME NEW ator, NEW v \in Vendedores, Aprovar(r, ator, v) PROVE IInv'
  <2>1. Comecar(r, "gravar", v, Nulo, "ATIVO", "aprova") /\ Existe(v)
    BY <1>1 DEF Aprovar, Alcanca
  <2>2. PedidoServe([op |-> "gravar", alvo |-> v, rede |-> Nulo, st |-> "ATIVO", carimbo |-> "aprova"])
    BY <2>1 DEF PedidoServe
  <2> QED
    BY <2>1, <2>2, LeituraIInv
<1>2. ASSUME NEW ator, NEW x \in Pessoas, Remover(r, ator, x) PROVE IInv'
  <2> DEFINE c == CarimboDoStatus(x, "INATIVO")
  <2>1. Comecar(r, "gravar", x, Nulo, "INATIVO", c) /\ Existe(x)
    BY <1>2 DEF Remover, Alcanca
  <2>2. c \in {"nenhum", "aprova", "recusa"}
        /\ (c # "nenhum" \/ linha[x].aprovado \/ linha[x].rejeitado)
    BY <2>1, Carimbo
  <2> HIDE DEF c
  <2>3. PedidoServe([op |-> "gravar", alvo |-> x, rede |-> Nulo, st |-> "INATIVO", carimbo |-> c])
    BY <2>1, <2>2 DEF PedidoServe
  <2> QED
    BY <2>1, <2>2, <2>3, LeituraIInv
<1>3. ASSUME NEW d \in Distribuidores, NEW st \in Status, AtualizarDistribuidor(r, d, st)
      PROVE  IInv'
  <2>1. Comecar(r, "gravar", d, Nulo, st, "nenhum") /\ Existe(d)
    BY <1>3 DEF AtualizarDistribuidor, Alcanca
  <2>2. linha[d].aprovado
    BY <2>1 DEF IInv, LinhasServem, LinhaServe, Existe
  <2>3. PedidoServe([op |-> "gravar", alvo |-> d, rede |-> Nulo, st |-> st, carimbo |-> "nenhum"])
    BY <2>1, <2>2 DEF PedidoServe
  <2> QED
    BY <2>1, <2>3, LeituraIInv
<1>4. ASSUME NEW ator, NEW v \in Vendedores, NEW st \in Status,
             NEW rede \in Distribuidores \cup {Nulo}, AtualizarVendedor(r, ator, v, st, rede)
      PROVE  IInv'
  <2> DEFINE c == CarimboDoStatus(v, st)
  <2>1. Comecar(r, "gravar", v, rede, st, c) /\ Existe(v) /\ (rede # Nulo => Existe(rede))
    BY <1>4 DEF AtualizarVendedor, Alcanca
  <2>2. /\ c \in {"nenhum", "aprova", "recusa"}
        /\ st = "ATIVO" => c = "aprova" \/ linha[v].aprovado
        /\ st = "INATIVO" => c # "nenhum" \/ linha[v].aprovado \/ linha[v].rejeitado
    BY <2>1, Carimbo
  <2> HIDE DEF c
  <2>3. PedidoServe([op |-> "gravar", alvo |-> v, rede |-> rede, st |-> st, carimbo |-> c])
    BY <2>1, <2>2 DEF PedidoServe
  <2> QED
    BY <2>1, <2>2, <2>3, LeituraIInv
<1> QED
  BY <1>1, <1>2, <1>3, <1>4

LEMMA EsconderIInv ==
    ASSUME IInv, NEW r \in Pedidos
    PROVE  /\ \A v \in Vendedores : ExcluirVendedor(r, v) \/ RestaurarVendedor(r, v) => IInv'
           /\ \A d \in Distribuidores :
                  ExcluirDistribuidor(r, d) \/ RestaurarDistribuidor(r, d) => IInv'
<1> USE DEF ops, Status
<1>1. ASSUME NEW x \in Pessoas, Existe(x), Comecar(r, "excluir", x, Nulo, "INATIVO", "nenhum")
      PROVE  IInv'
  <2>1. PedidoServe([op |-> "excluir", alvo |-> x, rede |-> Nulo, st |-> "INATIVO", carimbo |-> "nenhum"])
    BY <1>1 DEF PedidoServe
  <2> QED
    BY <1>1, <2>1, LeituraIInv
<1>2. ASSUME NEW x \in Pessoas, linha[x].excluido,
             Comecar(r, "restaurar", x, Nulo, "nenhum", "nenhum")
      PROVE  IInv'
  <2>1. Existe(x)
    BY <1>2 DEF IInv, LinhasServem, LinhaServe, Existe
  <2>2. PedidoServe([op |-> "restaurar", alvo |-> x, rede |-> Nulo, st |-> "nenhum", carimbo |-> "nenhum"])
    BY <2>1 DEF PedidoServe
  <2> QED
    BY <1>2, <2>2, LeituraIInv
<1> QED
  BY <1>1, <1>2 DEF ExcluirVendedor, RestaurarVendedor, ExcluirDistribuidor,
     RestaurarDistribuidor, Alcanca, Pessoas

\* A transaction ends its request and no other.
LEMMA Terminou ==
    ASSUME IInv, NEW r \in Pedidos, Terminar(r)
    PROVE  /\ pedido' \in [Pedidos -> Requisicao]
           /\ \A s \in Pedidos : pedido'[s] \in {pedido[s], Livre}
<1>1. Livre \in Requisicao
  BY DEF Livre, Requisicao, ops, Status
<1> QED
  BY <1>1 DEF IInv, Tipado, Terminar

LEMMA GravarCadastroIInv ==
    ASSUME IInv, NEW r \in Pedidos, GravarCadastro(r)
    PROVE  IInv'
<1> DEFINE q == pedido[r]
           x == q.alvo
           l == IF Existe(x) THEN linha[x] ELSE Novo(q.rede, q.st)
<1>1. q \in Requisicao /\ q.op = "cadastrar" /\ PedidoServe(q) /\ x \in Pessoas
  BY DEF GravarCadastro, IInv, Tipado, PedidoServe
<1>2. /\ linha \in [Pessoas -> Linha] /\ LinhaServe(x, linha[x], recusados, atropelado)
      /\ linha[x].rede # Nulo => Existe(linha[x].rede)
  BY <1>1 DEF IInv, Tipado, LinhasServem, RedesExistem
<1>3. l \in Linha /\ LinhaServe(x, l, recusados, atropelado) /\ Avanca(linha[x], l)
  <2>1. CASE Existe(x)
    BY <1>1, <1>2, <2>1 DEF Avanca, Linha
  <2>2. CASE ~Existe(x)
    <3> DEFINE b == q.st = "ATIVO"
    <3>1. PICK a \in BOOLEAN : a = b
      <4>1. CASE b
        BY <4>1
      <4>2. CASE ~b
        BY <4>2
      <4> QED
        BY <4>1, <4>2
    <3>2. l = [usuario |-> q.st, status |-> q.st, rede |-> q.rede, excluido |-> FALSE,
               saldo |-> FALSE, aprovado |-> a, rejeitado |-> FALSE]
      BY <2>2, <3>1, Zenon DEF Novo
    <3>3. a <=> q.st = "ATIVO"
      BY <3>1
    <3>4. q.st \in Status /\ q.rede \in Distribuidores \cup {Nulo}
      BY <1>1 DEF Requisicao
    <3> HIDE DEF l
    <3>5. l \in Linha
      BY <3>2, <3>4 DEF Linha
    <3>6. LinhaServe(x, l, recusados, atropelado)
      BY <1>1, <1>2, <2>2, <3>2, <3>3, <3>4, CadastrosAssumption
         DEF LinhaServe, PedidoServe, Existe, Pessoas, Status
    <3>7. Avanca(linha[x], l)
      <4>1. linha[x].status = "nenhum" /\ ~linha[x].aprovado /\ ~linha[x].rejeitado
        BY <2>2, <1>1, <1>2 DEF Existe, LinhaServe, Linha
      <4> QED
        BY <4>1, <1>2 DEF Avanca
    <3> QED
      BY <3>5, <3>6, <3>7
  <2> QED
    BY <2>1, <2>2
<1>4. l.rede # Nulo => Existe(l.rede)
  BY <1>1, <1>2 DEF Novo, PedidoServe
<1>5. linha' = [linha EXCEPT ![x] = l]
  BY <1>2 DEF GravarCadastro
<1>6. UNCHANGED <<token, frota, sessao, recusados, atropelado>> /\ Terminar(r)
  BY DEF GravarCadastro
<1> HIDE DEF l, x, q
<1> QED
  BY <1>1, <1>3, <1>4, <1>5, <1>6, Terminou, LinhaIInv

LEMMA GravarIInv ==
    ASSUME IInv, NEW r \in Pedidos, Gravar(r)
    PROVE  IInv'
<1> DEFINE q == pedido[r]
           x == q.alvo
           l == Gravada(q)
<1>1. q \in Requisicao /\ q.op = "gravar" /\ PedidoServe(q) /\ x \in Pessoas /\ Existe(x)
  BY DEF Gravar, IInv, Tipado, PedidoServe
<1>2. /\ linha \in [Pessoas -> Linha] /\ LinhaServe(x, linha[x], recusados, atropelado)
      /\ linha[x].rede # Nulo => Existe(linha[x].rede)
  BY <1>1 DEF IInv, Tipado, LinhasServem, RedesExistem
<1>3. /\ linha' = [linha EXCEPT ![x] = l]
      /\ Terminar(r) /\ UNCHANGED <<token, frota, sessao>>
  BY DEF Gravar
<1>a. /\ recusados' = IF q.st = "INATIVO" /\ Pendente(x) THEN recusados \cup {x} ELSE recusados
      /\ atropelado' = IF linha[x].excluido THEN atropelado \cup {x} ELSE atropelado
  BY DEF Gravar
<1>b. linha[x] \in Linha
  BY <1>1, <1>2
<1>4. /\ l.usuario = IF q.st = "nenhum" THEN linha[x].usuario ELSE q.st
      /\ l.status = IF q.st = "nenhum" THEN linha[x].status ELSE q.st
      /\ l.rede = IF q.rede = Nulo THEN linha[x].rede ELSE q.rede
      /\ l.aprovado = (linha[x].aprovado \/ q.carimbo = "aprova")
      /\ l.rejeitado = ((linha[x].rejeitado \/ q.carimbo = "recusa") /\ q.carimbo # "aprova")
      /\ l.excluido = linha[x].excluido
  BY <1>b DEF Linha, UsuarioSegue, Gravada
<1>c. l \in Linha
  <2>1. \E b \in BOOLEAN : b = (linha[x].aprovado \/ q.carimbo = "aprova")
    OBVIOUS
  <2>2. \E b \in BOOLEAN : b = ((linha[x].rejeitado \/ q.carimbo = "recusa") /\ q.carimbo # "aprova")
    OBVIOUS
  <2>3. PICK a \in BOOLEAN, b \in BOOLEAN :
            l = [linha[x] EXCEPT !.usuario = UsuarioSegue(x, q.st),
                     !.status = IF q.st = "nenhum" THEN linha[x].status ELSE q.st,
                     !.rede = IF q.rede = Nulo THEN linha[x].rede ELSE q.rede,
                     !.aprovado = a, !.rejeitado = b]
    BY <2>1, <2>2, Zenon DEF Gravada
  <2>4. UsuarioSegue(x, q.st) \in Status /\ q.st \in Status
        /\ q.rede \in Distribuidores \cup {Nulo}
    BY <1>1, <1>b DEF Linha, Requisicao, UsuarioSegue
  <2> HIDE DEF l
  <2> QED
    BY <2>3, <2>4, <1>b DEF Linha
<1> HIDE DEF l
<1>5. Avanca(linha[x], l)
  BY <1>1, <1>2, <1>4 DEF Avanca, Linha, Requisicao
<1>6. LinhaServe(x, l, recusados', atropelado')
  <2>1. l.usuario = l.status /\ l.status # "nenhum"
    BY <1>1, <1>2, <1>4 DEF LinhaServe, Existe
  <2>2. l.rede # Nulo <=> (x \in Vendedores /\ l.status # "nenhum")
    BY <1>1, <1>2, <1>4 DEF LinhaServe, PedidoServe, Existe
  <2>3. /\ l.status = "ATIVO" => l.aprovado
        /\ x \in Distribuidores /\ l.status # "nenhum" => l.aprovado
    BY <1>1, <1>2, <1>4 DEF LinhaServe, PedidoServe, Existe
  <2>4. /\ l.excluido => l.status = "INATIVO" \/ x \in atropelado'
        /\ l.excluido => l.status # "nenhum"
    BY <1>1, <1>2, <1>a, <1>4 DEF LinhaServe
  <2>5. x \in recusados' => l.aprovado \/ l.rejeitado
    <3>1. CASE q.st = "INATIVO" /\ Pendente(x)
      <4>1. q.carimbo # "nenhum"
        BY <1>1, <3>1 DEF PedidoServe, Pendente
      <4> QED
        BY <4>1, <1>1, <1>4 DEF Requisicao
    <3>2. CASE ~(q.st = "INATIVO" /\ Pendente(x))
      BY <3>2, <1>2, <1>a, <1>4, <1>5 DEF LinhaServe, Avanca
    <3> QED
      BY <3>1, <3>2
  <2> QED
    BY <2>1, <2>2, <2>3, <2>4, <2>5 DEF LinhaServe
<1>7. l.rede # Nulo => Existe(l.rede)
  BY <1>1, <1>2, <1>4 DEF PedidoServe
<1>8. /\ recusados' \in {recusados, recusados \cup {x}}
      /\ atropelado' \in {atropelado, atropelado \cup {x}}
  BY <1>a
<1> HIDE DEF x, q
<1> QED
  BY <1>1, <1>3, <1>c, <1>5, <1>6, <1>7, <1>8, Terminou, LinhaIInv

\* The exclusion hides a row and deactivates it; the restoration only shows it again.
LEMMA EsconderEMostrarIInv ==
    ASSUME IInv, NEW r \in Pedidos, GravarExclusao(r) \/ GravarRestauracao(r)
    PROVE  IInv'
<1> DEFINE q == pedido[r]
           x == q.alvo
           excluida == [linha[x] EXCEPT !.usuario = "INATIVO", !.status = "INATIVO", !.excluido = TRUE]
           restaurada == [linha[x] EXCEPT !.excluido = FALSE]
<1>1. PedidoServe(q) /\ q.op \in {"excluir", "restaurar"} /\ x \in Pessoas /\ Existe(x)
  BY DEF GravarExclusao, GravarRestauracao, IInv, PedidoServe
<1>2. /\ linha[x] \in Linha /\ LinhaServe(x, linha[x], recusados, atropelado)
      /\ linha[x].rede # Nulo => Existe(linha[x].rede)
  BY <1>1 DEF IInv, Tipado, LinhasServem, RedesExistem
<1>3. linha' = [linha EXCEPT ![x] = excluida] \/ linha' = [linha EXCEPT ![x] = restaurada]
  <2>1. GravarExclusao(r) => linha' = [linha EXCEPT ![x] = excluida]
    BY DEF GravarExclusao
  <2>2. GravarRestauracao(r) => linha' = [linha EXCEPT ![x] = restaurada]
    BY DEF GravarRestauracao
  <2> QED
    BY <2>1, <2>2
<1>4. UNCHANGED <<token, frota, sessao, recusados, atropelado>> /\ Terminar(r)
  BY DEF GravarExclusao, GravarRestauracao
<1>5. ASSUME NEW l \in {excluida, restaurada}
      PROVE  /\ l \in Linha /\ Avanca(linha[x], l) /\ LinhaServe(x, l, recusados, atropelado)
             /\ l.rede # Nulo => Existe(l.rede)
  <2>1. CASE l = excluida
    <3>1. /\ l \in Linha /\ l.usuario = "INATIVO" /\ l.status = "INATIVO"
          /\ l.rede = linha[x].rede /\ l.aprovado = linha[x].aprovado
          /\ l.rejeitado = linha[x].rejeitado
      BY <1>2, <2>1 DEF Linha, Status
    <3> HIDE DEF excluida
    <3> QED
      BY <1>1, <1>2, <3>1 DEF Avanca, LinhaServe, Existe
  <2>2. CASE l = restaurada
    BY <1>1, <1>2, <2>2 DEF Linha, Avanca, LinhaServe, Existe, Status
  <2> QED
    BY <2>1, <2>2
<1>6. PICK l \in {excluida, restaurada} : linha' = [linha EXCEPT ![x] = l]
  BY <1>3
<1> HIDE DEF q, x, excluida, restaurada
<1> QED
  BY <1>1, <1>4, <1>5, <1>6, Terminou, LinhaIInv

\* The balance of a row comes and goes with its sales.
LEMMA MudarSaldoIInv ==
    ASSUME IInv, NEW x \in Pessoas, MudarSaldo(x)
    PROVE  IInv'
<1>1. PICK b \in BOOLEAN : b = ~linha[x].saldo
  OBVIOUS
<1> DEFINE l == [linha[x] EXCEPT !.saldo = b]
<1>2. linha[x] \in Linha /\ LinhaServe(x, linha[x], recusados, atropelado)
      /\ (linha[x].rede # Nulo => Existe(linha[x].rede))
  BY DEF IInv, Tipado, LinhasServem, RedesExistem
<1>3. /\ linha' = [linha EXCEPT ![x] = l]
      /\ UNCHANGED <<token, frota, sessao, pedido, recusados, atropelado>>
  BY <1>1, <1>2 DEF MudarSaldo
<1>4. /\ l \in Linha /\ Avanca(linha[x], l) /\ LinhaServe(x, l, recusados, atropelado)
      /\ l.rede # Nulo => Existe(l.rede)
  BY <1>2 DEF Linha, Avanca, LinhaServe
<1>5. pedido' \in [Pedidos -> Requisicao]
  BY <1>3 DEF IInv, Tipado
<1> HIDE DEF l
<1> QED
  BY <1>3, <1>4, <1>5, LinhaIInv

\* Tokens, sessions and machines touch neither rows nor requests.
LEMMA ForaDasLinhas ==
    ASSUME IInv, UNCHANGED <<linha, pedido, recusados, atropelado>>,
           token' \in [Distribuidores -> 0..MaxTokens], frota' \subseteq Distribuidores,
           sessao' \subseteq Pessoas
    PROVE  IInv'
<1>1. Tipado' /\ LinhasServem'
  BY DEF IInv, Tipado, LinhasServem, LinhaServe
<1>2. RedesExistem'
  BY DEF IInv, RedesExistem, Existe
<1>3. \A r \in Pedidos : PedidoServe(pedido[r])'
  BY DEF IInv, PedidoServe, Existe
<1> QED
  BY <1>1, <1>2, <1>3 DEF IInv

LEMMA SessoesIInv ==
    ASSUME IInv
    PROVE  /\ \A ator : \A d \in Distribuidores : RegenerarToken(ator, d) => IInv'
           /\ \A x \in Pessoas : LoginPainel(x) \/ LoginPos(x) => IInv'
           /\ \A d \in Distribuidores : MudarFrota(d) => IInv'
           /\ UNCHANGED vars => IInv'
<1>1. /\ token \in [Distribuidores -> 0..MaxTokens] /\ frota \subseteq Distribuidores
      /\ sessao \subseteq Pessoas /\ MaxTokens \in Nat
  BY CadastrosAssumption DEF IInv, Tipado
<1>2. ASSUME NEW ator, NEW d \in Distribuidores, RegenerarToken(ator, d) PROVE IInv'
  BY <1>1, <1>2, ForaDasLinhas DEF RegenerarToken
<1>3. ASSUME NEW x \in Pessoas, LoginPainel(x) \/ LoginPos(x) PROVE IInv'
  BY <1>1, <1>3, ForaDasLinhas DEF LoginPainel, LoginPos
<1>4. ASSUME NEW d \in Distribuidores, MudarFrota(d) PROVE IInv'
  BY <1>1, <1>4, ForaDasLinhas DEF MudarFrota
<1>5. ASSUME UNCHANGED vars PROVE IInv'
  BY <1>1, <1>5, ForaDasLinhas DEF vars
<1> QED
  BY <1>2, <1>3, <1>4, <1>5

LEMMA NextIInv == IInv /\ [Next]_vars => IInv'
<1> SUFFICES ASSUME IInv, [Next]_vars PROVE IInv'
  OBVIOUS
<1>1. ASSUME NEW r \in Pedidos, NEW d \in Distribuidores
      PROVE  /\ CriarDistribuidor(r, d) \/ ExcluirDistribuidor(r, d) \/ RestaurarDistribuidor(r, d)
                => IInv'
             /\ Remover(r, Admin, d) => IInv'
             /\ (\E st \in Status : AtualizarDistribuidor(r, d, st)) => IInv'
  <2>1. d \in Pessoas
    BY DEF Pessoas
  <2> QED
    BY <2>1, CadastrarIInv, EsconderIInv, MudarIInv
<1>2. ASSUME NEW r \in Pedidos, NEW v \in Vendedores
      PROVE  /\ ExcluirVendedor(r, v) \/ RestaurarVendedor(r, v) => IInv'
             /\ \A ator \in Atores :
                  /\ Aprovar(r, ator, v) \/ Remover(r, ator, v) => IInv'
                  /\ \A d \in Distribuidores : CriarVendedor(r, ator, v, d) => IInv'
                  /\ \A st \in Status, rede \in Distribuidores \cup {Nulo} :
                         AtualizarVendedor(r, ator, v, st, rede) => IInv'
             /\ \A d \in Distribuidores, t \in 0..MaxTokens : AutoCadastrar(r, v, d, t) => IInv'
  <2>1. v \in Pessoas
    BY DEF Pessoas
  <2>2. ExcluirVendedor(r, v) \/ RestaurarVendedor(r, v) => IInv'
    BY EsconderIInv
  <2>3. \A ator \in Atores : Aprovar(r, ator, v) \/ Remover(r, ator, v) => IInv'
    BY <2>1, MudarIInv
  <2>4. \A ator \in Atores, d \in Distribuidores : CriarVendedor(r, ator, v, d) => IInv'
    BY CadastrarIInv
  <2>5. \A ator \in Atores, st \in Status, rede \in Distribuidores \cup {Nulo} :
            AtualizarVendedor(r, ator, v, st, rede) => IInv'
    BY MudarIInv
  <2>6. \A d \in Distribuidores, t \in 0..MaxTokens : AutoCadastrar(r, v, d, t) => IInv'
    BY CadastrarIInv
  <2> QED
    BY <2>2, <2>3, <2>4, <2>5, <2>6
<1>3. ASSUME NEW r \in Pedidos
      PROVE  GravarCadastro(r) \/ Gravar(r) \/ GravarExclusao(r) \/ GravarRestauracao(r) => IInv'
  BY GravarCadastroIInv, GravarIInv, EsconderEMostrarIInv
<1>4. /\ \A ator \in Atores, d \in Distribuidores : RegenerarToken(ator, d) => IInv'
      /\ \A d \in Distribuidores : MudarFrota(d) => IInv'
      /\ UNCHANGED vars => IInv'
  BY SessoesIInv
<1>5. \A x \in Pessoas : LoginPainel(x) \/ LoginPos(x) \/ MudarSaldo(x) => IInv'
  BY SessoesIInv, MudarSaldoIInv
<1>6. CASE Next
  BY <1>6, <1>1, <1>2, <1>3, <1>4, <1>5, Zenon DEF Next
<1> QED
  BY <1>4, <1>6

LEMMA Invariante == Spec => []IInv
<1>1. Init => IInv
  BY InitIInv
<1>2. IInv /\ [Next]_vars => IInv'
  BY NextIInv
<1> QED
  BY <1>1, <1>2, PTL DEF Spec

-------------------------------------------------------------------------------
\* Every variable of the registrations keeps its type.
THEOREM CadastrosTipados == Spec => []TypeOK
<1>1. IInv => TypeOK
  BY TiposDeIInv
<1> QED
  BY <1>1, Invariante, PTL

\* The panel's login and the card machine's look at two rows that never disagree,
\* whatever creations, PATCHes, approvals and exclusions interleave.
THEOREM LoginsConcordam == Spec => []StatusAndamJuntos
<1>1. IInv => StatusAndamJuntos
  BY TiposDeIInv
<1> QED
  BY <1>1, Invariante, PTL

\* Nobody operates without an approval, or in a network that is not active.
THEOREM SoAprovadoOpera == Spec => []OperaSoAprovado
<1>1. IInv => OperaSoAprovado
  BY TiposDeIInv
<1> QED
  BY <1>1, Invariante, PTL

\* A registration that was refused while it waited never waits again.
THEOREM RecusadoNaoVolta == Spec => []RecusadoForaDaFila
<1>1. IInv => RecusadoForaDaFila
  BY TiposDeIInv
<1> QED
  BY <1>1, Invariante, PTL

\* An excluded registration does not operate, unless a handler that had read it before
\* the exclusion wrote it after.
THEOREM ExcluidoParou == Spec => []ExcluidoNaoOpera
<1>1. IInv => ExcluidoNaoOpera
  BY TiposDeIInv
<1> QED
  BY <1>1, Invariante, PTL

\* Nobody operates who may not, in either login, whatever handlers overlap (OperaQuemPode).
THEOREM SoOperaQuemPode == Spec => []OperaQuemPode
BY CadastrosTipados, LoginsConcordam, SoAprovadoOpera, RecusadoNaoVolta, ExcluidoParou, PTL
   DEF OperaQuemPode

-------------------------------------------------------------------------------
(* The link of a customer. *)
Alteracao == [passo : {"livre", "decidir", "gravar"}, c : Clientes \cup {Nulo},
              ator : C!Atores, vi : C!Informe(VendedoresDaLoja), di : C!Informe(Redes),
              atual : C!Vinculo, redeLida : Redes \cup {Nulo, Admin},
              rv : Redes \cup {Nulo}, novo : C!Vinculo]

\* The CHECK of the table.
ComRede(x) == x.v # Nulo => x.d # Nulo

\* What a PATCH that was validated carries, whatever became of the rows since: who is not the
\* ADMIN read a customer of the network it acts for, and names that network or none.
LeituraServe(q) ==
    /\ q.vi # Ausente \/ q.di # Ausente
    /\ q.vi \in VendedoresDaLoja => q.rv \in Redes
    /\ ComRede(q.atual)
    /\ q.ator # Admin =>
           /\ q.atual.d = q.redeLida
           /\ q.di \in Redes => q.di = q.redeLida
           /\ q.vi \in VendedoresDaLoja => q.rv = q.redeLida
    /\ q.ator \in VendedoresDaLoja => q.vi # Nulo
    /\ q.ator \in Redes => q.di # Nulo
DecisaoServe(q) ==
    /\ ComRede(q.novo)
    /\ q.ator # Admin => q.novo.d \in {q.redeLida, Nulo}
    /\ q.vi = Ausente /\ q.di \in {Ausente, q.atual.d} => q.novo.v = q.atual.v
AlteracaoServe(q) ==
    /\ q.passo # "livre" => q.c \in Clientes
    /\ q.passo = "decidir" => LeituraServe(q)
    /\ q.passo = "gravar" => DecisaoServe(q)

ClienteInv ==
    /\ redeDe \in [VendedoresDaLoja -> Redes]
    /\ vinculo \in [Clientes -> C!Vinculo \cup {C!SemCadastro}]
    /\ \A c \in Clientes : ComRede(vinculo[c])
    /\ alteracao \in [Alteracoes -> Alteracao]
    /\ \A p \in Alteracoes : AlteracaoServe(alteracao[p])

LEMMA ClienteInicia == ASSUME C!Init PROVE ClienteInv
<1> USE DEF C!Init
<1>1. C!Livre \in Alteracao
  BY DEF C!Livre, Alteracao, C!Atores, C!Informe, C!Vinculo, C!Orfao
<1>2. AlteracaoServe(C!Livre)
  BY DEF C!Livre, AlteracaoServe
<1>3. ComRede(C!SemCadastro)
  BY RedesAssumption DEF C!SemCadastro, ComRede
<1> QED
  BY <1>1, <1>2, <1>3 DEF ClienteInv

\* A PATCH that moves on.
LEMMA AlteracaoAnda ==
    ASSUME ClienteInv, NEW p \in Alteracoes, NEW q \in Alteracao, AlteracaoServe(q),
           alteracao' = [alteracao EXCEPT ![p] = q], UNCHANGED <<redeDe, vinculo>>
    PROVE  ClienteInv'
<1>1. alteracao' \in [Alteracoes -> Alteracao]
  BY DEF ClienteInv
<1>2. ASSUME NEW o \in Alteracoes PROVE AlteracaoServe(alteracao[o]')
  <2>1. alteracao[o]' = IF o = p THEN q ELSE alteracao[o]
    BY DEF ClienteInv
  <2>2. AlteracaoServe(alteracao[o])
    BY DEF ClienteInv
  <2> QED
    BY <2>1, <2>2
<1>3. \A o \in Alteracoes : AlteracaoServe(alteracao[o])'
  BY <1>2 DEF AlteracaoServe, LeituraServe, DecisaoServe, ComRede
<1> QED
  BY <1>1, <1>3 DEF ClienteInv, C!Vinculo, C!SemCadastro, ComRede

\* A link that is written.
LEMMA VinculoMuda ==
    ASSUME ClienteInv, NEW c \in Clientes, NEW x \in C!Vinculo, ComRede(x),
           vinculo' = [vinculo EXCEPT ![c] = x], UNCHANGED <<redeDe, alteracao>>
    PROVE  ClienteInv'
<1>1. vinculo' \in [Clientes -> C!Vinculo \cup {C!SemCadastro}]
  BY DEF ClienteInv
<1>2. ASSUME NEW o \in Clientes PROVE ComRede(vinculo'[o])
  <2>1. vinculo'[o] = IF o = c THEN x ELSE vinculo[o]
    BY DEF ClienteInv
  <2>2. ComRede(vinculo[o])
    BY DEF ClienteInv
  <2> QED
    BY <2>1, <2>2
<1>3. \A o \in Alteracoes : AlteracaoServe(alteracao[o])'
  BY DEF ClienteInv, AlteracaoServe, LeituraServe, DecisaoServe, ComRede
<1> QED
  BY <1>1, <1>2, <1>3 DEF ClienteInv, ComRede

\* A pair with its seller's network has one.
LEMMA ResolvidoServe ==
    ASSUME NEW v \in VendedoresDaLoja \cup {Nulo}, NEW d \in Redes \cup {Nulo}, NEW dv,
           v # Nulo => dv \in Redes
    PROVE  /\ C!ResolverVinculo(v, d, dv) \in C!Vinculo
           /\ ComRede(C!ResolverVinculo(v, d, dv))
           /\ C!ResolverVinculo(v, d, dv).v = v
           /\ d # Nulo => C!ResolverVinculo(v, d, dv).d = d
           /\ d = Nulo => C!ResolverVinculo(v, d, dv).d = (IF v # Nulo THEN dv ELSE Nulo)
BY RedesAssumption DEF C!ResolverVinculo, C!Vinculo, ComRede

LEMMA ClienteCria ==
    ASSUME ClienteInv, NEW c \in Clientes, NEW ator \in C!Atores,
           NEW vi \in C!Informe(VendedoresDaLoja), NEW di \in C!Informe(Redes),
           C!Criar(c, ator, vi, di)
    PROVE  ClienteInv'
<1> DEFINE v == C!Informado(vi)
           d == C!Informado(di)
           x == IF ator \in VendedoresDaLoja THEN [v |-> ator, d |-> redeDe[ator]]
                ELSE IF ator \in Redes THEN [v |-> v, d |-> ator]
                ELSE C!ResolverVinculo(v, d, IF vi \in VendedoresDaLoja THEN redeDe[vi] ELSE Nulo)
<1>1. /\ v \in VendedoresDaLoja \cup {Nulo} /\ d \in Redes \cup {Nulo}
      /\ v # Nulo => vi \in VendedoresDaLoja
  BY DEF C!Informado, C!Informe
<1>2. redeDe \in [VendedoresDaLoja -> Redes]
  BY DEF ClienteInv
<1>3. CASE ator \in VendedoresDaLoja
  <2>1. redeDe[ator] \in Redes
    BY <1>2, <1>3
  <2> QED
    BY <2>1, <1>3, RedesAssumption, VinculoMuda DEF C!Criar, C!Vinculo, ComRede
<1>4. CASE ator \notin VendedoresDaLoja /\ ator \in Redes
  <2>1. [v |-> v, d |-> ator] \in C!Vinculo /\ ComRede([v |-> v, d |-> ator])
    BY <1>1, <1>4, RedesAssumption DEF C!Vinculo, ComRede
  <2> QED
    BY <2>1, <1>4, VinculoMuda DEF C!Criar
<1>5. CASE ator \notin VendedoresDaLoja /\ ator \notin Redes
  <2>1. v # Nulo => (IF vi \in VendedoresDaLoja THEN redeDe[vi] ELSE Nulo) \in Redes
    BY <1>1, <1>2
  <2>2. /\ C!ResolverVinculo(v, d, IF vi \in VendedoresDaLoja THEN redeDe[vi] ELSE Nulo) \in C!Vinculo
        /\ ComRede(C!ResolverVinculo(v, d, IF vi \in VendedoresDaLoja THEN redeDe[vi] ELSE Nulo))
    BY <2>1, <1>1, ResolvidoServe
  <2> QED
    BY <2>2, <1>5, VinculoMuda DEF C!Criar
<1> QED
  BY <1>3, <1>4, <1>5

LEMMA ClienteCompra ==
    ASSUME ClienteInv, NEW c \in Clientes, NEW v \in VendedoresDaLoja \cup {Nulo},
           NEW d \in Redes \cup {Nulo}, C!Comprar(c, v, d)
    PROVE  ClienteInv'
<1>1. v # Nulo => (IF v = Nulo THEN Nulo ELSE redeDe[v]) \in Redes
  BY DEF ClienteInv
<1>2. /\ C!ResolverVinculo(v, d, IF v = Nulo THEN Nulo ELSE redeDe[v]) \in C!Vinculo
      /\ ComRede(C!ResolverVinculo(v, d, IF v = Nulo THEN Nulo ELSE redeDe[v]))
  BY <1>1, ResolvidoServe
<1> QED
  BY <1>2, VinculoMuda DEF C!Comprar

LEMMA ClienteChega ==
    ASSUME ClienteInv, NEW c \in Clientes, C!PrimeiroAcesso(c)
    PROVE  ClienteInv'
<1>1. C!Orfao \in C!Vinculo /\ ComRede(C!Orfao)
  BY DEF C!Orfao, C!Vinculo, ComRede
<1> QED
  BY <1>1, VinculoMuda DEF C!PrimeiroAcesso

LEMMA ClienteTransfere ==
    ASSUME ClienteInv, NEW v \in VendedoresDaLoja, NEW d \in Redes, C!Transferir(v, d)
    PROVE  ClienteInv'
<1>1. redeDe' \in [VendedoresDaLoja -> Redes]
  BY DEF ClienteInv, C!Transferir
<1> QED
  BY <1>1 DEF ClienteInv, C!Transferir, AlteracaoServe, LeituraServe, DecisaoServe, ComRede

\* What a PATCH reads when it is validated.
LEMMA ClienteLe ==
    ASSUME ClienteInv, NEW p \in Alteracoes, NEW c \in Clientes, NEW ator \in C!Atores,
           NEW vi \in C!Informe(VendedoresDaLoja), NEW di \in C!Informe(Redes),
           C!Ler(p, c, ator, vi, di)
    PROVE  ClienteInv'
<1> DEFINE q == [C!Livre EXCEPT !.passo = "decidir", !.c = c, !.ator = ator, !.vi = vi, !.di = di,
                                !.atual = vinculo[c], !.redeLida = C!RedeDe(ator),
                                !.rv = IF vi \in VendedoresDaLoja THEN redeDe[vi] ELSE Nulo]
<1>1. /\ C!Livre \in Alteracao
      /\ q.passo = "decidir" /\ q.c = c /\ q.ator = ator /\ q.vi = vi /\ q.di = di
      /\ q.atual = vinculo[c] /\ q.redeLida = C!RedeDe(ator)
      /\ q.rv = IF vi \in VendedoresDaLoja THEN redeDe[vi] ELSE Nulo
  BY DEF C!Livre, Alteracao, C!Atores, C!Informe, C!Vinculo, C!Orfao
<1>2. vinculo[c] \in C!Vinculo /\ ComRede(vinculo[c])
  BY DEF ClienteInv, C!Ler, C!Enxerga, C!Existe
<1>3. /\ redeDe \in [VendedoresDaLoja -> Redes]
      /\ ator \in VendedoresDaLoja => C!RedeDe(ator) = redeDe[ator]
      /\ ator \notin VendedoresDaLoja => C!RedeDe(ator) = ator
  BY DEF ClienteInv, C!RedeDe
<1>4. C!RedeDe(ator) \in Redes \cup {Nulo, Admin}
  BY <1>3 DEF C!Atores
<1>5. q \in Alteracao
  <2>1. (IF vi \in VendedoresDaLoja THEN redeDe[vi] ELSE Nulo) \in Redes \cup {Nulo}
    BY <1>3
  <2> QED
    BY <2>1, <1>1, <1>2, <1>4 DEF Alteracao
<1>6. AlteracaoServe(q)
  <2> HIDE DEF q
  <2>1. ator # Admin => vinculo[c].d = C!RedeDe(ator)
    BY DEF C!Ler, C!Enxerga
  <2>2. /\ vi # Ausente \/ di # Ausente
        /\ C!VinculoPermitido(ator, vi, di, "atualizacao")
    BY DEF C!Ler
  <2>3. ASSUME ator \in VendedoresDaLoja
        PROVE  /\ di \in Redes => di = C!RedeDe(ator)
               /\ vi \in VendedoresDaLoja => redeDe[vi] = C!RedeDe(ator)
               /\ vi # Nulo
    BY <2>2, <2>3, <1>3 DEF C!VinculoPermitido
  <2>4. ASSUME ator \in Redes
        PROVE  /\ di \in Redes => di = C!RedeDe(ator)
               /\ vi \in VendedoresDaLoja => redeDe[vi] = C!RedeDe(ator)
               /\ di # Nulo
    BY <2>2, <2>4, <1>3, RedesAssumption DEF C!VinculoPermitido
  <2>5. ator = Admin \/ ator \in VendedoresDaLoja \/ ator \in Redes
    BY DEF C!Atores
  <2>6. vi \in VendedoresDaLoja => redeDe[vi] \in Redes
    BY <1>3
  <2>7. LeituraServe(q)
    BY <1>1, <2>1, <2>2, <2>3, <2>4, <2>5, <2>6, <1>2 DEF LeituraServe
  <2> QED
    BY <1>1, <2>7 DEF AlteracaoServe
<1> HIDE DEF q
<1>7. alteracao' = [alteracao EXCEPT ![p] = q] /\ UNCHANGED <<redeDe, vinculo>>
  BY DEF C!Ler, q
<1> QED
  BY <1>5, <1>6, <1>7, AlteracaoAnda

\* What it decides, from what it read and the network of the seller on file, read only now.
LEMMA DecidoComRede ==
    ASSUME NEW q \in Alteracao, LeituraServe(q), NEW dv,
           C!VendedorFinal(q.vi, q.atual) # Nulo => dv \in Redes,
           q.vi \in VendedoresDaLoja => dv = q.rv,
           ~C!RecusaEsvaziar(q.vi, q.di, q.atual),
           NEW n, n = C!ResolverAtualizacao(q.vi, q.di, q.atual, dv)
    PROVE  /\ n \in C!Vinculo /\ ComRede(n)
           /\ q.ator # Admin => n.d \in {q.redeLida, Nulo}
           /\ q.vi = Ausente /\ q.di \in {Ausente, q.atual.d} => n.v = q.atual.v
<1> DEFINE v == C!VendedorFinal(q.vi, q.atual)
           w == IF C!VendedorCede(q.vi, q.di, q.atual, dv) THEN Nulo ELSE v
           d == IF q.di # Ausente THEN q.di ELSE IF v # Nulo THEN Nulo ELSE q.atual.d
<1>0. /\ q.vi \in VendedoresDaLoja \cup {Nulo, Ausente} /\ q.di \in Redes \cup {Nulo, Ausente}
      /\ q.atual.v \in VendedoresDaLoja \cup {Nulo} /\ q.atual.d \in Redes \cup {Nulo}
  BY DEF Alteracao, C!Informe, C!Vinculo
<1>1. v \in VendedoresDaLoja \cup {Nulo} /\ w \in {v, Nulo} /\ d \in Redes \cup {Nulo}
  BY <1>0 DEF C!VendedorFinal
<1>2. n = C!ResolverVinculo(w, d, dv)
  BY DEF C!ResolverAtualizacao
<1>3. /\ n \in C!Vinculo /\ ComRede(n) /\ n.v = w
      /\ d # Nulo => n.d = d
      /\ d = Nulo => n.d = (IF w # Nulo THEN dv ELSE Nulo)
  <2> HIDE DEF w, d
  <2>1. w \in VendedoresDaLoja \cup {Nulo} /\ (w # Nulo => dv \in Redes)
    BY <1>1
  <2>2. /\ C!ResolverVinculo(w, d, dv) \in C!Vinculo
        /\ ComRede(C!ResolverVinculo(w, d, dv))
        /\ C!ResolverVinculo(w, d, dv).v = w
        /\ d # Nulo => C!ResolverVinculo(w, d, dv).d = d
        /\ d = Nulo => C!ResolverVinculo(w, d, dv).d = (IF w # Nulo THEN dv ELSE Nulo)
    BY <2>1, <1>1, ResolvidoServe
  <2> QED
    BY <2>1, <2>2, <1>2
<1>4. ASSUME q.ator # Admin PROVE n.d \in {q.redeLida, Nulo}
  <2>1. CASE q.di \in Redes
    BY <2>1, <1>3, <1>4, RedesAssumption DEF LeituraServe
  <2>2. CASE q.di = Ausente
    <3>1. q.vi # Ausente /\ v = q.vi
      BY <2>2 DEF LeituraServe, C!VendedorFinal
    <3>2. CASE v = Nulo
      <4>1. d = q.atual.d /\ w = Nulo
        BY <2>2, <3>2, <1>1
      <4> QED
        BY <4>1, <1>3, <1>4 DEF LeituraServe
    <3>3. CASE v # Nulo
      <4>1. q.vi \in VendedoresDaLoja /\ dv = q.redeLida
        BY <3>1, <3>3, <1>0, <1>4 DEF LeituraServe
      <4>2. d = Nulo
        BY <2>2, <3>3
      <4> QED
        BY <4>1, <4>2, <1>3
    <3> QED
      BY <3>2, <3>3
  <2>3. CASE q.di = Nulo
    <3>1. d = Nulo
      BY <2>3, RedesAssumption
    <3>2. CASE q.vi \in VendedoresDaLoja
      <4>1. dv = q.redeLida
        BY <3>2, <1>4 DEF LeituraServe
      <4> QED
        BY <4>1, <3>1, <1>3
    <3>3. CASE q.vi \notin VendedoresDaLoja
      <4>1. v = Nulo
        BY <2>3, <3>3, <1>0 DEF C!VendedorFinal, C!RecusaEsvaziar
      <4> QED
        BY <4>1, <3>1, <1>1, <1>3
    <3> QED
      BY <3>2, <3>3
  <2> QED
    BY <2>1, <2>2, <2>3, <1>0
<1>5. ASSUME q.vi = Ausente, q.di \in {Ausente, q.atual.d} PROVE n.v = q.atual.v
  <2>1. q.di = q.atual.d
    BY <1>5 DEF LeituraServe
  <2> QED
    BY <2>1, <1>5, <1>3 DEF C!VendedorCede, C!VendedorFinal
<1> QED
  BY <1>3, <1>4, <1>5

LEMMA ClienteDecide ==
    ASSUME ClienteInv, NEW p \in Alteracoes, C!Decidir(p)
    PROVE  ClienteInv'
<1> DEFINE q == alteracao[p]
           v == C!VendedorFinal(q.vi, q.atual)
           dv == IF v = Nulo THEN Nulo ELSE IF q.vi = Ausente THEN redeDe[v] ELSE q.rv
           n == C!ResolverAtualizacao(q.vi, q.di, q.atual, dv)
<1>1. q \in Alteracao /\ LeituraServe(q) /\ q.c \in Clientes
  BY DEF ClienteInv, C!Decidir, AlteracaoServe
<1>2. CASE C!RecusaEsvaziar(q.vi, q.di, q.atual)
  <2>1. alteracao' = [alteracao EXCEPT ![p] = C!Livre] /\ UNCHANGED <<redeDe, vinculo>>
    BY <1>2 DEF C!Decidir
  <2>2. C!Livre \in Alteracao /\ AlteracaoServe(C!Livre)
    BY DEF C!Livre, Alteracao, C!Atores, C!Informe, C!Vinculo, C!Orfao, AlteracaoServe
  <2> QED
    BY <2>1, <2>2, AlteracaoAnda
<1>3. CASE ~C!RecusaEsvaziar(q.vi, q.di, q.atual)
  <2>1. alteracao' = [alteracao EXCEPT ![p] = [q EXCEPT !.passo = "gravar", !.novo = n]]
        /\ UNCHANGED <<redeDe, vinculo>>
    BY <1>3 DEF C!Decidir
  <2>2. /\ v # Nulo => dv \in Redes
        /\ q.vi \in VendedoresDaLoja => dv = q.rv
    <3>1. /\ q.vi \in VendedoresDaLoja \cup {Nulo, Ausente}
          /\ q.atual.v \in VendedoresDaLoja \cup {Nulo}
      BY <1>1 DEF Alteracao, C!Informe, C!Vinculo
    <3>2. redeDe \in [VendedoresDaLoja -> Redes]
      BY DEF ClienteInv
    <3> QED
      BY <3>1, <3>2, <1>1, RedesAssumption DEF C!VendedorFinal, LeituraServe
  <2>3. /\ n \in C!Vinculo /\ ComRede(n)
        /\ q.ator # Admin => n.d \in {q.redeLida, Nulo}
        /\ q.vi = Ausente /\ q.di \in {Ausente, q.atual.d} => n.v = q.atual.v
    <3> HIDE DEF q, dv
    <3> QED
      BY <2>2, <1>1, <1>3, DecidoComRede
  <2> HIDE DEF q, n
  <2>4. [q EXCEPT !.passo = "gravar", !.novo = n] \in Alteracao
    BY <2>3, <1>1 DEF Alteracao
  <2>5. AlteracaoServe([q EXCEPT !.passo = "gravar", !.novo = n])
    BY <2>3, <1>1 DEF AlteracaoServe, DecisaoServe, Alteracao
  <2> QED
    BY <2>1, <2>4, <2>5, AlteracaoAnda
<1> QED
  BY <1>2, <1>3

LEMMA ClienteGrava ==
    ASSUME ClienteInv, NEW p \in Alteracoes, C!Gravar(p)
    PROVE  ClienteInv'
<1>1. alteracao[p] \in Alteracao /\ alteracao[p].c \in Clientes /\ ComRede(alteracao[p].novo)
  BY DEF ClienteInv, C!Gravar, AlteracaoServe, DecisaoServe
<1>2. alteracao[p].novo \in C!Vinculo
  BY <1>1 DEF Alteracao
<1>3. vinculo' \in [Clientes -> C!Vinculo \cup {C!SemCadastro}] /\ UNCHANGED redeDe
  BY <1>1, <1>2 DEF ClienteInv, C!Gravar
<1>4. ASSUME NEW o \in Clientes PROVE ComRede(vinculo'[o])
  <2>1. vinculo'[o] = IF o = alteracao[p].c THEN alteracao[p].novo ELSE vinculo[o]
    BY DEF ClienteInv, C!Gravar
  <2>2. ComRede(vinculo[o])
    BY DEF ClienteInv
  <2> QED
    BY <2>1, <2>2, <1>1
<1>5. C!Livre \in Alteracao /\ AlteracaoServe(C!Livre)
  BY DEF C!Livre, Alteracao, C!Atores, C!Informe, C!Vinculo, C!Orfao, AlteracaoServe
<1>6. alteracao' \in [Alteracoes -> Alteracao]
  BY <1>5 DEF ClienteInv, C!Gravar
<1>7. ASSUME NEW o \in Alteracoes PROVE AlteracaoServe(alteracao'[o])
  <2>1. alteracao'[o] = IF o = p THEN C!Livre ELSE alteracao[o]
    BY DEF ClienteInv, C!Gravar
  <2>2. AlteracaoServe(alteracao[o])
    BY DEF ClienteInv
  <2> QED
    BY <2>1, <2>2, <1>5
<1>8. \A o \in Clientes : ComRede(vinculo[o])'
  BY <1>4 DEF ComRede
<1>9. \A o \in Alteracoes : AlteracaoServe(alteracao[o])'
  BY <1>7 DEF AlteracaoServe, LeituraServe, DecisaoServe, ComRede
<1> QED
  BY <1>3, <1>6, <1>8, <1>9 DEF ClienteInv

LEMMA ClienteSegue == ASSUME ClienteInv, C!Next PROVE ClienteInv'
BY ClienteCria, ClienteCompra, ClienteChega, ClienteLe, ClienteDecide, ClienteGrava,
   ClienteTransfere, Zenon DEF C!Next

LEMMA ClientePromete == ClienteInv => VinculoSobrevive
<1> SUFFICES ASSUME ClienteInv PROVE VinculoSobrevive
  OBVIOUS
<1>1. C!TypeOK
  BY DEF ClienteInv, C!TypeOK, Alteracao
<1>2. C!VinculoCoerente
  BY DEF ClienteInv, C!VinculoCoerente, C!Decidido, AlteracaoServe, DecisaoServe, ComRede
<1>3. C!NaoVaiParaOutraRede /\ C!VendedorNaoSeSolta
  BY DEF ClienteInv, C!NaoVaiParaOutraRede, C!VendedorNaoSeSolta, C!Decidido, AlteracaoServe, DecisaoServe
<1> QED
  BY <1>1, <1>2, <1>3 DEF VinculoSobrevive

-------------------------------------------------------------------------------
(* A purchase and whom it credits. *)
Compra == [passo : {"pedida", "lida", "vinculada", "criada", "recusada", "vendedor recusado"},
           produto : O!Produtos, ator : O!Atores, dto : O!Corpos, par : O!Pares,
           antes : O!Pares \cup {Nulo}, rede : BOOLEAN, vinculo : BOOLEAN]

\* What is left of the body after the token, or the public shop, is applied to it.
CorpoServe(ator, dto) ==
    /\ ator \in VendedoresDaLoja => dto.v = ator /\ dto.d = Nulo /\ dto.seller = Nulo
    /\ ator \in Redes => dto.d = ator /\ dto.seller = Nulo
    /\ ator = Publico => dto.v = Nulo /\ dto.d = Nulo

\* The pair was read of the body, and its network of the seller, then.
ParServe(ator, dto, par) ==
    /\ ator \in VendedoresDaLoja => par.v = ator
    /\ ator \in Redes => par.d = ator
    /\ ator = Publico =>
           IF dto.seller = Nulo THEN par = O!Orfao
           ELSE par.v = dto.seller[2] \/ par = [v |-> Nulo, d |-> dto.seller[2]]
DaRede(ator, dto, par) ==
    par.v # Nulo /\ ~(ator = Admin /\ dto.v # Nulo /\ dto.d # Nulo) => par.d = redeDaCompra[par.v]

CompraServe ==
    /\ compra \in Compra
    /\ CorpoServe(compra.ator, compra.dto)
    /\ compra.passo \in {"lida", "vinculada", "criada"} =>
           /\ ParServe(compra.ator, compra.dto, compra.par)
           /\ compra.rede \/ DaRede(compra.ator, compra.dto, compra.par)
    /\ compra.passo \in {"vinculada", "criada"} =>
           compra.vinculo \/ compra.par = O!Orfao \/ vinculoDaCompra = compra.par
    /\ compra.passo \in {"pedida", "vendedor recusado"} =>
           compra.vinculo \/ vinculoDaCompra = compra.antes

CompraInv ==
    /\ redeDaCompra \in [VendedoresDaLoja -> Redes]
    /\ vinculoDaCompra \in O!Pares \cup {Nulo}
    /\ compra # Nulo => CompraServe
LEMMA CompraInicia == ASSUME O!Init PROVE CompraInv
<1>1. redeDaCompra \in [VendedoresDaLoja -> Redes] /\ compra = Nulo
  BY DEF O!Init
<1>2. vinculoDaCompra \in O!Pares \cup {Nulo}
  BY <1>1 DEF O!Init, O!Pares, O!Orfao
<1> QED
  BY <1>1, <1>2 DEF CompraInv

\* The body that a controller lets through, with the token applied.
LEMMA CorpoAplicado ==
    ASSUME NEW ator \in O!Atores, NEW corpo \in O!Corpos
    PROVE  /\ O!AplicarVinculoDoToken(ator, corpo) \in O!Corpos
           /\ CorpoServe(ator, O!AplicarVinculoDoToken(ator, corpo))
<1>1. CASE ator \in VendedoresDaLoja
  BY <1>1, RedesAssumption DEF O!AplicarVinculoDoToken, O!Corpos, CorpoServe
<1>2. CASE ator \in Redes
  <2>1. O!AplicarVinculoDoToken(ator, corpo) = [corpo EXCEPT !.d = ator, !.seller = Nulo]
    BY <1>2, RedesAssumption DEF O!AplicarVinculoDoToken
  <2> QED
    BY <2>1, <1>2, RedesAssumption DEF O!Corpos, CorpoServe
<1>3. CASE ator = Publico
  <2>1. O!AplicarVinculoDoToken(ator, corpo) = [corpo EXCEPT !.v = Nulo, !.d = Nulo]
    BY <1>3, RedesAssumption DEF O!AplicarVinculoDoToken
  <2> QED
    BY <2>1, <1>3, RedesAssumption DEF O!Corpos, CorpoServe
<1>4. CASE ator = Admin
  <2>1. O!AplicarVinculoDoToken(ator, corpo) = corpo
    BY <1>4, RedesAssumption DEF O!AplicarVinculoDoToken
  <2> QED
    BY <2>1, <1>4, RedesAssumption DEF CorpoServe
<1> QED
  BY <1>1, <1>2, <1>3, <1>4 DEF O!Atores

\* A link of a shop gives its owner and the network of the owner.
LEMMA SellerServe ==
    ASSUME redeDaCompra \in [VendedoresDaLoja -> Redes], NEW s \in O!Sellers \cup {Nulo, Estranho}
    PROVE  \/ s # Nulo /\ O!ResolverSeller(s) = O!Recusa
           \/ s = Nulo /\ O!ResolverSeller(s) = O!Orfao
           \/ /\ s # Nulo /\ s[2] \in VendedoresDaLoja
              /\ O!ResolverSeller(s) = [v |-> s[2], d |-> redeDaCompra[s[2]]]
           \/ /\ s # Nulo /\ s[2] \in Redes
              /\ O!ResolverSeller(s) = [v |-> Nulo, d |-> s[2]]
<1>1. CASE s = Nulo
  BY <1>1, RedesAssumption DEF O!ResolverSeller
<1>2. CASE s # Nulo /\ s = Estranho
  BY <1>2 DEF O!ResolverSeller
<1>3. CASE s # Nulo /\ s # Estranho
  <2>1. s[2] \in VendedoresDaLoja \cup Redes
    BY <1>3 DEF O!Sellers
  <2>2. O!ResolverSeller(s) = IF s[2] \in VendedoresDaLoja THEN [v |-> s[2], d |-> redeDaCompra[s[2]]]
                              ELSE [v |-> Nulo, d |-> s[2]]
    BY <1>3 DEF O!ResolverSeller
  <2> QED
    BY <2>1, <2>2, <1>3
<1> QED
  BY <1>1, <1>2, <1>3

\* What the panel takes of the body.
LEMMA DoCorpoServe ==
    ASSUME redeDaCompra \in [VendedoresDaLoja -> Redes], NEW ator \in O!Atores,
           NEW dto \in O!Corpos, CorpoServe(ator, dto), ator # Publico,
           NEW par, par = O!DoCorpo(ator, dto), par # O!Recusa
    PROVE  par \in O!Pares /\ ParServe(ator, dto, par) /\ DaRede(ator, dto, par)
<1>1. /\ dto.v \in VendedoresDaLoja \cup {Nulo, Estranho} /\ dto.d \in Redes \cup {Nulo}
      /\ dto.v # Estranho
      /\ ator \in Redes /\ dto.v # Nulo => redeDaCompra[dto.v] = ator
      /\ par = [v |-> dto.v, d |-> IF dto.v # Nulo /\ dto.d = Nulo THEN redeDaCompra[dto.v] ELSE dto.d]
  BY DEF O!Corpos, O!DoCorpo
<1>2. par.v = dto.v /\ par.d = IF dto.v # Nulo /\ dto.d = Nulo THEN redeDaCompra[dto.v] ELSE dto.d
  BY <1>1
<1>3. par \in O!Pares
  BY <1>1 DEF O!Pares
<1>4. ParServe(ator, dto, par)
  BY <1>1, <1>2, RedesAssumption DEF ParServe, CorpoServe
<1>5. DaRede(ator, dto, par)
  BY <1>1, <1>2, RedesAssumption DEF DaRede, CorpoServe, O!Atores
<1> QED
  BY <1>3, <1>4, <1>5

LEMMA DoSellerServe ==
    ASSUME redeDaCompra \in [VendedoresDaLoja -> Redes], NEW ator \in O!Atores,
           NEW dto \in O!Corpos, CorpoServe(ator, dto), ator \in {Publico, Admin},
           NEW par, par = O!ResolverSeller(dto.seller), par # O!Recusa
    PROVE  par \in O!Pares /\ ParServe(ator, dto, par) /\ DaRede(ator, dto, par)
<1>1. dto.seller \in O!Sellers \cup {Nulo, Estranho}
  BY DEF O!Corpos
<1>2. CASE dto.seller = Nulo /\ par = O!Orfao
  BY <1>2, RedesAssumption DEF O!Orfao, O!Pares, ParServe, DaRede
<1>3. CASE /\ dto.seller # Nulo /\ dto.seller[2] \in VendedoresDaLoja
           /\ par = [v |-> dto.seller[2], d |-> redeDaCompra[dto.seller[2]]]
  <2>1. par.v = dto.seller[2] /\ par.d = redeDaCompra[par.v] /\ par \in O!Pares
    BY <1>3 DEF O!Pares
  <2> QED
    BY <2>1, <1>3, RedesAssumption DEF ParServe, DaRede
<1>4. CASE /\ dto.seller # Nulo /\ dto.seller[2] \in Redes
           /\ par = [v |-> Nulo, d |-> dto.seller[2]]
  <2>1. par.v = Nulo /\ par \in O!Pares
    BY <1>4 DEF O!Pares
  <2> QED
    BY <2>1, <1>4, RedesAssumption DEF ParServe, DaRede
<1> QED
  BY <1>1, <1>2, <1>3, <1>4, SellerServe

LEMMA OrigemServe ==
    ASSUME redeDaCompra \in [VendedoresDaLoja -> Redes], NEW produto \in O!Produtos,
           NEW ator \in O!Atores, NEW dto \in O!Corpos, CorpoServe(ator, dto),
           NEW par, par = O!Origem(produto, ator, dto), par # O!Recusa
    PROVE  par \in O!Pares /\ ParServe(ator, dto, par) /\ DaRede(ator, dto, par)
<1>1. CASE ator # Publico /\ par = O!DoCorpo(ator, dto)
  BY <1>1, DoCorpoServe
<1>2. CASE ator \in {Publico, Admin} /\ par = O!ResolverSeller(dto.seller)
  BY <1>2, DoSellerServe
<1>3. ator \in Redes \cup VendedoresDaLoja => ~(dto.v = Nulo /\ dto.d = Nulo) /\ ator # Publico
  BY RedesAssumption DEF CorpoServe
<1>4. CASE produto = "premios"
  BY <1>1, <1>2, <1>4 DEF O!Origem, O!OrigemPremios
<1>5. CASE produto # "premios"
  <2>1. O!ResolverSeller(dto.seller) # O!Recusa
    BY <1>5 DEF O!Origem, O!OrigemSena, O!SellerDaSena
  <2>2. par = IF dto.v = Nulo /\ dto.d = Nulo THEN O!ResolverSeller(dto.seller) ELSE O!DoCorpo(ator, dto)
    BY <2>1, <1>5 DEF O!Origem, O!OrigemSena, O!SellerDaSena
  <2>3. ator = Publico => dto.v = Nulo /\ dto.d = Nulo
    BY DEF CorpoServe
  <2> QED
    BY <2>2, <2>3, <1>1, <1>2, <1>3 DEF O!Atores
<1> QED
  BY <1>4, <1>5

LEMMA ConcordaNosDois ==
    ASSUME redeDaCompra \in [VendedoresDaLoja -> Redes], NEW ator \in O!Atores,
           NEW dto \in O!Corpos, CorpoServe(ator, dto), ator = Publico \/ dto.seller = Nulo
    PROVE  O!OrigemPremios(ator, dto) = O!OrigemSena(ator, dto)
<1>1. CASE ator = Publico
  BY <1>1 DEF O!OrigemPremios, O!OrigemSena, O!SellerDaSena, CorpoServe
<1>2. CASE ator # Publico
  <2>1. O!ResolverSeller(dto.seller) = O!Orfao
    <3>1. dto.seller = Nulo /\ dto.seller \in O!Sellers \cup {Nulo, Estranho}
      BY <1>2 DEF O!Corpos
    <3> QED
      BY <3>1, SellerServe
  <2>2. O!Orfao # O!Recusa
    <3>1. O!Orfao.v = Nulo /\ O!Recusa.v = Estranho
      BY DEF O!Orfao, O!Recusa
    <3> QED
      BY <3>1, RedesAssumption
  <2>3. ASSUME dto.v = Nulo, dto.d = Nulo
        PROVE  O!DoCorpo(ator, dto) = O!Orfao
    BY <2>3, RedesAssumption DEF O!DoCorpo, O!Orfao
  <2>4. O!OrigemPremios(ator, dto) = O!DoCorpo(ator, dto)
    BY <1>2 DEF O!OrigemPremios
  <2>5. O!OrigemSena(ator, dto) = IF dto.v = Nulo /\ dto.d = Nulo THEN O!Orfao ELSE O!DoCorpo(ator, dto)
    BY <2>1, <2>2 DEF O!OrigemSena, O!SellerDaSena
  <2> QED
    BY <2>3, <2>4, <2>5
<1> QED
  BY <1>1, <1>2

LEMMA CompraRecebe ==
    ASSUME CompraInv, NEW produto \in O!Produtos, NEW ator \in O!Atores, NEW corpo \in O!Corpos,
           O!Receber(produto, ator, corpo)
    PROVE  CompraInv'
<1> DEFINE dto == O!AplicarVinculoDoToken(ator, corpo)
           c == [passo |-> "pedida", produto |-> produto, ator |-> ator, dto |-> dto, par |-> O!Orfao,
                 antes |-> vinculoDaCompra, rede |-> FALSE, vinculo |-> FALSE]
<1>1. dto \in O!Corpos /\ CorpoServe(ator, dto)
  BY CorpoAplicado
<1>2. compra' = c /\ UNCHANGED <<redeDaCompra, vinculoDaCompra>>
  BY DEF O!Receber
<1> HIDE DEF dto
<1>3. c \in Compra
  <2>1. O!Orfao \in O!Pares /\ vinculoDaCompra \in O!Pares \cup {Nulo}
    BY DEF O!Orfao, O!Pares, CompraInv
  <2> QED
    BY <1>1, <2>1 DEF Compra
<1>4. c.ator = ator /\ c.dto = dto /\ c.passo = "pedida" /\ c.antes = vinculoDaCompra
  OBVIOUS
<1> HIDE DEF c
<1>5. CompraServe'
  BY <1>1, <1>2, <1>3, <1>4 DEF CompraServe, CorpoServe
<1> QED
  BY <1>2, <1>5 DEF CompraInv

LEMMA CompraLe ==
    ASSUME CompraInv, O!LerOrigem
    PROVE  CompraInv'
<1> DEFINE par == O!Origem(compra.produto, compra.ator, compra.dto)
<1>1. compra # Nulo /\ compra.passo = "pedida" /\ compra \in Compra /\ CorpoServe(compra.ator, compra.dto)
  BY DEF CompraInv, CompraServe, O!LerOrigem
<1>2. /\ UNCHANGED <<redeDaCompra, vinculoDaCompra>>
      /\ compra.vinculo \/ vinculoDaCompra = compra.antes
  BY <1>1 DEF O!LerOrigem, CompraInv, CompraServe
<1>3. CASE par = O!Recusa
  <2> DEFINE c == [compra EXCEPT !.passo = "vendedor recusado"]
  <2>1. compra' = c
    BY <1>3 DEF O!LerOrigem
  <2>2. /\ c \in Compra /\ c.ator = compra.ator /\ c.dto = compra.dto /\ c.passo = "vendedor recusado"
        /\ c.vinculo = compra.vinculo /\ c.antes = compra.antes
    BY <1>1 DEF Compra
  <2> HIDE DEF c
  <2>3. CompraServe'
    BY <1>1, <1>2, <2>1, <2>2 DEF CompraServe, CorpoServe
  <2> QED
    BY <2>3, <1>2 DEF CompraInv, O!Pares
<1>4. CASE par # O!Recusa
  <2> DEFINE c == [compra EXCEPT !.passo = "lida", !.par = par]
  <2>1. compra' = c
    BY <1>4 DEF O!LerOrigem
  <2>2. par \in O!Pares /\ ParServe(compra.ator, compra.dto, par) /\ DaRede(compra.ator, compra.dto, par)
    <3>1. /\ compra.produto \in O!Produtos /\ compra.ator \in O!Atores /\ compra.dto \in O!Corpos
          /\ redeDaCompra \in [VendedoresDaLoja -> Redes]
      BY <1>1 DEF Compra, CompraInv
    <3> QED
      BY <3>1, <1>1, <1>4, OrigemServe
  <2> HIDE DEF par
  <2>3. /\ c \in Compra /\ c.ator = compra.ator /\ c.dto = compra.dto /\ c.passo = "lida"
        /\ c.vinculo = compra.vinculo /\ c.antes = compra.antes /\ c.par = par
    BY <1>1, <2>2 DEF Compra
  <2> HIDE DEF c
  <2>4. CompraServe'
    BY <1>1, <1>2, <2>1, <2>2, <2>3 DEF CompraServe, CorpoServe, ParServe, DaRede
  <2> QED
    BY <2>4, <1>2 DEF CompraInv, O!Pares
<1> QED
  BY <1>3, <1>4

\* A purchase that only moves on.
LEMMA CompraPassa ==
    ASSUME CompraInv, compra # Nulo, UNCHANGED redeDaCompra,
           NEW passo \in {"vinculada", "criada", "recusada"}, compra' = [compra EXCEPT !.passo = passo],
           vinculoDaCompra' \in O!Pares \cup {Nulo},
           compra.passo \in {"lida", "vinculada"},
           passo # "recusada" => \/ compra.vinculo \/ compra.par = O!Orfao
                                 \/ vinculoDaCompra' = compra.par
    PROVE  CompraInv'
<1> DEFINE c == [compra EXCEPT !.passo = passo]
<1>1. /\ c \in Compra /\ c.ator = compra.ator /\ c.dto = compra.dto /\ c.passo = passo
      /\ c.vinculo = compra.vinculo /\ c.par = compra.par /\ c.rede = compra.rede
  BY DEF Compra, CompraInv, CompraServe
<1> HIDE DEF c
<1>2. compra' = c
  BY DEF c
<1>3. CorpoServe(c.ator, c.dto) /\ ParServe(c.ator, c.dto, c.par)
  BY <1>1 DEF CompraInv, CompraServe
<1>4. c.rede \/ DaRede(c.ator, c.dto, c.par)
  BY <1>1 DEF CompraInv, CompraServe
<1>5. /\ CorpoServe(compra.ator, compra.dto)'
      /\ ParServe(compra.ator, compra.dto, compra.par)'
      /\ compra'.rede \/ DaRede(compra.ator, compra.dto, compra.par)'
  BY <1>2, <1>3, <1>4 DEF CorpoServe, ParServe, DaRede, O!Orfao
<1>6. CompraServe'
  <2>1. compra' \in Compra /\ compra'.passo = passo
    BY <1>1, <1>2
  <2>2. passo # "recusada" =>
            compra'.vinculo \/ compra'.par = O!Orfao \/ vinculoDaCompra' = compra'.par
    BY <1>1, <1>2
  <2> QED
    BY <2>1, <2>2, <1>5 DEF CompraServe, O!Orfao
<1> QED
  BY <1>6 DEF CompraInv, O!Pares

LEMMA CompraTransfere ==
    ASSUME CompraInv, NEW v \in VendedoresDaLoja, NEW d \in Redes, O!Transferir(v, d)
    PROVE  CompraInv'
<1> DEFINE c == [compra EXCEPT !.rede = TRUE]
<1>1. redeDaCompra' \in [VendedoresDaLoja -> Redes] /\ UNCHANGED vinculoDaCompra
  BY DEF CompraInv, O!Transferir
<1>2. CASE compra = Nulo
  BY <1>1, <1>2 DEF CompraInv, O!Transferir
<1>3. CASE compra # Nulo
  <2>1. /\ c \in Compra /\ c.ator = compra.ator /\ c.dto = compra.dto /\ c.passo = compra.passo
        /\ c.vinculo = compra.vinculo /\ c.par = compra.par /\ c.rede /\ c.antes = compra.antes
    BY <1>3 DEF Compra, CompraInv, CompraServe
  <2> HIDE DEF c
  <2>2. compra' = c
    BY <1>3 DEF O!Transferir, c
  <2>3. CompraServe'
    BY <2>1, <2>2, <1>1, <1>3 DEF CompraInv, CompraServe, CorpoServe, ParServe, O!Orfao
  <2> QED
    BY <2>3, <1>1 DEF CompraInv
<1> QED
  BY <1>2, <1>3

LEMMA CompraOutra ==
    ASSUME CompraInv, NEW par \in O!Pares, O!OutroVinculo(par)
    PROVE  CompraInv'
<1> DEFINE c == [compra EXCEPT !.vinculo = TRUE]
<1>1. vinculoDaCompra' = par /\ UNCHANGED redeDaCompra /\ compra # Nulo
  BY DEF O!OutroVinculo
<1>2. /\ c \in Compra /\ c.ator = compra.ator /\ c.dto = compra.dto /\ c.passo = compra.passo
      /\ c.vinculo /\ c.par = compra.par /\ c.rede = compra.rede
  BY <1>1 DEF Compra, CompraInv, CompraServe
<1> HIDE DEF c
<1>3. compra' = c
  BY DEF O!OutroVinculo, c
<1>4. CompraServe'
  BY <1>1, <1>2, <1>3 DEF CompraInv, CompraServe, CorpoServe, ParServe, DaRede, O!Orfao
<1> QED
  BY <1>1, <1>4 DEF CompraInv, O!Pares

LEMMA CompraSegue == ASSUME CompraInv, O!Next PROVE CompraInv'
<1>1. ASSUME NEW produto \in O!Produtos, NEW ator \in O!Atores, NEW corpo \in O!Corpos,
             O!Receber(produto, ator, corpo)
      PROVE  CompraInv'
  BY <1>1, CompraRecebe
<1>2. CASE O!LerOrigem
  BY <1>2, CompraLe
<1>3. CASE O!RecusarCliente \/ O!RecusarDepois
  BY <1>3, CompraPassa DEF O!RecusarCliente, O!RecusarDepois, CompraInv
<1>4. CASE O!GravarVinculo
  <2>1. compra # Nulo /\ compra.par \in O!Pares
    BY <1>4 DEF O!GravarVinculo, CompraInv, CompraServe, Compra
  <2>2. /\ vinculoDaCompra' \in O!Pares \cup {Nulo}
        /\ compra.par = O!Orfao \/ vinculoDaCompra' = compra.par
    BY <2>1, <1>4 DEF O!GravarVinculo, O!VinculoDaCompra, CompraInv
  <2> QED
    BY <2>1, <2>2, <1>4, CompraPassa DEF O!GravarVinculo
<1>5. CASE O!CriarVenda
  BY <1>5, CompraPassa DEF O!CriarVenda, CompraInv, CompraServe
<1>6. CASE O!Terminar
  BY <1>6 DEF O!Terminar, CompraInv, O!Pares
<1>7. ASSUME NEW v \in VendedoresDaLoja, NEW d \in Redes, O!Transferir(v, d)
      PROVE  CompraInv'
  BY <1>7, CompraTransfere
<1>8. ASSUME NEW v \in VendedoresDaLoja, O!OutroVinculo([v |-> v, d |-> redeDaCompra[v]])
      PROVE  CompraInv'
  <2>1. [v |-> v, d |-> redeDaCompra[v]] \in O!Pares
    BY DEF CompraInv, O!Pares
  <2> QED
    BY <2>1, <1>8, CompraOutra
<1> QED
  BY <1>1, <1>2, <1>3, <1>4, <1>5, <1>6, <1>7, <1>8 DEF O!Next

LEMMA CompraPromete == CompraInv => CreditoTemOrigem
<1> SUFFICES ASSUME CompraInv PROVE CreditoTemOrigem
  OBVIOUS
<1>1. O!TypeOK
  BY DEF CompraInv, CompraServe, Compra, O!TypeOK
<1>2. O!CreditaQuemVendeu
  BY DEF CompraInv, CompraServe, ParServe, O!CreditaQuemVendeu, O!Criada
<1>3. O!RedeDoVendedor
  BY DEF CompraInv, CompraServe, DaRede, O!RedeDoVendedor, O!Criada
<1>4. O!ProdutosConcordam
  <2> SUFFICES ASSUME compra # Nulo, compra.passo = "pedida",
                      compra.ator = Publico \/ compra.dto.seller = Nulo
               PROVE  O!OrigemPremios(compra.ator, compra.dto) = O!OrigemSena(compra.ator, compra.dto)
    BY DEF O!ProdutosConcordam
  <2>1. /\ compra.ator \in O!Atores /\ compra.dto \in O!Corpos /\ CorpoServe(compra.ator, compra.dto)
        /\ redeDaCompra \in [VendedoresDaLoja -> Redes]
    BY DEF CompraInv, CompraServe, Compra
  <2> QED
    BY <2>1, ConcordaNosDois
<1>5. O!ClienteSegueVenda /\ O!RecusadoSemRastro
  BY DEF CompraInv, CompraServe, O!ClienteSegueVenda, O!RecusadoSemRastro, O!Criada
<1> QED
  BY <1>1, <1>2, <1>3, <1>4, <1>5 DEF CreditoTemOrigem

-------------------------------------------------------------------------------
(* The link and its image. *)
LinksDe(p) == {K!LinkDe(p, n) : n \in Nomes}
TodosLinks == LinksDe("premios") \cup LinksDe("sena") \cup {K!Avulso, Nulo}
Geracao == [passo : {"livre", "enviar", "gravar"}, produto : K!Produtos \cup {Nulo},
            link : TodosLinks, so : BOOLEAN]

\* A generation carries a link of its product; it has an image from the upload on, and alone
\* the one it drew.  Who is not alone is told in desvio.
GeracaoServe(r) ==
    /\ geracao[r].passo = "livre" => geracao[r].produto = Nulo
    /\ geracao[r].passo # "livre" =>
           /\ geracao[r].produto \in K!Produtos /\ geracao[r].link \in LinksDe(geracao[r].produto)
           /\ geracao[r].so \/ geracao[r].produto \in desvio
           /\ geracao[r].so => \A o \in Pedidos \ {r} : geracao[o].produto # geracao[r].produto
    /\ geracao[r].passo = "gravar" =>
           /\ imagem[geracao[r].produto] # Nulo
           /\ geracao[r].so => imagem[geracao[r].produto] = geracao[r].link

Desenhada(p) ==
    \/ p \in desvio \/ ~link[p].qrcode \/ link[p].link = Nulo \/ imagem[p] = link[p].link
    \/ \E r \in Pedidos : geracao[r].passo = "gravar" /\ geracao[r].produto = p

LinkInv ==
    /\ nome \in Nomes /\ desvio \subseteq K!Produtos
    /\ link \in [K!Produtos -> [link : TodosLinks, qrcode : BOOLEAN]]
    /\ imagem \in [K!Produtos -> TodosLinks]
    /\ geracao \in [Pedidos -> Geracao]
    /\ \A r \in Pedidos : geracao[r].passo = "livre" => geracao[r] = K!Livre
    /\ lista # Nulo => lista.nome \in Nomes
    /\ \A p \in K!Produtos :
         /\ imagem[p] \in LinksDe(p) \cup {Nulo}
         /\ link[p].qrcode => imagem[p] # Nulo
         /\ Desenhada(p)
    /\ \A r \in Pedidos : GeracaoServe(r)

LEMMA LinksSaoDeUm ==
    /\ Nulo \notin K!Produtos
    /\ \A p \in K!Produtos : \A l \in LinksDe(p) : l # Nulo /\ l.loja = p /\ l \in TodosLinks
    /\ \A p \in K!Produtos : \A n \in Nomes : K!LinkDe(p, n) \in LinksDe(p)
    /\ K!Avulso \in TodosLinks /\ Nulo \in TodosLinks
BY RedesAssumption DEF K!Produtos, LinksDe, TodosLinks, K!LinkDe

LEMMA LinkInicia == ASSUME K!Init PROVE LinkInv
<1>1. K!Livre \in Geracao /\ K!Livre.passo = "livre" /\ K!Livre.produto = Nulo
  BY LinksSaoDeUm DEF K!Livre, Geracao
<1>2. geracao \in [Pedidos -> Geracao] /\ \A r \in Pedidos : geracao[r] = K!Livre
  BY <1>1 DEF K!Init
<1>3. /\ link \in [K!Produtos -> [link : TodosLinks, qrcode : BOOLEAN]]
      /\ \A p \in K!Produtos : link[p].link = Nulo
  <2>1. ASSUME NEW p \in K!Produtos
        PROVE  link[p] \in [link : TodosLinks, qrcode : BOOLEAN] /\ link[p].link = Nulo
    <3>1. link[p] \in {[link |-> Nulo, qrcode |-> FALSE], [link |-> Nulo, qrcode |-> TRUE]}
      BY DEF K!Init
    <3>2. CASE link[p] = [link |-> Nulo, qrcode |-> FALSE]
      BY <3>2, LinksSaoDeUm
    <3>3. CASE link[p] = [link |-> Nulo, qrcode |-> TRUE]
      BY <3>3, LinksSaoDeUm
    <3> QED
      BY <3>1, <3>2, <3>3
  <2> QED
    BY <2>1 DEF K!Init
<1>4. \A p \in K!Produtos : /\ imagem[p] \in LinksDe(p) \cup {Nulo}
                            /\ link[p].qrcode => imagem[p] # Nulo
  BY LinksSaoDeUm DEF K!Init
<1>5. imagem \in [K!Produtos -> TodosLinks]
  BY <1>4, LinksSaoDeUm DEF K!Init
<1>6. \A p \in K!Produtos : Desenhada(p)
  BY <1>3 DEF Desenhada
<1>7. \A r \in Pedidos : GeracaoServe(r)
  BY <1>1, <1>2 DEF GeracaoServe
<1> QED
  BY <1>2, <1>3, <1>4, <1>5, <1>6, <1>7 DEF K!Init, LinkInv

LEMMA LinkGera ==
    ASSUME LinkInv, NEW r \in Pedidos, NEW p \in K!Produtos, K!Gerar(r, p)
    PROVE  LinkInv'
<1> DEFINE outros == {o \in Pedidos : geracao[o].produto = p}
           q == [passo |-> "enviar", produto |-> p, link |-> K!LinkDe(p, nome), so |-> outros = {}]
<1>1. /\ geracao[r] = K!Livre
      /\ geracao' = [o \in Pedidos |-> IF o = r THEN q
                        ELSE IF o \in outros THEN [geracao[o] EXCEPT !.so = FALSE] ELSE geracao[o]]
      /\ desvio' = IF outros # {} THEN desvio \cup {p} ELSE desvio
      /\ UNCHANGED <<nome, link, imagem, lista>>
  BY DEF K!Gerar
<1>2. K!LinkDe(p, nome) \in LinksDe(p) /\ K!LinkDe(p, nome) \in TodosLinks
  BY LinksSaoDeUm DEF LinkInv
<1>3. geracao'[r] = q /\ q \in Geracao
  BY <1>1, <1>2 DEF Geracao
<1>4. q.passo = "enviar" /\ q.produto = p /\ q.link = K!LinkDe(p, nome) /\ (q.so <=> outros = {})
  OBVIOUS
<1>5. ASSUME NEW o \in Pedidos, o # r
      PROVE  /\ geracao'[o] \in Geracao
             /\ geracao'[o].passo = geracao[o].passo /\ geracao'[o].produto = geracao[o].produto
             /\ geracao'[o].link = geracao[o].link
             /\ geracao'[o].so => geracao[o].so /\ o \notin outros
             /\ o \notin outros => geracao'[o] = geracao[o]
  <2>1. geracao[o] \in Geracao
    BY DEF LinkInv
  <2>2. geracao'[o] = IF o \in outros THEN [geracao[o] EXCEPT !.so = FALSE] ELSE geracao[o]
    BY <1>1, <1>5
  <2> HIDE DEF outros
  <2> QED
    BY <2>1, <2>2 DEF Geracao
<1>6. desvio \subseteq desvio' /\ desvio' \subseteq K!Produtos /\ (outros # {} => p \in desvio')
  BY <1>1 DEF LinkInv
<1>7. geracao[r].passo = "livre" /\ geracao[r].produto = Nulo
  BY <1>1 DEF K!Livre
<1>8. ASSUME NEW o \in Pedidos PROVE GeracaoServe(o)'
  <2>1. CASE o = r
    <3>1. ~q.so => p \in desvio'
      BY <1>4, <1>6
    <3>2. q.so => \A x \in Pedidos \ {r} : geracao'[x].produto # p
      BY <1>4, <1>5
    <3> HIDE DEF q
    <3>3. geracao[r]' = q
      BY <1>3
    <3> QED
      BY <2>1, <3>1, <3>2, <3>3, <1>2, <1>4 DEF GeracaoServe, LinksDe, K!Produtos, K!LinkDe
  <2>2. CASE o # r
    <3>0. GeracaoServe(o)
      BY DEF LinkInv
    <3>1. ASSUME geracao'[o].passo # "livre", geracao'[o].so, NEW x \in Pedidos \ {o}
          PROVE  geracao'[x].produto # geracao'[o].produto
      <4>1. geracao[o].produto # p
        BY <1>5, <2>2, <3>1
      <4>2. geracao[x].produto # geracao[o].produto
        BY <1>5, <2>2, <3>0, <3>1 DEF GeracaoServe
      <4>3. CASE x = r
        BY <4>1, <4>3, <1>3, <1>4, <1>5, <2>2
      <4>4. CASE x # r
        BY <4>2, <4>4, <1>5, <2>2
      <4> QED
        BY <4>3, <4>4
    <3>2. ASSUME geracao'[o].passo # "livre"
          PROVE  /\ geracao'[o].produto \in K!Produtos
                 /\ geracao'[o].link \in LinksDe(geracao'[o].produto)
                 /\ geracao'[o].so \/ geracao'[o].produto \in desvio'
      <4>1. CASE o \in outros
        BY <4>1, <3>0, <3>2, <1>5, <1>6, <2>2 DEF GeracaoServe
      <4>2. CASE o \notin outros
        BY <4>2, <3>0, <3>2, <1>5, <1>6, <2>2 DEF GeracaoServe
      <4> QED
        BY <4>1, <4>2
    <3>3. geracao'[o].passo = "livre" => geracao'[o].produto = Nulo
      BY <3>0, <1>5, <2>2 DEF GeracaoServe
    <3>4. ASSUME geracao'[o].passo = "gravar"
          PROVE  /\ imagem[geracao'[o].produto] # Nulo
                 /\ geracao'[o].so => imagem[geracao'[o].produto] = geracao'[o].link
      BY <3>0, <3>4, <1>5, <2>2 DEF GeracaoServe
    <3> QED
      BY <3>1, <3>2, <3>3, <3>4, <1>1 DEF GeracaoServe, LinksDe, K!Produtos, K!LinkDe
  <2> QED
    BY <2>1, <2>2
<1>9. ASSUME NEW x \in K!Produtos PROVE Desenhada(x)'
  <2>1. Desenhada(x)
    BY DEF LinkInv
  <2>2. ASSUME NEW o \in Pedidos, geracao[o].passo = "gravar", geracao[o].produto = x
        PROVE  geracao'[o].passo = "gravar" /\ geracao'[o].produto = x
    BY <2>2, <1>5, <1>7
  <2> QED
    BY <2>1, <2>2, <1>1, <1>6 DEF Desenhada
<1>10. geracao' \in [Pedidos -> Geracao]
  BY <1>1, <1>3, <1>5
<1>11. ASSUME NEW o \in Pedidos, geracao'[o].passo = "livre" PROVE geracao'[o] = K!Livre
  <2>1. o # r
    BY <1>3, <1>4, <1>11
  <2>2. geracao[o] = K!Livre /\ geracao[o].produto # p
    BY <2>1, <1>5, <1>11, LinksSaoDeUm DEF LinkInv, GeracaoServe
  <2> QED
    BY <2>1, <2>2, <1>5
<1> QED
  BY <1>1, <1>6, <1>8, <1>9, <1>10, <1>11 DEF LinkInv, K!Livre, LinksDe, TodosLinks, K!Produtos, K!LinkDe, K!Avulso

\* A generation that moves on or ends, with what it does to its product.
LEMMA LinkAnda ==
    ASSUME LinkInv, NEW r \in Pedidos, geracao[r].passo # "livre",
           NEW p \in K!Produtos, p = geracao[r].produto, NEW g \in Geracao,
           geracao' = [geracao EXCEPT ![r] = g], UNCHANGED <<nome, lista>>,
           g = K!Livre \/ (g.produto = p /\ g.link = geracao[r].link
                             /\ g.so = geracao[r].so /\ g.passo = "gravar"),
           desvio' \subseteq K!Produtos,
           \A x \in K!Produtos \ {p} :
               /\ x \in desvio <=> x \in desvio'
               /\ link'[x] = link[x] /\ imagem'[x] = imagem[x],
           link' \in [K!Produtos -> [link : TodosLinks, qrcode : BOOLEAN]],
           imagem' \in [K!Produtos -> TodosLinks],
           imagem'[p] \in LinksDe(p) \cup {Nulo},
           imagem[p] # Nulo => imagem'[p] # Nulo,
           link'[p].qrcode => imagem'[p] # Nulo,
           p \in desvio \ desvio' => geracao[r].so,
           g # K!Livre => /\ imagem'[p] = geracao[r].link
                          /\ desvio' = desvio,
           g = K!Livre => /\ imagem' = imagem
                          /\ Desenhada(p)'
    PROVE  LinkInv'
<1>1. /\ p \in K!Produtos /\ geracao[r].link \in LinksDe(p) /\ GeracaoServe(r)
      /\ geracao[r].so \/ p \in desvio
  BY DEF LinkInv, GeracaoServe
<1>2. K!Livre.passo = "livre" /\ K!Livre.produto = Nulo
  BY DEF K!Livre
<1>3. geracao' \in [Pedidos -> Geracao] /\ geracao'[r] = g
  BY DEF LinkInv
<1>4. \A o \in Pedidos \ {r} : geracao'[o] = geracao[o]
  BY DEF LinkInv
<1>5. ASSUME NEW o \in Pedidos PROVE GeracaoServe(o)'
  <2>1. CASE o = r /\ g = K!Livre
    BY <2>1, <1>2, <1>3 DEF GeracaoServe
  <2>2. CASE o = r /\ g # K!Livre
    <3>1. g.passo = "gravar" /\ g.produto = p /\ g.link = geracao[r].link /\ g.so = geracao[r].so
      BY <2>2
    <3>2. imagem'[p] = g.link /\ imagem'[p] # Nulo
      BY <2>2, <3>1, <1>1, LinksSaoDeUm
    <3>3. g.so => \A x \in Pedidos \ {r} : geracao'[x].produto # p
      BY <3>1, <1>1, <1>4 DEF GeracaoServe
    <3>4. g.so \/ p \in desvio'
      BY <3>1, <2>2, <1>1
    <3>5. g.link \in LinksDe(p)
      BY <3>1, <1>1
    <3>6. geracao[r]' = g
      BY <1>3
    <3> QED
      BY <2>2, <3>1, <3>2, <3>3, <3>4, <3>5, <3>6, <1>1 DEF GeracaoServe, LinksDe, K!Produtos, K!LinkDe
  <2>3. CASE o # r
    <3>0. GeracaoServe(o) /\ geracao'[o] = geracao[o]
      BY <2>3, <1>4 DEF LinkInv
    <3>1. ASSUME geracao[o].passo # "livre"
          PROVE  /\ geracao[o].produto \in K!Produtos
                 /\ geracao[o].link \in LinksDe(geracao[o].produto)
                 /\ geracao[o].so \/ geracao[o].produto \in desvio'
      <4>1. geracao[o].so \/ geracao[o].produto \in desvio
        BY <3>0, <3>1 DEF GeracaoServe
      <4>2. geracao[r].so => geracao[o].produto # p
        BY <1>1, <2>3 DEF GeracaoServe
      <4>3. geracao[o].produto \in K!Produtos /\ geracao[o].link \in LinksDe(geracao[o].produto)
        BY <3>0, <3>1 DEF GeracaoServe
      <4>4. (geracao[o].produto \in desvio <=> geracao[o].produto \in desvio') \/ geracao[o].produto = p
        BY <4>3
      <4>5. p \in desvio /\ ~geracao[r].so => p \in desvio'
        OBVIOUS
      <4> QED
        BY <4>1, <4>2, <4>3, <4>4, <4>5
    <3>2. ASSUME geracao[o].passo # "livre", geracao[o].so, NEW x \in Pedidos \ {o}
          PROVE  geracao'[x].produto # geracao[o].produto
      <4>1. geracao[x].produto # geracao[o].produto /\ geracao[o].produto \in K!Produtos
        BY <3>0, <3>2 DEF GeracaoServe
      <4>2. geracao'[x].produto \in {geracao[x].produto, Nulo}
        BY <1>2, <1>3, <1>4
      <4> QED
        BY <4>1, <4>2, LinksSaoDeUm
    <3>3. ASSUME geracao[o].passo = "gravar"
          PROVE  /\ imagem'[geracao[o].produto] # Nulo
                 /\ geracao[o].so => imagem'[geracao[o].produto] = geracao[o].link
      <4>1. /\ imagem[geracao[o].produto] # Nulo /\ geracao[o].produto \in K!Produtos
            /\ geracao[o].so => imagem[geracao[o].produto] = geracao[o].link
        BY <3>0, <3>3 DEF GeracaoServe
      <4>2. CASE geracao[o].produto = p
        <5>1. ~geracao[o].so
          BY <3>0, <3>3, <4>2, <2>3 DEF GeracaoServe
        <5> QED
          BY <5>1, <4>1, <4>2
      <4>3. CASE geracao[o].produto # p
        BY <4>1, <4>3
      <4> QED
        BY <4>2, <4>3
    <3>4. geracao[o].passo = "livre" => geracao[o].produto = Nulo
      BY <3>0 DEF GeracaoServe
    <3> QED
      BY <3>0, <3>1, <3>2, <3>3, <3>4 DEF GeracaoServe, LinksDe, K!Produtos, K!LinkDe
  <2> QED
    BY <2>1, <2>2, <2>3
<1>6. ASSUME NEW x \in K!Produtos PROVE Desenhada(x)'
  <2>0. Desenhada(x)
    BY DEF LinkInv
  <2>1. CASE x # p
    <3>1. ASSUME NEW o \in Pedidos, geracao[o].passo = "gravar", geracao[o].produto = x
          PROVE  geracao'[o].passo = "gravar" /\ geracao'[o].produto = x
      BY <3>1, <2>1, <1>4
    <3> QED
      BY <2>0, <2>1, <3>1 DEF Desenhada
  <2>2. CASE x = p /\ g = K!Livre
    BY <2>2
  <2>3. CASE x = p /\ g # K!Livre
    <3>1. geracao'[r].passo = "gravar" /\ geracao'[r].produto = x
      BY <2>3, <1>3
    <3> QED
      BY <3>1 DEF Desenhada
  <2> QED
    BY <2>1, <2>2, <2>3
<1>7. ASSUME NEW x \in K!Produtos
      PROVE  /\ imagem'[x] \in LinksDe(x) \cup {Nulo}
             /\ link'[x].qrcode => imagem'[x] # Nulo
  <2>1. CASE x = p
    BY <2>1
  <2>2. CASE x # p
    BY <2>2 DEF LinkInv
  <2> QED
    BY <2>1, <2>2
<1>8. \A o \in Pedidos : geracao'[o].passo = "livre" => geracao'[o] = K!Livre
  BY <1>3, <1>4 DEF LinkInv
<1> QED
  BY <1>3, <1>5, <1>6, <1>7, <1>8 DEF LinkInv, K!Livre, LinksDe, TodosLinks, K!Produtos, K!LinkDe, K!Avulso

LEMMA LinkEnvia == ASSUME LinkInv, NEW r \in Pedidos, K!Enviar(r) PROVE LinkInv'
<1> DEFINE p == geracao[r].produto
           g == [geracao[r] EXCEPT !.passo = "gravar"]
<1>1. /\ geracao[r].passo = "enviar" /\ geracao[r] \in Geracao
      /\ p \in K!Produtos /\ geracao[r].link \in LinksDe(p)
  BY DEF K!Enviar, LinkInv, GeracaoServe
<1>2. /\ imagem' = [imagem EXCEPT ![p] = geracao[r].link] /\ geracao' = [geracao EXCEPT ![r] = g]
      /\ UNCHANGED <<nome, link, lista, desvio>>
  BY DEF K!Enviar
<1>3. /\ g \in Geracao /\ g.passo = "gravar" /\ g.produto = p /\ g.link = geracao[r].link
      /\ g.so = geracao[r].so /\ g # K!Livre
  <2>1. /\ g \in Geracao /\ g.passo = "gravar" /\ g.produto = p /\ g.link = geracao[r].link
        /\ g.so = geracao[r].so
    BY <1>1 DEF Geracao
  <2> QED
    BY <2>1 DEF K!Livre
<1>4. geracao[r].link \in TodosLinks /\ geracao[r].link # Nulo
  BY <1>1, LinksSaoDeUm
<1>5. /\ imagem' \in [K!Produtos -> TodosLinks] /\ imagem'[p] = geracao[r].link
      /\ \A x \in K!Produtos \ {p} : imagem'[x] = imagem[x]
  BY <1>1, <1>2, <1>4 DEF LinkInv
<1>6. link' \in [K!Produtos -> [link : TodosLinks, qrcode : BOOLEAN]] /\ desvio' \subseteq K!Produtos
  BY <1>2 DEF LinkInv
<1> HIDE DEF g
<1> QED
  BY <1>1, <1>2, <1>3, <1>4, <1>5, <1>6, LinkAnda

LEMMA LinkGrava == ASSUME LinkInv, NEW r \in Pedidos, K!GravarGerado(r) PROVE LinkInv'
<1>0. PICK p \in K!Produtos : p = geracao[r].produto
  BY DEF K!GravarGerado, LinkInv, GeracaoServe
<1> DEFINE l == [link |-> geracao[r].link, qrcode |-> TRUE]
<1>1. /\ geracao[r].passo = "gravar" /\ geracao[r] \in Geracao /\ p \in K!Produtos
      /\ geracao[r].link \in LinksDe(p) /\ imagem[p] # Nulo
      /\ geracao[r].so => imagem[p] = geracao[r].link
      /\ geracao[r].so \/ p \in desvio
  BY <1>0 DEF K!GravarGerado, LinkInv, GeracaoServe
<1>2. /\ link' = [link EXCEPT ![p] = l] /\ geracao' = [geracao EXCEPT ![r] = K!Livre]
      /\ desvio' = IF geracao[r].so THEN desvio \ {p} ELSE desvio
      /\ UNCHANGED <<nome, imagem, lista>>
  BY <1>0 DEF K!GravarGerado
<1>3. K!Livre \in Geracao
  BY LinksSaoDeUm DEF K!Livre, Geracao
<1>4. geracao[r].link \in TodosLinks
  BY <1>1, LinksSaoDeUm
<1>5. l \in [link : TodosLinks, qrcode : BOOLEAN] /\ l.link = geracao[r].link
  BY <1>4
<1> HIDE DEF l
<1>6. /\ link' \in [K!Produtos -> [link : TodosLinks, qrcode : BOOLEAN]] /\ link'[p] = l
      /\ \A x \in K!Produtos \ {p} : link'[x] = link[x]
  BY <1>1, <1>2, <1>5 DEF LinkInv
<1>7. desvio' \subseteq K!Produtos
  BY <1>2 DEF LinkInv
<1>8. Desenhada(p)'
  <2>1. geracao[r].so => imagem'[p] = link'[p].link
    BY <1>1, <1>2, <1>5, <1>6
  <2>2. ~geracao[r].so => p \in desvio'
    BY <1>1, <1>2
  <2>3. p \in desvio' \/ imagem'[p] = link'[p].link
    BY <2>1, <2>2
  <2> QED
    BY <2>3 DEF Desenhada
<1>9. imagem[p] \in LinksDe(p) \cup {Nulo} /\ imagem' \in [K!Produtos -> TodosLinks]
  BY <1>1, <1>2 DEF LinkInv
<1> QED
  BY <1>0, <1>1, <1>2, <1>3, <1>6, <1>7, <1>8, <1>9, LinkAnda

LEMMA LinkFalha == ASSUME LinkInv, NEW r \in Pedidos, K!Falhar(r) PROVE LinkInv'
<1>0. geracao[r].passo # "livre"
  BY DEF K!Falhar, LinkInv
<1>1. PICK p \in K!Produtos : p = geracao[r].produto
  BY <1>0 DEF LinkInv, GeracaoServe
<1>2. /\ geracao' = [geracao EXCEPT ![r] = K!Livre]
      /\ desvio' = IF geracao[r].passo = "gravar" THEN desvio \cup {p} ELSE desvio
      /\ UNCHANGED <<nome, link, imagem, lista>>
  BY <1>1 DEF K!Falhar
<1>3. K!Livre \in Geracao
  BY LinksSaoDeUm DEF K!Livre, Geracao
<1>4. K!Livre.passo = "livre"
  BY DEF K!Livre
<1>5. Desenhada(p)'
  <2>1. CASE geracao[r].passo = "gravar"
    BY <2>1, <1>2 DEF Desenhada
  <2>2. CASE geracao[r].passo # "gravar"
    <3>1. Desenhada(p)
      BY DEF LinkInv
    <3>2. ASSUME NEW o \in Pedidos, geracao[o].passo = "gravar", geracao[o].produto = p
          PROVE  geracao'[o].passo = "gravar" /\ geracao'[o].produto = p
      BY <3>2, <2>2, <1>2 DEF LinkInv
    <3> QED
      BY <3>1, <3>2, <2>2, <1>2 DEF Desenhada
  <2> QED
    BY <2>1, <2>2
<1>6. /\ imagem[p] \in LinksDe(p) \cup {Nulo} /\ (link[p].qrcode => imagem[p] # Nulo)
      /\ imagem' \in [K!Produtos -> TodosLinks]
      /\ link' \in [K!Produtos -> [link : TodosLinks, qrcode : BOOLEAN]]
      /\ desvio' \subseteq K!Produtos
  BY <1>2 DEF LinkInv
<1> QED
  BY <1>0, <1>1, <1>2, <1>3, <1>5, <1>6, LinkAnda

\* What leaves the generations alone: one row gets a link, and its image is dropped or told in
\* desvio; or the name changes; or the script reads or ends.
LEMMA LinkMuda ==
    ASSUME LinkInv, UNCHANGED <<geracao, imagem>>, nome' \in Nomes,
           lista' # Nulo => lista'.nome \in Nomes,
           desvio \subseteq desvio', desvio' \subseteq K!Produtos,
           link' \in [K!Produtos -> [link : TodosLinks, qrcode : BOOLEAN]],
           \A p \in K!Produtos : \/ link'[p] = link[p] \/ ~link'[p].qrcode
                                 \/ p \in desvio' /\ link[p].qrcode
    PROVE  LinkInv'
<1>1. ASSUME NEW r \in Pedidos PROVE GeracaoServe(r)'
  <2>1. GeracaoServe(r)
    BY DEF LinkInv
  <2> QED
    BY <2>1 DEF GeracaoServe, LinksDe, K!Produtos, K!LinkDe
<1>2. ASSUME NEW p \in K!Produtos PROVE Desenhada(p)' /\ (link'[p].qrcode => imagem'[p] # Nulo)
  <2>1. Desenhada(p) /\ (link[p].qrcode => imagem[p] # Nulo)
    BY DEF LinkInv
  <2> QED
    BY <2>1 DEF Desenhada
<1> QED
  BY <1>1, <1>2 DEF LinkInv, K!Livre, LinksDe, TodosLinks, Geracao, K!Produtos, K!LinkDe, K!Avulso

LEMMA LinkDaLinha ==
    ASSUME LinkInv
    PROVE  /\ \A n \in Nomes : K!Renomear(n) => LinkInv'
           /\ K!TrocarLink \/ K!IniciarLote \/ K!TerminarLote => LinkInv'
           /\ \A p \in K!Produtos : K!LoteGravaLink(p) => LinkInv'
           /\ UNCHANGED K!vars => LinkInv'
<1>1. ASSUME NEW n \in Nomes, K!Renomear(n) PROVE LinkInv'
  BY <1>1, LinkMuda DEF K!Renomear, LinkInv
<1>2. CASE K!TrocarLink
  <2> DEFINE l == [link |-> K!Avulso, qrcode |-> FALSE]
  <2>1. l \in [link : TodosLinks, qrcode : BOOLEAN] /\ ~l.qrcode
    BY LinksSaoDeUm
  <2>2. link' = [link EXCEPT !["premios"] = l] /\ UNCHANGED <<nome, imagem, geracao, lista, desvio>>
    BY <1>2 DEF K!TrocarLink
  <2> HIDE DEF l
  <2>3. /\ link' \in [K!Produtos -> [link : TodosLinks, qrcode : BOOLEAN]]
        /\ \A p \in K!Produtos : link'[p] = link[p] \/ ~link'[p].qrcode
    BY <2>1, <2>2 DEF LinkInv
  <2> QED
    BY <2>2, <2>3, LinkMuda DEF LinkInv
<1>3. CASE K!IniciarLote
  <2>1. lista' # Nulo => lista'.nome \in Nomes
    BY <1>3 DEF K!IniciarLote, LinkInv
  <2> QED
    BY <2>1, <1>3, LinkMuda DEF K!IniciarLote, LinkInv
<1>4. CASE K!TerminarLote
  BY <1>4, LinkMuda DEF K!TerminarLote, LinkInv
<1>5. ASSUME NEW p \in K!Produtos, K!LoteGravaLink(p) PROVE LinkInv'
  <2>1. K!LinkDe(p, lista.nome) \in TodosLinks /\ lista # Nulo
    BY <1>5, LinksSaoDeUm DEF K!LoteGravaLink, LinkInv
  <2>2. /\ link' = [link EXCEPT ![p].link = K!LinkDe(p, lista.nome)] /\ desvio' = desvio \cup {p}
        /\ UNCHANGED <<nome, imagem, geracao, lista>>
    BY <1>5 DEF K!LoteGravaLink
  <2>3. link \in [K!Produtos -> [link : TodosLinks, qrcode : BOOLEAN]] /\ desvio \subseteq K!Produtos
    BY DEF LinkInv
  <2>4. \A x \in K!Produtos : x # p => link'[x] = link[x]
    BY <2>2, <2>3
  <2>5. link' \in [K!Produtos -> [link : TodosLinks, qrcode : BOOLEAN]] /\ link'[p].qrcode = link[p].qrcode
    BY <2>1, <2>2, <2>3
  <2> QED
    BY <2>2, <2>3, <2>4, <2>5, LinkMuda DEF LinkInv
<1>6. CASE UNCHANGED K!vars
  BY <1>6, LinkMuda DEF K!vars, LinkInv
<1> QED
  BY <1>1, <1>2, <1>3, <1>4, <1>5, <1>6

LEMMA LinkSegue == ASSUME LinkInv, K!Next PROVE LinkInv'
<1>1. ASSUME NEW r \in Pedidos, K!Enviar(r) \/ K!GravarGerado(r) \/ K!Falhar(r) PROVE LinkInv'
  BY <1>1, LinkEnvia, LinkGrava, LinkFalha
<1>2. ASSUME NEW r \in Pedidos, NEW p \in K!Produtos,
             \/ K!Gerar(r, p) \/ K!Reutilizar(r, p) \/ K!Obter(r, p)
             \/ \E recriar \in BOOLEAN : K!LoteGera(r, p, recriar)
      PROVE  LinkInv'
  <2>1. K!Gerar(r, p) \/ UNCHANGED K!vars
    BY <1>2 DEF K!Reutilizar, K!Obter, K!LoteGera
  <2> QED
    BY <2>1, LinkGera, LinkDaLinha
<1> QED
  BY <1>1, <1>2, LinkDaLinha, Zenon DEF K!Next

LEMMA LinkPromete == LinkInv => ImagemConfere
<1> SUFFICES ASSUME LinkInv PROVE ImagemConfere
  OBVIOUS
<1>1. K!TypeOK
  <2>1. TodosLinks = {K!LinkDe(p, n) : p \in K!Produtos, n \in Nomes} \cup {K!Avulso, Nulo}
    BY DEF TodosLinks, LinksDe, K!Produtos
  <2> QED
    BY <2>1 DEF LinkInv, Geracao, K!TypeOK
<1>2. K!ImagemAbreALoja
  BY LinksSaoDeUm DEF LinkInv, K!ImagemAbreALoja
<1>3. K!ImagemDesenhaOLink
  BY DEF LinkInv, Desenhada, K!ImagemDesenhaOLink
<1> QED
  BY <1>1, <1>2, <1>3 DEF ImagemConfere

-------------------------------------------------------------------------------
(* The machines. *)
Tarefa == [passo : {"livre", "cadastrar", "alterar", "excluir", "vender"},
           u : F!Operadores, m : Maquininhas \cup {Nulo}, d : Redes \cup {Ausente},
           v : Vendedores \cup {Nulo, Ausente}, ativa : BOOLEAN \cup {Ausente},
           tipo : F!Tipos \cup {Ausente}]
Venda == [m : Maquininhas, v : Vendedores \cup {Nulo}, d : Redes, tipo : F!Tipos]

\* What a request carries, whoever else is in flight.
TarefaTipada(t) ==
    /\ t.passo # "livre" => t.m \in Maquininhas
    /\ t.passo = "cadastrar" => t.d \in Redes /\ t.v \in Vendedores \cup {Nulo}
    /\ t.passo \in {"alterar", "excluir", "vender"} => F!Existe(t.m)
    /\ t.passo = "vender" => /\ t.u \in Vendedores \cup Redes /\ t.v \in Vendedores \cup {Nulo}
                             /\ t.tipo \in F!Tipos

\* What it checked is still so, when it is alone and nothing it checked has moved.
Vale(v, d) == v \in Vendedores \ mudou => F!VendedorDaRede(v, d)
TarefaEmDia(t) ==
    /\ t.passo = "cadastrar" => Vale(t.v, t.d)
    /\ t.passo = "alterar" => Vale(t.v, IF t.d = Ausente THEN maquina[t.m].d ELSE t.d)
    /\ t.passo = "vender" /\ mudou = {} => F!RedeDaVenda(t) = maquina[t.m].d

VendaEmDia(x) == F!Existe(x.m) /\ (mudou = {} => x.d = maquina[x.m].d)

FrotaInv ==
    /\ redeDaFrota \in [Vendedores -> Redes] /\ aprovado \subseteq Vendedores
    /\ maquina \in [Maquininhas -> F!Linha \cup {F!SemLinha}]
    /\ tarefa \in [Pedidos -> Tarefa]
    /\ historico \in Seq(Venda)
    /\ mudou \subseteq Maquininhas \cup Vendedores /\ concorreu \in BOOLEAN
    /\ \A r \in Pedidos : TarefaTipada(tarefa[r])
    /\ ~concorreu =>
         /\ \A r, s \in F!EmVoo : r = s
         /\ \A r \in Pedidos : TarefaEmDia(tarefa[r])
         /\ \A m \in Maquininhas : Vale(maquina[m].v, maquina[m].d)
         /\ \A i \in DOMAIN historico : VendaEmDia(historico[i])

Marca == concorreu' = (concorreu \/ \E r, s \in F!EmVoo' : r # s)

LEMMA LinhaNaoEhVazia ==
    /\ \A x \in F!Linha : x # F!SemLinha /\ x.d \in Redes /\ x.v \in Vendedores \cup {Nulo}
    /\ F!Livre \in Tarefa /\ F!Livre.passo = "livre"
    /\ TarefaTipada(F!Livre) /\ TarefaEmDia(F!Livre)
<1>1. ASSUME NEW x \in F!Linha PROVE x # F!SemLinha /\ x.d \in Redes /\ x.v \in Vendedores \cup {Nulo}
  <2>1. x.d \in Redes /\ x.v \in Vendedores \cup {Nulo}
    BY DEF F!Linha
  <2>2. F!SemLinha.d = Nulo
    BY DEF F!SemLinha
  <2> QED
    BY <2>1, <2>2, RedesAssumption
<1>2. F!Livre \in Tarefa /\ F!Livre.passo = "livre"
  BY DEF F!Livre, Tarefa, F!Operadores
<1>3. TarefaTipada(F!Livre) /\ TarefaEmDia(F!Livre)
  BY <1>2 DEF TarefaTipada, TarefaEmDia
<1> QED
  BY <1>1, <1>2, <1>3

LEMMA FrotaInicia == ASSUME F!Init PROVE FrotaInv
<1>1. /\ tarefa \in [Pedidos -> Tarefa] /\ \A r \in Pedidos : tarefa[r] = F!Livre
      /\ maquina \in [Maquininhas -> F!Linha \cup {F!SemLinha}]
      /\ \A m \in Maquininhas : maquina[m] = F!SemLinha
      /\ historico = << >> /\ F!EmVoo = {}
  BY LinhaNaoEhVazia DEF F!Init, F!EmVoo
<1>2. \A r \in Pedidos : TarefaTipada(tarefa[r]) /\ TarefaEmDia(tarefa[r])
  BY <1>1, LinhaNaoEhVazia
<1>3. ASSUME NEW m \in Maquininhas PROVE Vale(maquina[m].v, maquina[m].d)
  <2>1. maquina[m].v = Nulo
    BY <1>1 DEF F!SemLinha
  <2> QED
    BY <2>1, RedesAssumption DEF Vale
<1>4. historico \in Seq(Venda) /\ \A i \in DOMAIN historico : VendaEmDia(historico[i])
  BY <1>1
<1> QED
  BY <1>1, <1>2, <1>3, <1>4 DEF F!Init, FrotaInv

\* While nothing overlapped, who moves is alone.
LEMMA EmSerie ==
    ASSUME FrotaInv, Marca, ~concorreu'
    PROVE  /\ ~concorreu
           /\ \A r, s \in F!EmVoo : r = s
           /\ \A r, s \in F!EmVoo' : r = s
BY DEF FrotaInv, Marca

LEMMA MarcaTipada == ASSUME FrotaInv, Marca PROVE concorreu' \in BOOLEAN
<1>1. (concorreu \/ \E r, s \in F!EmVoo' : r # s) \in BOOLEAN
  BY Zenon
<1> QED
  BY <1>1, Zenon DEF Marca

\* A request that is validated.
LEMMA FrotaPede ==
    ASSUME FrotaInv, Marca, NEW r \in Pedidos, NEW t \in Tarefa, F!Planejar(r, t),
           TarefaTipada(t), ~concorreu => TarefaEmDia(t),
           UNCHANGED <<redeDaFrota, aprovado, maquina, historico, mudou>>
    PROVE  FrotaInv'
<1>1. tarefa' = [tarefa EXCEPT ![r] = t] /\ tarefa' \in [Pedidos -> Tarefa]
  BY DEF F!Planejar, FrotaInv
<1>2. \A o \in Pedidos : tarefa'[o] = IF o = r THEN t ELSE tarefa[o]
  BY <1>1 DEF FrotaInv
<1>3. ASSUME NEW o \in Pedidos PROVE TarefaTipada(tarefa[o])'
  <2>1. TarefaTipada(tarefa'[o])
    BY <1>2 DEF FrotaInv
  <2> QED
    BY <2>1 DEF TarefaTipada, F!Existe, F!SemLinha, F!Tipos
<1>4. ASSUME ~concorreu'
      PROVE  /\ \A o, s \in F!EmVoo' : o = s
             /\ \A o \in Pedidos : TarefaEmDia(tarefa[o])'
             /\ \A m \in Maquininhas : Vale(maquina[m].v, maquina[m].d)'
             /\ \A i \in DOMAIN historico : VendaEmDia(historico[i])'
  <2>1. ~concorreu /\ \A o, s \in F!EmVoo' : o = s
    BY <1>4, EmSerie
  <2>2. ASSUME NEW o \in Pedidos PROVE TarefaEmDia(tarefa[o])'
    <3>1. TarefaEmDia(tarefa'[o])
      BY <2>1, <1>2 DEF FrotaInv
    <3> QED
      BY <3>1 DEF TarefaEmDia, Vale, F!VendedorDaRede, F!RedeDaVenda
  <2>3. \A m \in Maquininhas : Vale(maquina[m].v, maquina[m].d)'
    BY <2>1 DEF FrotaInv, Vale, F!VendedorDaRede
  <2>4. \A i \in DOMAIN historico : VendaEmDia(historico[i])'
    BY <2>1 DEF FrotaInv, VendaEmDia, F!Existe, F!SemLinha
  <2> QED
    BY <2>1, <2>2, <2>3, <2>4
<1>5. concorreu' \in BOOLEAN
  BY MarcaTipada
<1> QED
  BY <1>1, <1>3, <1>4, <1>5 DEF FrotaInv, F!Linha, F!SemLinha

\* The end of a request that writes the machine m, or nothing.
LEMMA FrotaEscreve ==
    ASSUME FrotaInv, Marca, NEW r \in Pedidos, tarefa[r].passo # "livre", F!Terminar(r),
           UNCHANGED <<redeDaFrota, aprovado, historico>>, NEW m \in Maquininhas, NEW x \in F!Linha,
           maquina' = [maquina EXCEPT ![m] = x],
           mudou' \in {mudou, mudou \cup {m}},
           x.d # maquina[m].d => (m \in mudou' \/ maquina[m] = F!SemLinha),
           ~concorreu => Vale(x.v, x.d)
    PROVE  FrotaInv'
<1>1. /\ tarefa' = [tarefa EXCEPT ![r] = F!Livre] /\ tarefa' \in [Pedidos -> Tarefa]
      /\ maquina' \in [Maquininhas -> F!Linha \cup {F!SemLinha}]
      /\ maquina'[m] = x /\ mudou' \subseteq Maquininhas \cup Vendedores
      /\ \A o \in Maquininhas : o # m => maquina'[o] = maquina[o]
  BY LinhaNaoEhVazia DEF F!Terminar, FrotaInv
<1>2. \A o \in Pedidos : tarefa'[o] = IF o = r THEN F!Livre ELSE tarefa[o]
  BY <1>1 DEF FrotaInv
<1>3. \A o \in Maquininhas : F!Existe(o) => F!Existe(o)'
  BY <1>1, LinhaNaoEhVazia DEF F!Existe, F!SemLinha
<1>4. ASSUME NEW o \in Pedidos PROVE TarefaTipada(tarefa[o])'
  <2>1. TarefaTipada(tarefa'[o])
    BY <1>2, LinhaNaoEhVazia DEF FrotaInv
  <2> QED
    BY <2>1, <1>3 DEF TarefaTipada, F!Tipos
<1>5. ASSUME ~concorreu'
      PROVE  /\ \A o, s \in F!EmVoo' : o = s
             /\ \A o \in Pedidos : TarefaEmDia(tarefa[o])'
             /\ \A o \in Maquininhas : Vale(maquina[o].v, maquina[o].d)'
             /\ \A i \in DOMAIN historico : VendaEmDia(historico[i])'
  <2>1. ~concorreu /\ (\A o, s \in F!EmVoo : o = s) /\ (\A o, s \in F!EmVoo' : o = s)
    BY <1>5, EmSerie
  <2>2. ASSUME NEW o \in Pedidos PROVE TarefaEmDia(tarefa[o])'
    <3>1. r \in F!EmVoo
      BY LinhaNaoEhVazia DEF F!EmVoo
    <3>2. tarefa'[o] = F!Livre
      BY <3>1, <2>1, <1>2 DEF F!EmVoo
    <3>3. tarefa'[o].passo = "livre"
      BY <3>2, LinhaNaoEhVazia
    <3> QED
      BY <3>3 DEF TarefaEmDia
  <2>3. ASSUME NEW o \in Maquininhas PROVE Vale(maquina[o].v, maquina[o].d)'
    <3>1. Vale(maquina[o].v, maquina[o].d) /\ mudou \subseteq mudou'
      BY <2>1 DEF FrotaInv
    <3>2. CASE o = m
      BY <3>1, <3>2, <2>1, <1>1 DEF Vale, F!VendedorDaRede
    <3>3. CASE o # m
      BY <3>1, <3>3, <1>1 DEF Vale, F!VendedorDaRede
    <3> QED
      BY <3>2, <3>3
  <2>4. ASSUME NEW i \in DOMAIN historico PROVE VendaEmDia(historico[i])'
    <3>1. VendaEmDia(historico[i]) /\ historico[i] \in Venda
      BY <2>1 DEF FrotaInv
    <3>2. historico[i].m \in Maquininhas
      BY <3>1 DEF Venda
    <3>3. ASSUME mudou' = {}
          PROVE  mudou = {} /\ maquina'[historico[i].m].d = maquina[historico[i].m].d
      BY <3>1, <3>2, <3>3, <1>1 DEF VendaEmDia, F!Existe
    <3> QED
      BY <3>1, <3>2, <3>3, <1>3 DEF VendaEmDia
  <2> QED
    BY <2>1, <2>2, <2>3, <2>4
<1>6. concorreu' \in BOOLEAN
  BY MarcaTipada
<1> QED
  BY <1>1, <1>4, <1>5, <1>6 DEF FrotaInv, F!Linha, F!SemLinha

\* A machine that another insert had made is left alone.
LEMMA FrotaDesiste ==
    ASSUME FrotaInv, Marca, NEW r \in Pedidos, tarefa[r].passo # "livre", F!Terminar(r),
           UNCHANGED <<redeDaFrota, aprovado, maquina, mudou>>,
           historico' = historico
             \/ \E x \in Venda : historico' = Append(historico, x) /\ (~concorreu => VendaEmDia(x))
    PROVE  FrotaInv'
<1>1. tarefa' = [tarefa EXCEPT ![r] = F!Livre] /\ tarefa' \in [Pedidos -> Tarefa]
  BY LinhaNaoEhVazia DEF F!Terminar, FrotaInv
<1>2. \A o \in Pedidos : tarefa'[o] = IF o = r THEN F!Livre ELSE tarefa[o]
  BY <1>1 DEF FrotaInv
<1>3. ASSUME NEW o \in Pedidos PROVE TarefaTipada(tarefa[o])'
  <2>1. TarefaTipada(tarefa'[o])
    BY <1>2, LinhaNaoEhVazia DEF FrotaInv
  <2> QED
    BY <2>1 DEF TarefaTipada, F!Existe, F!SemLinha, F!Tipos
<1>4. historico' \in Seq(Venda)
  BY DEF FrotaInv
<1>5. ASSUME ~concorreu'
      PROVE  /\ \A o, s \in F!EmVoo' : o = s
             /\ \A o \in Pedidos : TarefaEmDia(tarefa[o])'
             /\ \A o \in Maquininhas : Vale(maquina[o].v, maquina[o].d)'
             /\ \A i \in DOMAIN historico' : VendaEmDia(historico[i])'
  <2>1. ~concorreu /\ \A o, s \in F!EmVoo' : o = s
    BY <1>5, EmSerie
  <2>2. ASSUME NEW o \in Pedidos PROVE TarefaEmDia(tarefa[o])'
    <3>1. TarefaEmDia(tarefa'[o])
      BY <2>1, <1>2, LinhaNaoEhVazia DEF FrotaInv
    <3> QED
      BY <3>1 DEF TarefaEmDia, Vale, F!VendedorDaRede, F!RedeDaVenda
  <2>3. \A o \in Maquininhas : Vale(maquina[o].v, maquina[o].d)'
    BY <2>1 DEF FrotaInv, Vale, F!VendedorDaRede
  <2>4. ASSUME NEW i \in DOMAIN historico' PROVE VendaEmDia(historico[i])'
    <3>1. VendaEmDia(historico'[i])
      <4>1. CASE historico' = historico
        BY <4>1, <2>1 DEF FrotaInv
      <4>2. ASSUME NEW x \in Venda, historico' = Append(historico, x), VendaEmDia(x)
            PROVE  VendaEmDia(historico'[i])
        <5>1. historico'[i] = x \/ (i \in DOMAIN historico /\ historico'[i] = historico[i])
          BY <4>2 DEF FrotaInv
        <5> QED
          BY <5>1, <4>2, <2>1 DEF FrotaInv
      <4> QED
        BY <4>1, <4>2, <2>1
    <3> QED
      BY <3>1 DEF VendaEmDia, F!Existe, F!SemLinha
  <2> QED
    BY <2>1, <2>2, <2>3, <2>4
<1>6. concorreu' \in BOOLEAN
  BY MarcaTipada
<1> QED
  BY <1>1, <1>3, <1>4, <1>5, <1>6 DEF FrotaInv, F!Linha, F!SemLinha

\* The ADMIN moves a seller, or approves one.
LEMMA FrotaMuda ==
    ASSUME FrotaInv, Marca, NEW v \in Vendedores, UNCHANGED <<maquina, tarefa, historico>>,
           \/ /\ redeDaFrota' \in [Vendedores -> Redes] /\ UNCHANGED aprovado
              /\ \A o \in Vendedores : o # v => redeDaFrota'[o] = redeDaFrota[o]
              /\ mudou' = mudou \cup {v}
           \/ aprovado' = aprovado \cup {v} /\ UNCHANGED <<redeDaFrota, mudou>>
    PROVE  FrotaInv'
<1>1. /\ redeDaFrota' \in [Vendedores -> Redes] /\ aprovado' \subseteq Vendedores
      /\ aprovado \subseteq aprovado' /\ mudou \subseteq mudou'
      /\ mudou' \subseteq Maquininhas \cup Vendedores
      /\ \A o \in Vendedores \ mudou' : redeDaFrota'[o] = redeDaFrota[o]
      /\ mudou' = {} => redeDaFrota' = redeDaFrota
  BY DEF FrotaInv
<1>2. ASSUME NEW o \in Pedidos PROVE TarefaTipada(tarefa[o])'
  BY DEF FrotaInv, TarefaTipada, F!Existe, F!SemLinha, F!Tipos
<1>3. ASSUME NEW w, NEW d, Vale(w, d)
      PROVE  w \in Vendedores \ mudou' => redeDaFrota'[w] = d /\ w \in aprovado'
  BY <1>1, <1>3 DEF Vale, F!VendedorDaRede
<1>4. ASSUME ~concorreu'
      PROVE  /\ \A o, s \in F!EmVoo' : o = s
             /\ \A o \in Pedidos : TarefaEmDia(tarefa[o])'
             /\ \A o \in Maquininhas : Vale(maquina[o].v, maquina[o].d)'
             /\ \A i \in DOMAIN historico : VendaEmDia(historico[i])'
  <2>1. ~concorreu /\ \A o, s \in F!EmVoo' : o = s
    BY <1>4, EmSerie
  <2>2. ASSUME NEW o \in Pedidos PROVE TarefaEmDia(tarefa[o])'
    <3>1. TarefaEmDia(tarefa[o])
      BY <2>1 DEF FrotaInv
    <3> QED
      BY <3>1, <1>1, <1>3 DEF TarefaEmDia, Vale, F!VendedorDaRede, F!RedeDaVenda
  <2>3. ASSUME NEW o \in Maquininhas PROVE Vale(maquina[o].v, maquina[o].d)'
    <3>1. Vale(maquina[o].v, maquina[o].d)
      BY <2>1 DEF FrotaInv
    <3> QED
      BY <3>1, <1>3 DEF Vale, F!VendedorDaRede
  <2>4. \A i \in DOMAIN historico : VendaEmDia(historico[i])'
    BY <2>1, <1>1 DEF FrotaInv, VendaEmDia, F!Existe, F!SemLinha
  <2> QED
    BY <2>1, <2>2, <2>3, <2>4
<1>5. concorreu' \in BOOLEAN
  BY MarcaTipada
<1> QED
  BY <1>1, <1>2, <1>4, <1>5 DEF FrotaInv, F!Linha, F!SemLinha

LEMMA FrotaPedeCadastro ==
    ASSUME FrotaInv, Marca, NEW r \in Pedidos, NEW u \in {Admin} \cup Redes, NEW m \in Maquininhas,
           NEW d \in Redes, NEW v \in Vendedores \cup {Nulo}, F!PedirCadastro(r, u, m, d, v)
    PROVE  FrotaInv'
<1> DEFINE alvo == IF u \in Redes THEN u ELSE d
           t == [F!Livre EXCEPT !.passo = "cadastrar", !.u = u, !.m = m, !.d = alvo, !.v = v]
<1>1. t \in Tarefa /\ t.passo = "cadastrar" /\ t.m = m /\ t.d = alvo /\ t.v = v /\ alvo \in Redes
  <2>1. alvo \in Redes
    OBVIOUS
  <2> HIDE DEF alvo
  <2>2. t \in Tarefa /\ t.passo = "cadastrar" /\ t.m = m /\ t.d = alvo /\ t.v = v
    BY <2>1 DEF Tarefa, F!Operadores, F!Livre
  <2> QED
    BY <2>1, <2>2
<1>2. /\ F!Planejar(r, t) /\ UNCHANGED <<redeDaFrota, aprovado, maquina, historico, mudou>>
      /\ v \in Vendedores => F!VendedorDaRede(v, alvo)
  BY DEF F!PedirCadastro
<1> HIDE DEF alvo, t
<1>3. TarefaTipada(t) /\ TarefaEmDia(t)
  BY <1>1, <1>2 DEF TarefaTipada, TarefaEmDia, Vale
<1> QED
  BY <1>1, <1>2, <1>3, FrotaPede

\* Who reaches a machine, reaches a row.
LEMMA AlcancaLinha ==
    ASSUME FrotaInv, NEW m \in Maquininhas, F!Existe(m)
    PROVE  maquina[m] \in F!Linha /\ maquina[m].d \in Redes /\ maquina[m].v \in Vendedores \cup {Nulo}
<1>1. maquina[m] \in F!Linha
  BY DEF FrotaInv, F!Existe
<1> QED
  BY <1>1, LinhaNaoEhVazia

LEMMA FrotaPedeAlteracao ==
    ASSUME FrotaInv, Marca, NEW r \in Pedidos, NEW u \in {Admin} \cup Redes, NEW m \in Maquininhas,
           NEW corpo \in F!Corpos, F!PedirAlteracao(r, u, m, corpo)
    PROVE  FrotaInv'
<1> DEFINE d == IF u = Admin /\ corpo.d # Ausente THEN corpo.d ELSE maquina[m].d
           nova == IF d = maquina[m].d THEN Ausente ELSE d
           t == [F!Livre EXCEPT !.passo = "alterar", !.u = u, !.m = m, !.v = corpo.v, !.d = nova,
                                !.ativa = corpo.ativa]
<1>1. /\ corpo.d \in Redes \cup {Ausente} /\ corpo.v \in Vendedores \cup {Nulo, Ausente}
      /\ corpo.ativa \in BOOLEAN \cup {Ausente}
  BY DEF F!Corpos
<1>2. /\ F!Existe(m) /\ F!Planejar(r, t)
      /\ UNCHANGED <<redeDaFrota, aprovado, maquina, historico, mudou>>
      /\ corpo.v \in Vendedores => F!VendedorDaRede(corpo.v, d)
  BY DEF F!PedirAlteracao, F!Alcanca
<1>3. maquina[m].d \in Redes
  BY <1>2, AlcancaLinha
<1>4. d \in Redes /\ nova \in Redes \cup {Ausente} /\ d = IF nova = Ausente THEN maquina[m].d ELSE nova
  BY <1>1, <1>3, RedesAssumption
<1>5. t \in Tarefa /\ t.passo = "alterar" /\ t.m = m /\ t.d = nova /\ t.v = corpo.v
  <2> HIDE DEF d, nova
  <2> QED
    BY <1>1, <1>4 DEF Tarefa, F!Operadores, F!Livre
<1> HIDE DEF d, nova, t
<1>6. TarefaTipada(t) /\ TarefaEmDia(t)
  BY <1>2, <1>4, <1>5 DEF TarefaTipada, TarefaEmDia, Vale
<1> QED
  BY <1>2, <1>5, <1>6, FrotaPede

LEMMA FrotaPedeExclusao ==
    ASSUME FrotaInv, Marca, NEW r \in Pedidos, NEW m \in Maquininhas, F!PedirExclusao(r, m)
    PROVE  FrotaInv'
<1> DEFINE t == [F!Livre EXCEPT !.passo = "excluir", !.m = m]
<1>1. t \in Tarefa /\ t.passo = "excluir" /\ t.m = m
  BY LinhaNaoEhVazia DEF Tarefa
<1>2. /\ F!Existe(m) /\ F!Planejar(r, t)
      /\ UNCHANGED <<redeDaFrota, aprovado, maquina, historico, mudou>>
  BY DEF F!PedirExclusao, F!Alcanca
<1> HIDE DEF t
<1>3. TarefaTipada(t) /\ TarefaEmDia(t)
  BY <1>1, <1>2 DEF TarefaTipada, TarefaEmDia
<1> QED
  BY <1>1, <1>2, <1>3, FrotaPede

LEMMA FrotaPedeVenda ==
    ASSUME FrotaInv, Marca, NEW r \in Pedidos, NEW m \in Maquininhas, NEW tipo \in F!Tipos,
           NEW u \in Vendedores \cup Redes, NEW v \in Vendedores \cup {Nulo},
           F!PedirVenda(r, u, m, v, tipo)
    PROVE  FrotaInv'
<1> DEFINE t == [F!Livre EXCEPT !.passo = "vender", !.u = u, !.m = m, !.v = v, !.tipo = tipo]
<1>1. t \in Tarefa /\ t.passo = "vender" /\ t.m = m /\ t.u = u /\ t.v = v /\ t.tipo = tipo
  BY LinhaNaoEhVazia DEF Tarefa, F!Operadores
<1>2. /\ F!Existe(m) /\ F!Planejar(r, t)
      /\ UNCHANGED <<redeDaFrota, aprovado, maquina, historico, mudou>>
      /\ u \in Redes => maquina[m].d = u
      /\ u \in Vendedores => maquina[m].v = u
  BY DEF F!PedirVenda, F!Opera, F!Alcanca
<1> HIDE DEF t
<1>3. TarefaTipada(t)
  BY <1>1, <1>2 DEF TarefaTipada
<1>4. ASSUME ~concorreu, mudou = {} PROVE F!RedeDaVenda(t) = maquina[m].d
  <2>1. Vale(maquina[m].v, maquina[m].d)
    BY <1>4 DEF FrotaInv
  <2>2. CASE u \in Vendedores
    BY <2>1, <2>2, <1>1, <1>2, <1>4 DEF Vale, F!VendedorDaRede, F!RedeDaVenda
  <2>3. CASE u \in Redes
    BY <2>3, <1>1, <1>2, RedesAssumption DEF F!RedeDaVenda
  <2> QED
    BY <2>2, <2>3
<1>5. ~concorreu => TarefaEmDia(t)
  BY <1>1, <1>4 DEF TarefaEmDia
<1> QED
  BY <1>1, <1>2, <1>3, <1>5, FrotaPede

LEMMA FrotaCadastra ==
    ASSUME FrotaInv, Marca, NEW r \in Pedidos, F!Cadastrar(r)
    PROVE  FrotaInv'
<1> DEFINE t == tarefa[r]
           x == [d |-> t.d, v |-> t.v, ativa |-> TRUE, excluida |-> FALSE]
<1>1. /\ t.passo = "cadastrar" /\ F!Terminar(r) /\ UNCHANGED <<redeDaFrota, aprovado, historico, mudou>>
      /\ maquina' = IF F!Existe(t.m) THEN maquina ELSE [maquina EXCEPT ![t.m] = x]
  BY DEF F!Cadastrar
<1>2. /\ t.m \in Maquininhas /\ t.d \in Redes /\ t.v \in Vendedores \cup {Nulo}
      /\ ~concorreu => Vale(t.v, t.d)
  BY <1>1 DEF FrotaInv, TarefaTipada, TarefaEmDia
<1>3. x \in F!Linha /\ x.d = t.d /\ x.v = t.v
  BY <1>2 DEF F!Linha
<1>4. CASE F!Existe(t.m)
  <2>1. UNCHANGED <<redeDaFrota, aprovado, maquina, mudou>> /\ historico' = historico
    BY <1>1, <1>4
  <2> QED
    BY <2>1, <1>1, FrotaDesiste
<1>5. CASE ~F!Existe(t.m)
  <2>1. /\ maquina' = [maquina EXCEPT ![t.m] = x] /\ maquina[t.m] = F!SemLinha
        /\ UNCHANGED <<redeDaFrota, aprovado, historico>>
        /\ mudou' \in {mudou, mudou \cup {t.m}} /\ tarefa[r].passo # "livre"
        /\ ~concorreu => Vale(x.v, x.d)
    BY <1>1, <1>2, <1>3, <1>5 DEF F!Existe
  <2> HIDE DEF x
  <2> QED
    BY <2>1, <1>1, <1>2, <1>3, FrotaEscreve
<1> QED
  BY <1>4, <1>5

LEMMA FrotaAltera ==
    ASSUME FrotaInv, Marca, NEW r \in Pedidos, F!Alterar(r)
    PROVE  FrotaInv'
<1> DEFINE t == tarefa[r]
           l == maquina[t.m]
           x == F!Alterada(l, t)
<1>1. /\ t.passo = "alterar" /\ F!Terminar(r) /\ UNCHANGED <<redeDaFrota, aprovado, historico>>
      /\ maquina' = [maquina EXCEPT ![t.m] = x]
      /\ mudou' = IF maquina'[t.m].d # maquina[t.m].d THEN mudou \cup {t.m} ELSE mudou
  BY DEF F!Alterar
<1>2. /\ t \in Tarefa /\ t.m \in Maquininhas /\ F!Existe(t.m)
      /\ ~concorreu => Vale(t.v, IF t.d = Ausente THEN l.d ELSE t.d) /\ Vale(l.v, l.d)
  BY <1>1 DEF FrotaInv, TarefaTipada, TarefaEmDia
<1>3. l \in F!Linha /\ l.d \in Redes /\ l.v \in Vendedores \cup {Nulo}
  BY <1>2, AlcancaLinha
<1>4. /\ t.d \in Redes \cup {Ausente} /\ t.v \in Vendedores \cup {Nulo, Ausente}
      /\ t.ativa \in BOOLEAN \cup {Ausente}
  BY <1>2 DEF Tarefa
<1>5. /\ x \in F!Linha /\ x.d = (IF t.d = Ausente THEN l.d ELSE t.d) /\ x.v = F!NovoDono(t, l.v)
      /\ maquina'[t.m] = x
  <2>1. x \in F!Linha /\ x.d = (IF t.d = Ausente THEN l.d ELSE t.d) /\ x.v = F!NovoDono(t, l.v)
    BY <1>3, <1>4 DEF F!Linha, F!NovoDono, F!Alterada
  <2> QED
    BY <2>1, <1>1, <1>2 DEF FrotaInv
<1>6. mudou' \in {mudou, mudou \cup {t.m}} /\ (x.d # l.d => t.m \in mudou')
  BY <1>1, <1>5
<1> HIDE DEF x
<1>7. ASSUME ~concorreu PROVE Vale(x.v, x.d)
  BY <1>2, <1>5, <1>7, RedesAssumption DEF F!NovoDono, Vale
<1> QED
  BY <1>1, <1>2, <1>5, <1>6, <1>7, FrotaEscreve

LEMMA FrotaExclui ==
    ASSUME FrotaInv, Marca, NEW r \in Pedidos, F!Excluir(r)
    PROVE  FrotaInv'
<1> DEFINE m == tarefa[r].m
           x == [maquina[m] EXCEPT !.excluida = TRUE]
<1>1. /\ tarefa[r].passo = "excluir" /\ F!Terminar(r)
      /\ UNCHANGED <<redeDaFrota, aprovado, historico, mudou>>
      /\ maquina' = [maquina EXCEPT ![m] = x]
  BY DEF F!Excluir
<1>2. m \in Maquininhas /\ F!Existe(m) /\ (~concorreu => Vale(maquina[m].v, maquina[m].d))
  BY <1>1 DEF FrotaInv, TarefaTipada
<1>3. maquina[m] \in F!Linha
  BY <1>2, AlcancaLinha
<1>4. x \in F!Linha /\ x.d = maquina[m].d /\ x.v = maquina[m].v
  BY <1>3 DEF F!Linha
<1>5. mudou' \in {mudou, mudou \cup {m}} /\ (~concorreu => Vale(x.v, x.d))
  BY <1>1, <1>2, <1>4
<1> HIDE DEF x
<1> QED
  BY <1>1, <1>2, <1>4, <1>5, FrotaEscreve

LEMMA FrotaVende ==
    ASSUME FrotaInv, Marca, NEW r \in Pedidos, F!Vender(r)
    PROVE  FrotaInv'
<1> DEFINE t == tarefa[r]
           x == [m |-> t.m, v |-> t.v, d |-> F!RedeDaVenda(t), tipo |-> t.tipo]
<1>1. /\ t.passo = "vender" /\ F!Terminar(r) /\ UNCHANGED <<redeDaFrota, aprovado, maquina, mudou>>
      /\ historico' = historico \/ historico' = Append(historico, x)
  BY DEF F!Vender
<1>2. /\ t.m \in Maquininhas /\ F!Existe(t.m) /\ t.u \in Vendedores \cup Redes
      /\ t.v \in Vendedores \cup {Nulo} /\ t.tipo \in F!Tipos
      /\ ~concorreu /\ mudou = {} => F!RedeDaVenda(t) = maquina[t.m].d
  BY <1>1 DEF FrotaInv, TarefaTipada, TarefaEmDia
<1>3. F!RedeDaVenda(t) \in Redes
  BY <1>2 DEF F!RedeDaVenda, FrotaInv
<1>4. x \in Venda /\ x.m = t.m /\ x.d = F!RedeDaVenda(t)
  BY <1>2, <1>3 DEF Venda
<1> HIDE DEF x
<1>5. ~concorreu => VendaEmDia(x)
  BY <1>2, <1>4 DEF VendaEmDia
<1> QED
  BY <1>1, <1>4, <1>5, FrotaDesiste

LEMMA FrotaSegue == ASSUME FrotaInv, F!Next PROVE FrotaInv'
<1>1. F!Passo /\ Marca
  BY DEF F!Next, Marca
<1>2. ASSUME NEW r \in Pedidos, NEW m \in Maquininhas, NEW u \in {Admin} \cup Redes,
             \/ \E d \in Redes, v \in Vendedores \cup {Nulo} : F!PedirCadastro(r, u, m, d, v)
             \/ \E corpo \in F!Corpos : F!PedirAlteracao(r, u, m, corpo)
      PROVE  FrotaInv'
  BY <1>1, <1>2, FrotaPedeCadastro, FrotaPedeAlteracao
<1>3. ASSUME NEW r \in Pedidos, NEW m \in Maquininhas, NEW tipo \in F!Tipos,
             \/ \E u \in Vendedores : F!PedirVenda(r, u, m, u, tipo)
             \/ \E u \in Redes, v \in Vendedores \cup {Nulo} : F!PedirVenda(r, u, m, v, tipo)
      PROVE  FrotaInv'
  BY <1>1, <1>3, FrotaPedeVenda
<1>4. ASSUME NEW r \in Pedidos,
             \/ \E m \in Maquininhas : F!PedirExclusao(r, m)
             \/ F!Cadastrar(r) \/ F!Alterar(r) \/ F!Excluir(r) \/ F!Vender(r)
      PROVE  FrotaInv'
  BY <1>1, <1>4, FrotaPedeExclusao, FrotaCadastra, FrotaAltera, FrotaExclui, FrotaVende
<1>5. ASSUME NEW v \in Vendedores, F!AprovarVendedor(v) PROVE FrotaInv'
  BY <1>1, <1>5, FrotaMuda DEF F!AprovarVendedor
<1>6. ASSUME NEW v \in Vendedores, NEW d \in Redes, F!Transferir(v, d) PROVE FrotaInv'
  <2>1. redeDaFrota' \in [Vendedores -> Redes]
        /\ \A o \in Vendedores : o # v => redeDaFrota'[o] = redeDaFrota[o]
    BY <1>6 DEF F!Transferir, FrotaInv
  <2>2. /\ mudou' = mudou \cup {v} /\ UNCHANGED aprovado /\ UNCHANGED <<maquina, tarefa, historico>>
    BY <1>6 DEF F!Transferir
  <2> QED
    BY <2>1, <2>2, <1>1, FrotaMuda
<1> QED
  BY <1>1, <1>2, <1>3, <1>4, <1>5, <1>6 DEF F!Passo

LEMMA FrotaPromete == FrotaInv => FrotaEmSerie
<1> SUFFICES ASSUME FrotaInv PROVE FrotaEmSerie
  OBVIOUS
<1>1. F!TypeOK
  BY DEF FrotaInv, F!TypeOK, Tarefa, Venda
<1>2. F!AparelhoNaRede
  BY DEF FrotaInv, F!AparelhoNaRede, Vale
<1>3. ASSUME NEW i \in DOMAIN historico, ~concorreu, mudou = {},
             NEW d \in Redes, F!Alcanca(d, historico[i].m)
      PROVE  historico[i].d = d
  BY <1>3 DEF FrotaInv, VendaEmDia, F!Alcanca
<1>4. F!HistoricoDaRede
  BY <1>3 DEF F!HistoricoDaRede
<1>5. F!ListaNaoAlarga
  BY RedesAssumption DEF F!ListaNaoAlarga, F!Listar
<1> QED
  BY <1>1, <1>2, <1>4, <1>5 DEF FrotaEmSerie

-------------------------------------------------------------------------------
(* The pages of a history of any length, of any size. *)

LEMMA MenorDosNaturais ==
    ASSUME NEW T, T \subseteq Nat, T # {}
    PROVE  \E t \in T : \A y \in T : t <= y
<1>1. PICK M : /\ IsWellFoundedOn(M, Nat)
               /\ \A x, y \in Nat : x < y => <<x, y>> \in M
  <2>1. \A x, y \in Nat : x < y => <<x, y>> \in OpToRel(<, Nat)
    BY DEF OpToRel
  <2> QED
    BY <2>1, NatLessThanWellFounded, Zenon
<1>2. PICK t \in T : \A y \in T : ~ (<<y, t>> \in M)
  <2>1. IsWellFoundedOn(M, Nat)
    BY <1>1
  <2> QED
    BY <2>1, WFMin, ZenonT(30)
<1>3. \A y \in T : ~(y < t)
  BY <1>1, <1>2
<1> QED
  BY <1>3

\* s is the enumeration of S from the greatest to the least.
Ordena(s, S) ==
    /\ s \in [1..Cardinality(S) -> S]
    /\ \A i, j \in DOMAIN s : i < j => s[i] > s[j]

\* Every finite set of rows has one: the least comes after those of the others.
LEMMA HaOrdem ==
    ASSUME NEW S \in SUBSET Nat, IsFiniteSet(S)
    PROVE  \E s : Ordena(s, S)
<1> DEFINE Sem(T) == T \in SUBSET Nat /\ IsFiniteSet(T) /\ ~ \E s : Ordena(s, T)
           Tamanhos == {n \in Nat : \E T \in SUBSET Nat : Sem(T) /\ Cardinality(T) = n}
<1>1. SUFFICES ASSUME Tamanhos # {} PROVE FALSE
  <2>1. Cardinality(S) \in Nat
    BY FS_CardinalityType
  <2> QED
    BY <2>1
<1>2. PICK n \in Tamanhos : \A k \in Tamanhos : n <= k
  BY <1>1, MenorDosNaturais
<1>3. PICK T \in SUBSET Nat : Sem(T) /\ Cardinality(T) = n
  OBVIOUS
<1>4. CASE n = 0
  <2>1. T = {}
    BY <1>3, <1>4, FS_EmptySet
  <2> DEFINE s == [i \in 1..0 |-> i]
  <2>2. Ordena(s, T)
    BY <1>3, <1>4, <2>1 DEF Ordena
  <2> QED
    BY <1>3, <2>2
<1>5. CASE n # 0
  <2>1. T # {}
    BY <1>3, <1>5, FS_EmptySet
  <2>2. PICK x \in T : \A y \in T : x <= y
    BY <2>1, MenorDosNaturais
  <2> DEFINE R == T \ {x}
  <2>3. R \in SUBSET Nat /\ IsFiniteSet(R) /\ Cardinality(R) = n - 1
    BY <1>3, FS_RemoveElement
  <2>4. n - 1 \in Nat /\ n \in Nat
    BY <1>5
  <2>5. PICK f : Ordena(f, R)
    <3>1. ~Sem(R)
      BY <1>2, <2>3, <2>4
    <3> QED
      BY <2>3, <3>1
  <2>6. f \in [1..(n - 1) -> R] /\ \A i, j \in 1..(n - 1) : i < j => f[i] > f[j]
    BY <2>3, <2>5 DEF Ordena
  <2> DEFINE g == [i \in 1..n |-> IF i = n THEN x ELSE f[i]]
  <2>7. ASSUME NEW i \in 1..n, i # n
        PROVE  i \in 1..(n - 1) /\ f[i] \in T /\ f[i] > x
    <3>1. i \in 1..(n - 1)
      BY <2>4, <2>7
    <3>2. f[i] \in T /\ f[i] # x
      BY <2>6, <3>1
    <3>3. x \in Nat /\ f[i] \in Nat /\ x <= f[i]
      BY <2>2, <3>2
    <3> QED
      BY <3>1, <3>2, <3>3
  <2>8. g \in [1..n -> T]
    BY <2>7
  <2>9. ASSUME NEW i \in 1..n, NEW j \in 1..n, i < j PROVE g[i] > g[j]
    <3>1. i # n
      BY <2>4, <2>9
    <3> QED
      BY <3>1, <2>6, <2>7, <2>9
  <2>10. Ordena(g, T)
    BY <1>3, <2>8, <2>9 DEF Ordena
  <2> QED
    BY <1>3, <2>10
<1> QED
  BY <1>4, <1>5

LEMMA ContaFrota == \A S : F!Cardinality(S) = Cardinality(S)
BY DEF F!Cardinality, Cardinality

\* DaUltima enumerates, and misses no row.
LEMMA DaUltimaOrdena ==
    ASSUME NEW S \in SUBSET Nat, IsFiniteSet(S)
    PROVE  LET s == F!DaUltima(S)
               n == Cardinality(S)
           IN  /\ n \in Nat /\ s \in [1..n -> S] /\ s \in [1..n -> Nat] /\ s \in Seq(S) /\ Len(s) = n
               /\ \A i, j \in 1..n : i < j => s[i] > s[j]
               /\ \A x \in S : \E i \in 1..n : s[i] = x
<1> DEFINE s == F!DaUltima(S)
           n == Cardinality(S)
<1>1. n \in Nat
  BY FS_CardinalityType
<1>2. Ordena(s, S)
  <2>1. F!Cardinality(S) = n
    BY ContaFrota
  <2>2. s = CHOOSE z \in [1..n -> S] : \A i, j \in DOMAIN z : i < j => z[i] > z[j]
    BY <2>1 DEF F!DaUltima
  <2> QED
    BY <2>2, HaOrdem DEF Ordena
<1>3. s \in [1..n -> S] /\ s \in [1..n -> Nat] /\ \A i, j \in 1..n : i < j => s[i] > s[j]
  BY <1>2 DEF Ordena
<1> HIDE DEF s
<1>4. s \in Seq(S) /\ Len(s) = n
  BY <1>1, <1>3
<1>5. \A x \in S : \E i \in 1..n : s[i] = x
  <2>1. s \in Injection(1..n, S)
    <3>1. ASSUME NEW i \in 1..n, NEW j \in 1..n, i # j PROVE s[i] # s[j]
      <4>1. i < j \/ j < i
        BY <1>1, <3>1
      <4>2. s[i] \in Nat /\ s[j] \in Nat
        BY <1>3
      <4> QED
        BY <1>3, <4>1, <4>2
    <3> QED
      BY <1>3, <3>1 DEF Injection, IsInjective
  <2>2. Cardinality(1..n) = n
    BY <1>1, FS_Interval
  <2>3. s \in Surjection(1..n, S)
    BY <2>1, <2>2, FS_Injection
  <2> QED
    BY <2>3 DEF Surjection
<1> QED
  BY <1>1, <1>3, <1>4, <1>5 DEF s

\* What comes before a row in the order are the rows after it in time.
LEMMA Posto ==
    ASSUME NEW S \in SUBSET Nat, IsFiniteSet(S), NEW i \in 1..Cardinality(S)
    PROVE  LET x == F!DaUltima(S)[i]
           IN  x \in S /\ Cardinality({y \in S : y > x}) = i - 1
<1> DEFINE s == F!DaUltima(S)
           n == Cardinality(S)
           x == s[i]
           D == {y \in S : y > x}
           f == [j \in 1..(i - 1) |-> s[j]]
<1>1. /\ n \in Nat /\ s \in [1..n -> S] /\ s \in [1..n -> Nat]
      /\ \A k, j \in 1..n : k < j => s[k] > s[j]
      /\ \A y \in S : \E j \in 1..n : s[j] = y
  BY DaUltimaOrdena
<1> HIDE DEF s, n
<1>2. i \in 1..n
  BY DEF n
<1>3. \A j \in 1..(i - 1) : j \in 1..n /\ s[j] \in D
  BY <1>1, <1>2
<1>4. \A y \in D : \E j \in 1..(i - 1) : s[j] = y
  <2> SUFFICES ASSUME NEW y \in D PROVE \E j \in 1..(i - 1) : s[j] = y
    OBVIOUS
  <2>1. PICK j \in 1..n : s[j] = y
    BY <1>1
  <2>2. ~(i < j) /\ i # j
    <3>1. s[i] \in Nat /\ s[j] \in Nat /\ s[j] > s[i]
      BY <1>1, <1>2, <2>1
    <3> QED
      BY <1>1, <1>2, <3>1
  <2> QED
    BY <1>2, <2>1, <2>2
<1>5. f \in Bijection(1..(i - 1), D)
  <2>1. f \in [1..(i - 1) -> D]
    BY <1>3
  <2>2. ASSUME NEW k \in 1..(i - 1), NEW j \in 1..(i - 1), k # j PROVE f[k] # f[j]
    <3>1. k < j \/ j < k
      BY <1>1, <1>2, <2>2
    <3>2. s[k] \in Nat /\ s[j] \in Nat
      BY <1>1, <1>3
    <3> QED
      BY <1>1, <1>3, <3>1, <3>2
  <2>3. \A y \in D : \E j \in 1..(i - 1) : f[j] = y
    BY <1>4
  <2> HIDE DEF f, D
  <2> QED
    BY <2>1, <2>2, <2>3 DEF Bijection, Injection, IsInjective, Surjection
<1>6. Cardinality(1..(i - 1)) = i - 1 /\ IsFiniteSet(1..(i - 1))
  <2>1. i - 1 \in Int /\ 1 \in Int /\ i - 1 >= 0
    BY <1>1, <1>2
  <2>2. /\ IsFiniteSet(1..(i - 1))
        /\ Cardinality(1..(i - 1)) = IF 1 > i - 1 THEN 0 ELSE (i - 1) - 1 + 1
    BY <2>1, FS_Interval
  <2> QED
    BY <2>1, <2>2
<1>7. Cardinality(D) = i - 1
  BY <1>5, <1>6, FS_Bijection DEF ExistsBijection
<1> QED
  BY <1>1, <1>2, <1>7 DEF s

\* A part of the rows that has the first n of them has them in the same places.
LEMMA Mescla ==
    ASSUME NEW A \in SUBSET Nat, IsFiniteSet(A), NEW B \in SUBSET A, NEW n \in Nat,
           \A i \in 1..Cardinality(A) : i <= n => F!DaUltima(A)[i] \in B
    PROVE  /\ Cardinality(A) \in Nat /\ Cardinality(B) \in Nat
           /\ (IF n < Cardinality(A) THEN n ELSE Cardinality(A))
                = (IF n < Cardinality(B) THEN n ELSE Cardinality(B))
           /\ \A i \in 1..Cardinality(A) :
                 i <= n => i \in 1..Cardinality(B) /\ F!DaUltima(B)[i] = F!DaUltima(A)[i]
<1> DEFINE s == F!DaUltima(A)
           t == F!DaUltima(B)
           a == Cardinality(A)
           b == Cardinality(B)
<1>1. IsFiniteSet(B) /\ b <= a /\ (a = b => A = B) /\ B \in SUBSET Nat
  BY FS_Subset
<1>2. a \in Nat /\ b \in Nat
  BY <1>1, FS_CardinalityType
<1>3. ASSUME NEW i \in 1..a, i <= n PROVE i \in 1..b /\ t[i] = s[i]
  <2> DEFINE x == s[i]
  <2>1. x \in B /\ Cardinality({y \in A : y > x}) = i - 1
    BY <1>3, Posto
  <2>2. PICK j \in 1..b : t[j] = x
    BY <1>1, <2>1, DaUltimaOrdena
  <2>3. Cardinality({y \in B : y > x}) = j - 1
    BY <1>1, <2>2, Posto
  <2>4. {y \in B : y > x} = {y \in A : y > x}
    <3>1. ASSUME NEW y \in A, y > x PROVE y \in B
      <4>1. /\ s \in [1..a -> Nat] /\ \A k, m \in 1..a : k < m => s[k] > s[m]
            /\ \E k \in 1..a : s[k] = y
        BY DaUltimaOrdena
      <4> HIDE DEF s, a
      <4>2. PICK k \in 1..a : s[k] = y
        BY <4>1
      <4>3. k < i
        <5>1. s[i] \in Nat /\ s[k] \in Nat /\ s[k] > s[i]
          BY <3>1, <4>1, <4>2
        <5>2. ~(i < k) /\ i # k
          BY <4>1, <5>1
        <5> QED
          BY <1>2, <5>2
      <4>4. k <= n
        BY <1>2, <1>3, <4>3
      <4> QED
        BY <4>2, <4>4 DEF s, a
    <3> QED
      BY <3>1
  <2>5. i - 1 = j - 1
    BY <2>1, <2>3, <2>4
  <2>6. i = j
    BY <1>2, <2>5
  <2> QED
    BY <2>2, <2>6
<1>4. (IF n < a THEN n ELSE a) = (IF n < b THEN n ELSE b)
  <2>1. CASE n < a /\ n # 0
    <3>1. n \in 1..b
      BY <1>2, <1>3, <2>1
    <3> QED
      BY <1>1, <1>2, <2>1, <3>1
  <2>2. CASE n = 0
    BY <1>2, <2>2
  <2>3. CASE ~(n < a)
    <3>1. A \subseteq B
      <4> SUFFICES ASSUME NEW x \in A PROVE x \in B
        OBVIOUS
      <4>1. PICK i \in 1..a : s[i] = x
        BY DaUltimaOrdena
      <4>2. i <= n
        BY <1>2, <2>3
      <4> QED
        BY <4>1, <4>2
    <3>2. A = B
      BY <3>1
    <3> QED
      BY <3>2
  <2> QED
    BY <1>2, <2>1, <2>2, <2>3
<1> QED
  BY <1>2, <1>3, <1>4

LEMMA MesmaFatia ==
    ASSUME NEW A \in SUBSET Nat, IsFiniteSet(A), NEW B \in SUBSET A, NEW n \in Nat, NEW k \in Nat,
           \A i \in 1..Cardinality(A) : i <= n => F!DaUltima(A)[i] \in B
    PROVE  F!Fatia(F!DaUltima(B), k, n) = F!Fatia(F!DaUltima(A), k, n)
<1> DEFINE s == F!DaUltima(A)
           t == F!DaUltima(B)
           a == Cardinality(A)
           b == Cardinality(B)
           m == IF n < a THEN n ELSE a
<1>1. IsFiniteSet(B) /\ B \in SUBSET Nat
  BY FS_Subset
<1>2. s \in Seq(A) /\ Len(s) = a /\ s \in [1..a -> Nat] /\ t \in Seq(B) /\ Len(t) = b
  BY <1>1, DaUltimaOrdena
<1>3. /\ a \in Nat /\ m = IF n < b THEN n ELSE b
      /\ \A i \in 1..a : i <= n => t[i] = s[i]
  BY Mescla
<1>4. F!Fatia(s, k, n) = SubSeq(s, k + 1, m) /\ F!Fatia(t, k, n) = SubSeq(t, k + 1, m)
  BY <1>2, <1>3 DEF F!Fatia
<1> HIDE DEF s, t, a, b
<1>5. m \in Int /\ k + 1 \in Int
  BY <1>3
<1>6. \A i \in (k + 1)..m : i \in 1..a /\ t[i] = s[i] /\ s[i] \in Nat
  BY <1>2, <1>3
<1> HIDE DEF m
<1> DEFINE u == SubSeq(s, k + 1, m)
           w == SubSeq(t, k + 1, m)
<1>7. /\ u \in Seq(Nat) /\ Len(u) = IF k + 1 <= m THEN m - (k + 1) + 1 ELSE 0
      /\ \A i \in 1..(m - (k + 1) + 1) : u[i] = s[k + 1 + i - 1]
  BY <1>5, <1>6, SubSeqProperties
<1>8. /\ w \in Seq(Nat) /\ Len(w) = IF k + 1 <= m THEN m - (k + 1) + 1 ELSE 0
      /\ \A i \in 1..(m - (k + 1) + 1) : w[i] = t[k + 1 + i - 1]
  BY <1>5, <1>6, SubSeqProperties
<1>9. Len(u) = Len(w) /\ \A i \in 1..Len(u) : u[i] = w[i]
  BY <1>5, <1>6, <1>7, <1>8
<1>10. u = w
  <2> HIDE DEF u, w
  <2> QED
    BY <1>7, <1>8, <1>9
<1> QED
  BY <1>4, <1>10 DEF s, t

LEMMA NoInicio ==
    ASSUME NEW S \in SUBSET Nat, IsFiniteSet(S), NEW n \in Nat
    PROVE  F!ToSet(F!Fatia(F!DaUltima(S), 0, n))
             = {F!DaUltima(S)[i] : i \in {j \in 1..Cardinality(S) : j <= n}}
<1> DEFINE s == F!DaUltima(S)
           a == Cardinality(S)
           m == IF n < a THEN n ELSE a
           u == SubSeq(s, 1, m)
<1>1. a \in Nat /\ s \in [1..a -> Nat] /\ Len(s) = a
  BY DaUltimaOrdena
<1>2. F!Fatia(s, 0, n) = u
  BY <1>1 DEF F!Fatia
<1> HIDE DEF s, a
<1>3. m \in Nat /\ \A i \in 1..m : s[i] \in Nat
  BY <1>1
<1>4. \A i : i \in 1..m <=> i \in 1..a /\ i <= n
  BY <1>1
<1> HIDE DEF m
<1>5. /\ u \in Seq(Nat) /\ Len(u) = IF 1 <= m THEN m - 1 + 1 ELSE 0
      /\ \A i \in 1..(m - 1 + 1) : u[i] = s[1 + i - 1]
  BY <1>3, SubSeqProperties
<1> HIDE DEF u
<1>6. DOMAIN u = 1..m /\ \A i \in 1..m : u[i] = s[i]
  BY <1>3, <1>5
<1>7. F!ToSet(u) = {s[i] : i \in {j \in 1..a : j <= n}}
  BY <1>4, <1>6 DEF F!ToSet
<1> QED
  BY <1>2, <1>7 DEF s, a

LEMMA LinhasFinitas ==
    ASSUME NEW m, NEW tipo, historico \in Seq(Venda)
    PROVE  F!Linhas(m, tipo) \in SUBSET Nat /\ IsFiniteSet(F!Linhas(m, tipo))
<1>1. Len(historico) \in Nat /\ DOMAIN historico = 1..Len(historico)
  OBVIOUS
<1>2. IsFiniteSet(1..Len(historico))
  BY <1>1, FS_Interval
<1>3. F!Linhas(m, tipo) \in SUBSET (1..Len(historico))
  BY <1>1 DEF F!Linhas
<1> QED
  BY <1>1, <1>2, <1>3, FS_Subset

\* Any page, of any size, of any history.
LEMMA PaginaCerta ==
    ASSUME historico \in Seq(Venda), NEW m, NEW filtro,
           NEW limite \in Nat \ {0}, NEW p \in Nat \ {0}
    PROVE  LET todas == UNION {F!Linhas(m, tipo) : tipo \in F!Incluidos(filtro)}
           IN  F!Pagina(m, filtro, p, limite)
                 = F!Fatia(F!DaUltima(todas), (p - 1) * limite, p * limite)
<1> DEFINE todas == UNION {F!Linhas(m, tipo) : tipo \in F!Incluidos(filtro)}
           n == p * limite
           k == (p - 1) * limite
           vieram == UNION {F!ToSet(F!Tabela(m, tipo, F!Janela(p, limite))) : tipo \in F!Incluidos(filtro)}
<1>1. n \in Nat /\ k \in Nat
  OBVIOUS
<1>2. F!Pagina(m, filtro, p, limite) = F!Fatia(F!DaUltima(vieram), k, n)
  BY DEF F!Pagina
<1>3. F!Janela(p, limite) = n
  BY DEF F!Janela
<1> HIDE DEF n, k
<1>4. todas \in SUBSET Nat /\ IsFiniteSet(todas)
  <2>1. Len(historico) \in Nat /\ DOMAIN historico = 1..Len(historico)
    OBVIOUS
  <2>2. IsFiniteSet(1..Len(historico))
    BY <2>1, FS_Interval
  <2>3. todas \in SUBSET (1..Len(historico))
    BY <2>1 DEF F!Linhas
  <2> QED
    BY <2>1, <2>2, <2>3, FS_Subset
<1>5. \A x : x \in vieram <=> \E tipo \in F!Incluidos(filtro) :
                \E i \in 1..Cardinality(F!Linhas(m, tipo)) :
                   i <= n /\ x = F!DaUltima(F!Linhas(m, tipo))[i]
  <2>1. ASSUME NEW tipo
        PROVE  F!ToSet(F!Tabela(m, tipo, n))
                 = {F!DaUltima(F!Linhas(m, tipo))[i] : i \in {j \in 1..Cardinality(F!Linhas(m, tipo)) : j <= n}}
    BY <1>1, LinhasFinitas, NoInicio DEF F!Tabela
  <2> QED
    BY <1>3, <2>1
<1> HIDE DEF vieram
<1>6. vieram \subseteq todas
  <2> SUFFICES ASSUME NEW x \in vieram PROVE x \in todas
    OBVIOUS
  <2>1. PICK tipo \in F!Incluidos(filtro) : \E i \in 1..Cardinality(F!Linhas(m, tipo)) :
                   i <= n /\ x = F!DaUltima(F!Linhas(m, tipo))[i]
    BY <1>5
  <2>2. x \in F!Linhas(m, tipo)
    BY <2>1, LinhasFinitas, DaUltimaOrdena
  <2> QED
    BY <2>1, <2>2
<1>7. ASSUME NEW i \in 1..Cardinality(todas), i <= n PROVE F!DaUltima(todas)[i] \in vieram
  <2> DEFINE x == F!DaUltima(todas)[i]
  <2>1. x \in todas /\ Cardinality({y \in todas : y > x}) = i - 1
    BY <1>4, Posto
  <2>2. PICK tipo \in F!Incluidos(filtro) : x \in F!Linhas(m, tipo)
    BY <2>1
  <2> DEFINE S == F!Linhas(m, tipo)
  <2>3. S \in SUBSET Nat /\ IsFiniteSet(S) /\ S \subseteq todas
    BY LinhasFinitas
  <2>4. PICK j \in 1..Cardinality(S) : F!DaUltima(S)[j] = x
    BY <2>2, <2>3, DaUltimaOrdena
  <2>5. Cardinality({y \in S : y > x}) = j - 1
    BY <2>3, <2>4, Posto
  <2>6. Cardinality({y \in S : y > x}) <= Cardinality({y \in todas : y > x})
    <3>1. {y \in todas : y > x} \in SUBSET todas /\ {y \in S : y > x} \in SUBSET {y \in todas : y > x}
      BY <2>3
    <3>2. IsFiniteSet({y \in todas : y > x})
      BY <1>4, <3>1, FS_Subset
    <3> QED
      BY <3>1, <3>2, FS_Subset
  <2>7. Cardinality(S) \in Nat /\ Cardinality(todas) \in Nat
    BY <1>4, <2>3, FS_CardinalityType
  <2>8. j - 1 <= i - 1
    BY <2>1, <2>5, <2>6
  <2>9. j <= n
    BY <1>1, <1>7, <2>7, <2>8
  <2> QED
    BY <1>5, <2>2, <2>4, <2>9
<1> HIDE DEF todas
<1>8. F!Fatia(F!DaUltima(vieram), k, n) = F!Fatia(F!DaUltima(todas), k, n)
  <2>1. vieram \in SUBSET todas
    BY <1>6
  <2> QED
    BY <1>1, <1>4, <1>7, <2>1, MesmaFatia
<1> QED
  BY <1>2, <1>8 DEF todas, n, k

\* The two tables share no row, so that their counts add up.
LEMMA TotalCerto ==
    ASSUME historico \in Seq(Venda), NEW m, NEW filtro
    PROVE  F!Total(m, filtro)
             = Cardinality(UNION {F!Linhas(m, tipo) : tipo \in F!Incluidos(filtro)})
<1> DEFINE cdp == F!Linhas(m, "CDP")
           sena == F!Linhas(m, "SENA")
           quais == F!Incluidos(filtro)
           todas == UNION {F!Linhas(m, tipo) : tipo \in quais}
<1>1. quais \in SUBSET {"CDP", "SENA"}
  BY DEF F!Incluidos, F!Tipos
<1>2. /\ IsFiniteSet(cdp) /\ IsFiniteSet(sena)
      /\ Cardinality(cdp) \in Nat /\ Cardinality(sena) \in Nat
  BY LinhasFinitas, FS_CardinalityType
<1>3. cdp \cap sena = {}
  BY DEF F!Linhas
<1>4. F!Total(m, filtro) = (IF "CDP" \in quais THEN Cardinality(cdp) ELSE 0)
                             + (IF "SENA" \in quais THEN Cardinality(sena) ELSE 0)
  BY ContaFrota DEF F!Total
<1>5. todas = (IF "CDP" \in quais THEN cdp ELSE {}) \cup (IF "SENA" \in quais THEN sena ELSE {})
  <2> HIDE DEF quais
  <2> QED
    BY <1>1
<1>6. Cardinality({}) = 0 /\ IsFiniteSet({})
  BY FS_EmptySet
<1>7. Cardinality(cdp \cup sena) = Cardinality(cdp) + Cardinality(sena)
  <2>1. Cardinality(cdp \cup sena) = Cardinality(cdp) + Cardinality(sena) - Cardinality(cdp \cap sena)
    BY <1>2, FS_Union
  <2>2. Cardinality(cdp \cap sena) = 0
    BY <1>3, <1>6
  <2> HIDE DEF cdp, sena
  <2> QED
    BY <1>2, <2>1, <2>2
<1> HIDE DEF cdp, sena, quais, todas
<1> QED
  <2>1. Cardinality(todas) = (IF "CDP" \in quais THEN Cardinality(cdp) ELSE 0)
                             + (IF "SENA" \in quais THEN Cardinality(sena) ELSE 0)
    <3>1. CASE "CDP" \in quais /\ "SENA" \in quais
      BY <3>1, <1>5, <1>7
    <3>2. CASE "CDP" \in quais /\ "SENA" \notin quais
      <4>1. todas = cdp
        BY <3>2, <1>5
      <4> QED
        BY <3>2, <4>1, <1>2
    <3>3. CASE "CDP" \notin quais /\ "SENA" \in quais
      <4>1. todas = sena
        BY <3>3, <1>5
      <4> QED
        BY <3>3, <4>1, <1>2
    <3>4. CASE "CDP" \notin quais /\ "SENA" \notin quais
      <4>1. todas = {}
        BY <3>4, <1>5
      <4> QED
        BY <3>4, <4>1, <1>6
    <3> QED
      BY <3>1, <3>2, <3>3, <3>4
  <2> QED
    BY <1>4, <2>1 DEF todas, quais

LEMMA PaginasSempreFecham ==
    ASSUME historico \in Seq(Venda)
    PROVE  F!PaginasFecham
<1>1. Len(historico) \in Nat /\ DOMAIN historico = 1..Len(historico)
  OBVIOUS
<1>2. \A p \in DOMAIN historico : p \in Nat \ {0}
  BY <1>1
<1>3. \A p \in 1..(Len(historico) + 1) : p \in Nat \ {0}
  BY <1>1
<1> QED
  BY <1>2, <1>3, ContaFrota, TotalCerto, PaginaCerta DEF F!PaginasFecham

-------------------------------------------------------------------------------
\* A step of one part leaves the rows of the others alone.
LEMMA ClientePara == ASSUME ClienteInv, UNCHANGED clientes PROVE ClienteInv'
<1>1. redeDe' = redeDe /\ vinculo' = vinculo /\ alteracao' = alteracao
  BY DEF clientes
<1>2. ASSUME NEW p \in Alteracoes PROVE AlteracaoServe(alteracao[p])'
  <2>1. AlteracaoServe(alteracao'[p])
    BY <1>1 DEF ClienteInv
  <2> QED
    BY <2>1, <1>1 DEF AlteracaoServe, LeituraServe, DecisaoServe, ComRede
<1> QED
  BY <1>1, <1>2 DEF ClienteInv, ComRede, Alteracao, C!Vinculo, C!SemCadastro, C!Atores, C!Informe

LEMMA CompraPara == ASSUME CompraInv, UNCHANGED compras PROVE CompraInv'
<1>1. redeDaCompra' = redeDaCompra /\ vinculoDaCompra' = vinculoDaCompra /\ compra' = compra
  BY DEF compras
<1> QED
  BY <1>1 DEF CompraInv, CompraServe, CorpoServe, ParServe, DaRede, O!Pares, O!Orfao

LEMMA LinkPara == ASSUME LinkInv, UNCHANGED links PROVE LinkInv'
<1>1. UNCHANGED K!vars
  BY DEF links, K!vars
<1> QED
  BY <1>1, LinkDaLinha

LEMMA FrotaPara == ASSUME FrotaInv, UNCHANGED maquinas PROVE FrotaInv'
<1>1. /\ redeDaFrota' = redeDaFrota /\ aprovado' = aprovado /\ maquina' = maquina
      /\ tarefa' = tarefa /\ historico' = historico /\ mudou' = mudou /\ concorreu' = concorreu
  BY DEF maquinas
<1>2. ASSUME NEW o \in Pedidos PROVE TarefaTipada(tarefa[o])'
  BY <1>1 DEF FrotaInv, TarefaTipada, F!Existe, F!SemLinha, F!Tipos
<1>3. F!EmVoo' = F!EmVoo
  BY <1>1 DEF F!EmVoo, F!Livre
<1>4. ASSUME ~concorreu'
      PROVE  /\ \A o, s \in F!EmVoo' : o = s
             /\ \A o \in Pedidos : TarefaEmDia(tarefa[o])'
             /\ \A o \in Maquininhas : Vale(maquina[o].v, maquina[o].d)'
             /\ \A i \in DOMAIN historico : VendaEmDia(historico[i])'
  <2>1. ~concorreu
    BY <1>1, <1>4
  <2>2. \A o \in Pedidos : TarefaEmDia(tarefa[o])'
    BY <1>1, <2>1 DEF FrotaInv, TarefaEmDia, Vale, F!VendedorDaRede, F!RedeDaVenda
  <2>3. \A o \in Maquininhas : Vale(maquina[o].v, maquina[o].d)'
    BY <1>1, <2>1 DEF FrotaInv, Vale, F!VendedorDaRede
  <2>4. \A i \in DOMAIN historico : VendaEmDia(historico[i])'
    BY <1>1, <2>1 DEF FrotaInv, VendaEmDia, F!Existe, F!SemLinha
  <2> QED
    BY <1>3, <2>1, <2>2, <2>3, <2>4 DEF FrotaInv
<1> QED
  BY <1>1, <1>2, <1>4 DEF FrotaInv, F!Linha, F!SemLinha

\* A behaviour of the five is one of each.
RedesInv == IInv /\ ClienteInv /\ CompraInv /\ LinkInv /\ FrotaInv

LEMMA RedesInvariante == RedesSpec => []RedesInv
<1>1. RedesInit => RedesInv
  BY InitIInv, ClienteInicia, CompraInicia, LinkInicia, FrotaInicia DEF RedesInit, RedesInv
<1>2. RedesInv /\ [RedesNext]_<<vars, clientes, compras, links, maquinas>> => RedesInv'
  <2> SUFFICES ASSUME RedesInv, [RedesNext]_<<vars, clientes, compras, links, maquinas>>
               PROVE  RedesInv'
    OBVIOUS
  <2>1. /\ Next \/ UNCHANGED vars
        /\ C!Next \/ UNCHANGED clientes
        /\ O!Next \/ UNCHANGED compras
        /\ K!Next \/ UNCHANGED links
        /\ F!Next \/ UNCHANGED maquinas
    BY DEF RedesNext, PassoDoCadastro, PassoDoCliente, PassoDaCompra, PassoDoLink, PassoDaFrota
  <2>2. IInv'
    BY <2>1, NextIInv DEF RedesInv
  <2>3. ClienteInv' /\ CompraInv'
    BY <2>1, ClienteSegue, ClientePara, CompraSegue, CompraPara DEF RedesInv
  <2>4. LinkInv' /\ FrotaInv'
    BY <2>1, LinkSegue, LinkPara, FrotaSegue, FrotaPara DEF RedesInv
  <2> QED
    BY <2>2, <2>3, <2>4 DEF RedesInv
<1> QED
  BY <1>1, <1>2, PTL DEF RedesSpec

\* However the rows move under its PATCH, a customer keeps a link that the CHECK of its table
\* accepts, in the network of who acted or in none, with its seller when none is named
\* (ClientesService.update, resolverVinculoDoUpdate).
THEOREM VinculoSempreSobrevive == RedesSpec => []VinculoSobrevive
<1>1. RedesInv => VinculoSobrevive
  BY ClientePromete DEF RedesInv
<1> QED
  BY <1>1, RedesInvariante, PTL

\* A purchase credits who sold it and the network of then, equally in both products, and the
\* customer follows it (resolverOrigemDaVenda, resolverVinculoDoCliente).
THEOREM CreditoSempreTemOrigem == RedesSpec => []CreditoTemOrigem
<1>1. RedesInv => CreditoTemOrigem
  BY CompraPromete DEF RedesInv
<1> QED
  BY <1>1, RedesInvariante, PTL

\* The QR code of a seller opens the shop of its product and draws the link of its row, however
\* uploads, batches and renamings interleave (QrcodeService).
THEOREM ImagemSempreConfere == RedesSpec => []ImagemConfere
<1>1. RedesInv => ImagemConfere
  BY LinkPromete DEF RedesInv
<1> QED
  BY <1>1, RedesInvariante, PTL

\* While no two requests overlapped, the seller of a card machine is of its network, and so is
\* every sale it made; no filter widens a list of machines; and at any time, not only between
\* requests, the pages of a history show each sale once (MaquininhasService, PosService).
THEOREM FrotaSempreConfere == RedesSpec => [](FrotaConfere /\ F!PaginasFecham)
<1>1. RedesInv => FrotaConfere /\ F!PaginasFecham
  <2> SUFFICES ASSUME RedesInv PROVE FrotaConfere /\ F!PaginasFecham
    OBVIOUS
  <2>1. FrotaEmSerie
    BY FrotaPromete DEF RedesInv
  <2>2. historico \in Seq(Venda)
    BY DEF RedesInv, FrotaInv
  <2>3. F!PaginasFecham
    BY <2>2, PaginasSempreFecham
  <2> QED
    BY <2>1, <2>3 DEF FrotaConfere
<1> QED
  BY <1>1, RedesInvariante, PTL

\* Beside customers, purchases, links and machines, nobody operates who may not.
THEOREM SoOperaQuemPodeNasRedes == RedesSpec => []OperaQuemPode
<1>1. RedesInv => OperaQuemPode
  BY TiposDeIInv DEF RedesInv, OperaQuemPode
<1> QED
  BY <1>1, RedesInvariante, PTL
===============================================================================
