--------------------------- MODULE CicloSena_proofs ---------------------------
(***************************************************************************)
(* The life of a Sena edition, for any editions, cards, results, requests  *)
(* and workers: nothing is judged without its result, a removal leaves no  *)
(* trace behind, and a cancelled sale keeps no card and stays so,          *)
(* unless it was being confirmed meanwhile.                                *)
(***************************************************************************)
EXTENDS CicloSenaEmSerie, FiniteSetTheorems, TLAPS

\* What a request serves: an edition; a result to write; a judging only of an edition that
\* has its result, by a result and over cards of that edition.
PedidosServem ==
    \A p \in Pedidos :
        /\ pedido[p].passo # "ocioso" => pedido[p].e \in Edicoes
        /\ pedido[p].passo \in {"gravar", "listar", "julgar"} => pedido[p].r \in Resultados
        /\ pedido[p].passo \in {"avancar", "listar", "julgar"} => resultado[pedido[p].e] # Nulo
        /\ \A c \in pedido[p].fila : EdicaoDe[c] = pedido[p].e

IInv == TiposDaEdicao /\ PedidosServem /\ ResultadoAntesDeApurar

LEMMA EdicaoDasLinhas == \A c \in Cartelas : EdicaoDe[c] \in Edicoes
BY CicloSenaAssumption DEF EdicaoDe

LEMMA InitIInv == Init => IInv
<1> SUFFICES ASSUME Init PROVE IInv
  OBVIOUS
<1>1. TiposDaEdicao
  <2>1. Ocioso \in Pedido /\ Ocioso.passo = "ocioso" /\ Ocioso.e = Nulo
    BY DEF Ocioso, Pedido, Passos
  <2>2. CicloOcioso \in [passo : PassosDoCiclo, edicoes : SUBSET Edicoes]
    BY DEF CicloOcioso, PassosDoCiclo
  <2> QED
    BY <2>1, <2>2 DEF Init, TiposDaEdicao, Tempos, Cartoes
<1>2. PedidosServem
  BY DEF Init, PedidosServem, Ocioso
<1>3. ResultadoAntesDeApurar
  BY DEF Init, ResultadoAntesDeApurar, Faixas
<1> QED
  BY <1>1, <1>2, <1>3 DEF IInv

\* A request that serves, given the results of the editions.
Serve(r, resultados) ==
    /\ r \in Pedido
    /\ r.passo = "ocioso" <=> r.e = Nulo
    /\ r.passo # "ocioso" => r.e \in Edicoes
    /\ r.passo \in {"gravar", "listar", "julgar"} => r.r \in Resultados
    /\ r.passo \in {"avancar", "listar", "julgar"} => resultados[r.e] # Nulo
    /\ \A c \in r.fila : EdicaoDe[c] = r.e

LEMMA OciosoServe == \A resultados : Serve(Ocioso, resultados)
BY DEF Serve, Ocioso, Pedido, Passos

LEMMA PedidoDeIInv ==
    ASSUME IInv, NEW p \in Pedidos
    PROVE  Serve(pedido[p], resultado)
BY DEF IInv, TiposDaEdicao, PedidosServem, Serve

\* A step that leaves the edition and the cards as they are.
LEMMA SoPedidoIInv ==
    ASSUME IInv, NEW p \in Pedidos, NEW r, Serve(r, resultado), pedido' = [pedido EXCEPT ![p] = r],
           UNCHANGED <<edicao, cartela, ciclo>>
    PROVE  IInv'
<1>1. TiposDaEdicao'
  BY DEF IInv, TiposDaEdicao, Serve, edicao
<1>2. PedidosServem'
  BY DEF IInv, TiposDaEdicao, PedidosServem, Serve, edicao
<1>3. ResultadoAntesDeApurar'
  BY DEF IInv, ResultadoAntesDeApurar, edicao
<1> QED
  BY <1>1, <1>2, <1>3 DEF IInv

\* The first read of each handler.
LEMMA NovoIInv ==
    ASSUME IInv, NEW p \in Pedidos, NEW e \in Edicoes, NEW passo \in Passos,
           status[e] \in StatusEdicaoSena,
           passo \in {"editar", "conflito", "encerrar", "remover"}, Novo(p, e, passo),
           UNCHANGED <<edicao, cartela, ciclo>>
    PROVE  IInv'
<1> DEFINE r == [Ocioso EXCEPT !.passo = passo, !.e = e, !.lido = status[e]]
<1>1. Serve(r, resultado)
  BY CicloSenaAssumption DEF Serve, Ocioso, Pedido
<1>2. pedido' = [pedido EXCEPT ![p] = r]
  BY DEF Novo
<1> HIDE DEF r
<1> QED
  BY <1>1, <1>2, SoPedidoIInv

LEMMA IniciosIInv ==
    ASSUME IInv, NEW p \in Pedidos, NEW e \in Edicoes
    PROVE  /\ IniciarEdicao(p, e) \/ IniciarAtivacao(p, e) => IInv'
           /\ IniciarEncerramento(p, e) \/ IniciarRemocao(p, e) => IInv'
           /\ \A r \in Resultados : IniciarResultado(p, e, r) => IInv'
           /\ IniciarApuracao(p, e) => IInv'
<1>1. ASSUME \/ IniciarEdicao(p, e) \/ IniciarAtivacao(p, e)
             \/ IniciarEncerramento(p, e) \/ IniciarRemocao(p, e)
      PROVE  IInv'
  BY <1>1, NovoIInv DEF IniciarEdicao, IniciarAtivacao, IniciarEncerramento, IniciarRemocao,
     StatusEdicaoSena, Passos
<1>2. ASSUME NEW r \in Resultados, IniciarResultado(p, e, r) PROVE IInv'
  <2> DEFINE q == [passo |-> "gravar", e |-> e, lido |-> status[e], r |-> r, fila |-> {}]
  <2>1. Serve(q, resultado)
    BY <1>2, CicloSenaAssumption DEF IniciarResultado, Serve, Pedido, Passos, StatusEdicaoSena
  <2>2. pedido' = [pedido EXCEPT ![p] = q] /\ UNCHANGED <<edicao, cartela, ciclo>>
    BY <1>2 DEF IniciarResultado
  <2> HIDE DEF q
  <2> QED
    BY <2>1, <2>2, SoPedidoIInv
<1>3. ASSUME IniciarApuracao(p, e) PROVE IInv'
  <2> DEFINE q == [passo |-> "listar", e |-> e, lido |-> status[e], r |-> resultado[e], fila |-> {}]
  <2>1. resultado[e] \in Resultados
    BY <1>3 DEF IniciarApuracao, IInv, TiposDaEdicao
  <2>2. Serve(q, resultado)
    BY <1>3, <2>1, CicloSenaAssumption DEF IniciarApuracao, Serve, Pedido, Passos, StatusEdicaoSena
  <2>3. pedido' = [pedido EXCEPT ![p] = q] /\ UNCHANGED <<edicao, cartela, ciclo>>
    BY <1>3 DEF IniciarApuracao
  <2> HIDE DEF q
  <2> QED
    BY <2>2, <2>3, SoPedidoIInv
<1> QED
  BY <1>1, <1>2, <1>3

\* The steps of a request that write nothing but itself.
LEMMA PassosIInv ==
    ASSUME IInv, NEW p \in Pedidos, ProcurarConflito(p) \/ ListarCartelas(p) \/ Falhar(p)
    PROVE  IInv'
<1>1. Serve(pedido[p], resultado) /\ pedido \in [Pedidos -> Pedido]
  BY PedidoDeIInv DEF IInv, TiposDaEdicao
<1>2. ASSUME Encerrar(p), UNCHANGED <<edicao, cartela, ciclo>> PROVE IInv'
  <2>1. Serve(Ocioso, resultado) /\ pedido' = [pedido EXCEPT ![p] = Ocioso]
    BY <1>2, OciosoServe DEF Encerrar
  <2> QED
    BY <1>2, <2>1, SoPedidoIInv
<1>3. ASSUME ProcurarConflito(p), OutraAtiva(pedido[p].e) = FALSE PROVE IInv'
  <2> DEFINE r == [pedido[p] EXCEPT !.passo = "ativar"]
  <2>1. Serve(r, resultado)
    BY <1>1, <1>3 DEF Serve, Pedido, Passos, ProcurarConflito
  <2>2. pedido' = [pedido EXCEPT ![p] = r] /\ UNCHANGED <<edicao, cartela, ciclo>>
    BY <1>1, <1>3 DEF ProcurarConflito
  <2> HIDE DEF r
  <2> QED
    BY <2>1, <2>2, SoPedidoIInv
<1>4. ASSUME ListarCartelas(p) PROVE IInv'
  <2> DEFINE fila == {c \in Cartelas : EdicaoDe[c] = pedido[p].e /\ cartela[c] = "CONFIRMADA"}
             r == [pedido[p] EXCEPT !.passo = "julgar", !.fila = fila]
  <2>1. fila \subseteq Cartelas /\ \A c \in fila : EdicaoDe[c] = pedido[p].e
    OBVIOUS
  <2>2. pedido' = [pedido EXCEPT ![p] = r] /\ UNCHANGED <<edicao, cartela, ciclo>>
        /\ pedido[p].passo = "listar"
    BY <1>1, <1>4 DEF ListarCartelas
  <2> HIDE DEF fila
  <2>3. Serve(r, resultado)
    BY <1>1, <2>1, <2>2 DEF Serve, Pedido, Passos
  <2> HIDE DEF r
  <2> QED
    BY <2>2, <2>3, SoPedidoIInv
<1> QED
  <2>1. OutraAtiva(pedido[p].e) \in BOOLEAN
    BY DEF OutraAtiva
  <2> QED
    BY <2>1, <1>2, <1>3, <1>4 DEF ProcurarConflito, Falhar

\* What a write leaves of the requests: p's is r, the results only appear.
LEMMA PedidosAvancam ==
    ASSUME IInv, NEW p \in Pedidos, NEW r, Serve(r, resultado'),
           pedido' = [pedido EXCEPT ![p] = r],
           \A e \in Edicoes : resultado[e] # Nulo => resultado'[e] # Nulo
    PROVE  /\ PedidosServem' /\ pedido' \in [Pedidos -> Pedido]
           /\ \A q \in Pedidos : pedido'[q].passo = "ocioso" <=> pedido'[q].e = Nulo
<1>1. /\ pedido \in [Pedidos -> Pedido] /\ r \in Pedido
      /\ \A q \in Pedidos : pedido'[q] = IF q = p THEN r ELSE pedido[q]
  BY DEF IInv, TiposDaEdicao, Serve
<1>2. ASSUME NEW q \in Pedidos PROVE Serve(pedido'[q], resultado')
  <2>1. CASE q = p
    BY <1>1, <2>1
  <2>2. CASE q # p
    <3>1. Serve(pedido[q], resultado) /\ pedido'[q] = pedido[q]
      BY <1>1, <2>2, PedidoDeIInv
    <3> QED
      BY <3>1 DEF Serve
  <2> QED
    BY <2>1, <2>2
<1> QED
  BY <1>1, <1>2 DEF PedidosServem, Serve

LEMMA Terminou ==
    ASSUME IInv, NEW p \in Pedidos, Encerrar(p),
           \A e \in Edicoes : resultado[e] # Nulo => resultado'[e] # Nulo
    PROVE  /\ PedidosServem' /\ pedido' \in [Pedidos -> Pedido]
           /\ \A q \in Pedidos : pedido'[q].passo = "ocioso" <=> pedido'[q].e = Nulo
<1>1. Serve(Ocioso, resultado') /\ pedido' = [pedido EXCEPT ![p] = Ocioso]
  BY OciosoServe DEF Encerrar
<1> QED
  BY <1>1, PedidosAvancam

\* The ADMIN writes the edition: its dates, its status by id, its removal.
LEMMA AdminIInv ==
    ASSUME IInv, NEW p \in Pedidos,
           \/ Editar(p) \/ Ativar(p) \/ EncerrarEdicao(p) \/ Avancar(p) \/ Remover(p)
    PROVE  IInv'
<1> DEFINE e == pedido[p].e
<1>1. /\ Serve(pedido[p], resultado) /\ e \in Edicoes /\ Existe(e) /\ Encerrar(p)
      /\ UNCHANGED <<resultado, apurado, cartela, ciclo>>
  BY PedidoDeIInv DEF Editar, Ativar, EncerrarEdicao, Avancar, MudarStatus, Remover, Serve
<1>2. /\ PedidosServem' /\ pedido' \in [Pedidos -> Pedido]
      /\ \A q \in Pedidos : pedido'[q].passo = "ocioso" <=> pedido'[q].e = Nulo
  BY <1>1, Terminou
<1>3. /\ status \in [Edicoes -> StatusEdicaoSena \cup {"ausente", "removida"}]
      /\ tempo \in [Edicoes -> Tempos]
  BY DEF IInv, TiposDaEdicao
<1>4. CASE Editar(p)
  <2>1. tempo' \in [Edicoes -> Tempos] /\ UNCHANGED status
    BY <1>3, <1>4 DEF Editar
  <2>2. TiposDaEdicao'
    BY <1>1, <1>2, <2>1 DEF IInv, TiposDaEdicao
  <2> QED
    BY <1>1, <1>2, <2>1, <2>2 DEF IInv, ResultadoAntesDeApurar
<1>5. ASSUME NEW st \in {"ATIVA", "ENCERRADA", "APURANDO", "removida"},
             status' = [status EXCEPT ![e] = st], UNCHANGED tempo,
             st = "APURANDO" => resultado[e] # Nulo,
             st = "removida" => SemFilhos(e)
      PROVE  IInv'
  <2> HIDE DEF e
  <2>1. TiposDaEdicao'
    BY <1>1, <1>2, <1>3, <1>5 DEF IInv, TiposDaEdicao, StatusEdicaoSena
  <2>2. ResultadoAntesDeApurar'
    BY <1>1, <1>3, <1>5 DEF IInv, ResultadoAntesDeApurar
    <2> QED
    BY <1>2, <2>1, <2>2 DEF IInv
<1>6. CASE Ativar(p) \/ EncerrarEdicao(p)
  BY <1>5, <1>6 DEF Ativar, EncerrarEdicao, MudarStatus
<1>7. CASE Avancar(p)
  <2>1. resultado[e] # Nulo
    BY <1>1, <1>7 DEF Avancar, MudarStatus, Serve
  <2> QED
    BY <1>5, <1>7, <2>1 DEF Avancar, MudarStatus
<1>8. CASE Remover(p)
  BY <1>5, <1>8 DEF Remover
<1> QED
  BY <1>4, <1>6, <1>7, <1>8

\* A result, new or corrected, is written only for an edition that is there.
LEMMA GravarResultadoIInv ==
    ASSUME IInv, NEW p \in Pedidos, GravarResultado(p)
    PROVE  IInv'
<1> DEFINE e == pedido[p].e
           novo == pedido[p].r
           adiante == [pedido[p] EXCEPT !.passo = "avancar"]
<1>1. /\ Serve(pedido[p], resultado) /\ e \in Edicoes /\ novo \in Resultados /\ Existe(e)
      /\ pedido[p].passo = "gravar"
      /\ resultado' = [resultado EXCEPT ![e] = novo]
      /\ apurado' = [apurado EXCEPT ![e] = FALSE]
      /\ pedido' = [pedido EXCEPT ![p] = adiante] \/ Encerrar(p)
      /\ UNCHANGED <<status, tempo, cartela, ciclo>>
  <2>1. Serve(pedido[p], resultado) /\ pedido \in [Pedidos -> Pedido]
    BY PedidoDeIInv DEF IInv, TiposDaEdicao
  <2>2. pedido' = [pedido EXCEPT ![p] = adiante] \/ Encerrar(p)
    BY <2>1 DEF GravarResultado
  <2> QED
    BY <2>1, <2>2 DEF GravarResultado, Serve
<1>2. /\ resultado \in [Edicoes -> Resultados \cup {Nulo}]
      /\ apurado \in [Edicoes -> BOOLEAN] /\ Nulo \notin Resultados
  BY CicloSenaAssumption DEF IInv, TiposDaEdicao
<1>3. /\ \A o \in Edicoes : resultado[o] # Nulo => resultado'[o] # Nulo
      /\ resultado'[e] # Nulo
  BY <1>1, <1>2
<1>4. adiante.e = e /\ Serve(adiante, resultado')
  BY <1>1, <1>3 DEF Serve, Pedido, Passos
<1> HIDE DEF adiante
<1>5. /\ PedidosServem' /\ pedido' \in [Pedidos -> Pedido]
      /\ \A q \in Pedidos : pedido'[q].passo = "ocioso" <=> pedido'[q].e = Nulo
  BY <1>1, <1>3, <1>4, PedidosAvancam, Terminou
<1> HIDE DEF e, novo
<1>6. TiposDaEdicao'
  BY <1>1, <1>2, <1>5 DEF IInv, TiposDaEdicao
<1>7. ResultadoAntesDeApurar'
  BY <1>1, <1>3, EdicaoDasLinhas DEF IInv, ResultadoAntesDeApurar
<1> QED
  BY <1>5, <1>6, <1>7 DEF IInv

LEMMA FaixaValida == \A c, r : Faixa(c, r) \in Faixas
BY DEF Faixa, Faixas

\* A card is judged, and the edition finished, by a request that has a result.
LEMMA JulgarIInv ==
    ASSUME IInv, NEW p \in Pedidos
    PROVE  /\ \A c \in Cartelas : Julgar(p, c) => IInv'
           /\ Finalizar(p) => IInv'
<1> DEFINE e == pedido[p].e
<1>1. /\ Serve(pedido[p], resultado) /\ pedido \in [Pedidos -> Pedido]
      /\ status \in [Edicoes -> StatusEdicaoSena \cup {"ausente", "removida"}]
      /\ apurado \in [Edicoes -> BOOLEAN] /\ cartela \in [Cartelas -> Cartoes]
  BY PedidoDeIInv DEF IInv, TiposDaEdicao
<1>2. ASSUME NEW c \in Cartelas, Julgar(p, c) PROVE IInv'
  <2> DEFINE faixa == Faixa(c, pedido[p].r)
             r == [pedido[p] EXCEPT !.fila = pedido[p].fila \ {c}]
  <2>1. /\ EdicaoDe[c] = e /\ resultado[e] # Nulo /\ TemLinha(c) /\ e \in Edicoes
        /\ cartela' = [cartela EXCEPT ![c] = faixa]
        /\ pedido' = [pedido EXCEPT ![p] = r] /\ UNCHANGED <<edicao, ciclo>>
    BY <1>1, <1>2 DEF Julgar, Serve
  <2>2. faixa \in Faixas
    BY FaixaValida
  <2>3. Serve(r, resultado')
    <3>1. pedido[p].fila \ {c} \in SUBSET Cartelas
      BY <1>1 DEF Pedido
    <3> QED
      BY <1>1, <2>1, <3>1 DEF Serve, Pedido, edicao
  <2> HIDE DEF faixa, r
  <2>4. /\ PedidosServem' /\ pedido' \in [Pedidos -> Pedido]
        /\ \A q \in Pedidos : pedido'[q].passo = "ocioso" <=> pedido'[q].e = Nulo
    BY <2>1, <2>3, PedidosAvancam DEF edicao
  <2> HIDE DEF e
  <2>5. TiposDaEdicao'
    BY <1>1, <2>1, <2>2, <2>4 DEF IInv, TiposDaEdicao, edicao, Cartoes
  <2>6. ResultadoAntesDeApurar'
    BY <1>1, <2>1 DEF IInv, ResultadoAntesDeApurar, edicao
  <2> QED
    BY <2>4, <2>5, <2>6 DEF IInv
<1>3. ASSUME Finalizar(p) PROVE IInv'
  <2>1. /\ e \in Edicoes /\ resultado[e] # Nulo /\ Encerrar(p)
        /\ apurado' = [apurado EXCEPT ![e] = TRUE]
        /\ status' = [status EXCEPT ![e] = "FINALIZADA"]
        /\ UNCHANGED <<tempo, resultado, cartela, ciclo>>
    BY <1>1, <1>3 DEF Finalizar, Serve
  <2>2. /\ PedidosServem' /\ pedido' \in [Pedidos -> Pedido]
        /\ \A q \in Pedidos : pedido'[q].passo = "ocioso" <=> pedido'[q].e = Nulo
    BY <2>1, Terminou
  <2> HIDE DEF e
  <2>3. TiposDaEdicao'
    BY <1>1, <2>1, <2>2 DEF IInv, TiposDaEdicao, StatusEdicaoSena
  <2>4. ResultadoAntesDeApurar'
    BY <1>1, <2>1 DEF IInv, ResultadoAntesDeApurar
  <2> QED
    BY <2>2, <2>3, <2>4 DEF IInv
<1> QED
  BY <1>2, <1>3

\* The steps that write neither results nor requests.
LEMMA RestoIInv ==
    ASSUME IInv, UNCHANGED <<resultado, apurado, pedido>>,
           status' \in [Edicoes -> StatusEdicaoSena \cup {"ausente", "removida"}],
           tempo' \in [Edicoes -> Tempos], cartela' \in [Cartelas -> Cartoes],
           ciclo' \in [Jobs -> [passo: PassosDoCiclo, edicoes: SUBSET Edicoes]],
           \A e \in Edicoes :
               status'[e] \in {"APURANDO", "FINALIZADA"} => status'[e] = status[e],
           \A c \in Cartelas : cartela'[c] \in Faixas => cartela'[c] = cartela[c]
    PROVE  IInv'
<1>1. TiposDaEdicao' /\ PedidosServem'
  BY DEF IInv, TiposDaEdicao, PedidosServem
<1>2. ResultadoAntesDeApurar'
  BY EdicaoDasLinhas DEF IInv, ResultadoAntesDeApurar
<1> QED
  BY <1>1, <1>2 DEF IInv

LEMMA RelogioIInv ==
    ASSUME IInv, NEW e \in Edicoes, Passar(e) \/ Criar(e)
    PROVE  IInv'
<1>1. /\ status \in [Edicoes -> StatusEdicaoSena \cup {"ausente", "removida"}]
      /\ tempo \in [Edicoes -> Tempos] /\ cartela \in [Cartelas -> Cartoes]
      /\ ciclo \in [Jobs -> [passo: PassosDoCiclo, edicoes: SUBSET Edicoes]]
  BY DEF IInv, TiposDaEdicao
<1>2. /\ tempo' \in [Edicoes -> Tempos]
      /\ \/ UNCHANGED status
         \/ status[e] = "ausente" /\ status' = [status EXCEPT ![e] = "RASCUNHO"]
      /\ UNCHANGED <<resultado, apurado, cartela, pedido, ciclo>>
  BY <1>1 DEF Passar, Criar, Tempos
<1> QED
  BY <1>1, <1>2, RestoIInv DEF StatusEdicaoSena

\* What a step of the sales does to the cards: it inserts and deletes rows.
LEMMA LinhasDaVenda ==
    ASSUME PassoDaVenda
    PROVE  /\ UNCHANGED <<edicao, pedido, ciclo>>
           /\ \/ UNCHANGED cartela
              \/ \E cs \in SUBSET Cartelas, x \in {"CONFIRMADA", "apagada"} :
                     cartela' = [c \in Cartelas |-> IF c \in cs THEN x ELSE cartela[c]]
<1>1. UNCHANGED <<edicao, pedido, ciclo>>
  BY DEF PassoDaVenda
<1>2. ASSUME NEW v, Emitir(v)
      PROVE  \E cs \in SUBSET Cartelas, x \in {"CONFIRMADA", "apagada"} :
                 cartela' = [c \in Cartelas |-> IF c \in cs THEN x ELSE cartela[c]]
  BY <1>2 DEF Emitir, DaVenda
<1>3. ASSUME NEW a \in Atendimentos, CancelarVenda(a)
      PROVE  \E cs \in SUBSET Cartelas, x \in {"CONFIRMADA", "apagada"} :
                 cartela' = [c \in Cartelas |-> IF c \in cs THEN x ELSE cartela[c]]
  <2> DEFINE cs == {c \in Cartelas : atendimento[a].viu /\ c \in ComLinha(atendimento[a].v)}
  <2>1. cartela' = [c \in Cartelas |-> IF c \in cs THEN "apagada" ELSE cartela[c]]
    BY <1>3 DEF CancelarVenda
  <2> QED
    BY <2>1
<1>4. PICK a \in Atendimentos :
        \/ \E v \in Vendas : PedirVenda(a, v) \/ LerParaConfirmar(a, v) \/ LerParaCancelar(a, v)
        \/ InserirVenda(a) \/ InserirManual(a) \/ RecusarVenda(a) \/ ConfirmarPagamento(a)
        \/ VerCartelas(a) \/ CancelarVenda(a) \/ LargarVenda(a)
  BY DEF PassoDaVenda
<1>5. \/ UNCHANGED cartela
      \/ \E v : Emitir(v)
      \/ CancelarVenda(a)
  BY <1>4 DEF PedirVenda, LerParaConfirmar, LerParaCancelar, InserirVenda, InserirManual,
     RecusarVenda, ConfirmarPagamento, VerCartelas, LargarVenda
<1> QED
  BY <1>1, <1>2, <1>3, <1>5

LEMMA VendaIInv ==
    ASSUME IInv, PassoDaVenda
    PROVE  IInv'
<1>1. UNCHANGED <<status, tempo, resultado, apurado, pedido, ciclo>>
  BY LinhasDaVenda DEF edicao
<1>2. /\ cartela' \in [Cartelas -> Cartoes]
      /\ \A c \in Cartelas : cartela'[c] \in Faixas => cartela'[c] = cartela[c]
  BY LinhasDaVenda DEF IInv, TiposDaEdicao, Cartoes, Faixas
<1> QED
  BY <1>1, <1>2, RestoIInv DEF IInv, TiposDaEdicao

LEMMA JobIInv ==
    ASSUME IInv, NEW j \in Jobs,
           \/ ListarExpiradas(j) \/ EncerrarExpiradas(j) \/ ProcurarAtiva(j)
           \/ EscolherRascunho(j) \/ AtivarRascunho(j) \/ FalharCiclo(j)
    PROVE  IInv'
<1>1. /\ status \in [Edicoes -> StatusEdicaoSena \cup {"ausente", "removida"}]
      /\ tempo \in [Edicoes -> Tempos] /\ cartela \in [Cartelas -> Cartoes]
      /\ ciclo \in [Jobs -> [passo: PassosDoCiclo, edicoes: SUBSET Edicoes]]
  BY DEF IInv, TiposDaEdicao
<1>2. UNCHANGED <<tempo, resultado, apurado, cartela, pedido>>
  BY DEF ListarExpiradas, EncerrarExpiradas, ProcurarAtiva, EscolherRascunho, AtivarRascunho,
         FalharCiclo, edicao
<1>3. PICK passo \in PassosDoCiclo, es \in SUBSET Edicoes : IrPara(j, passo, es)
  <2>1. Expiradas \in SUBSET Edicoes /\ \A e \in Rascunhos : e \in Edicoes
    BY DEF Expiradas, Rascunhos
  <2> QED
    BY <2>1 DEF ListarExpiradas, EncerrarExpiradas, ProcurarAtiva, EscolherRascunho,
       AtivarRascunho, FalharCiclo, PassosDoCiclo
<1>4. ciclo' \in [Jobs -> [passo: PassosDoCiclo, edicoes: SUBSET Edicoes]]
  BY <1>1, <1>3 DEF IrPara
<1>5. \/ UNCHANGED status
      \/ status' = [e \in Edicoes |-> IF e \in ciclo[j].edicoes /\ status[e] = "ATIVA"
                                      THEN "ENCERRADA" ELSE status[e]]
      \/ status' = [e \in Edicoes |-> IF e \in ciclo[j].edicoes /\ Existe(e)
                                      THEN "ATIVA" ELSE status[e]]
  BY DEF ListarExpiradas, EncerrarExpiradas, ProcurarAtiva, EscolherRascunho, AtivarRascunho,
         FalharCiclo, edicao
<1>6. /\ status' \in [Edicoes -> StatusEdicaoSena \cup {"ausente", "removida"}]
      /\ \A e \in Edicoes :
            status'[e] \in {"APURANDO", "FINALIZADA"} => status'[e] = status[e]
  BY <1>1, <1>5 DEF StatusEdicaoSena
<1> QED
  BY <1>1, <1>2, <1>4, <1>6, RestoIInv

LEMMA NextIInv == IInv /\ [Next]_vars => IInv'
<1> SUFFICES ASSUME IInv, [Next]_vars PROVE IInv'
  OBVIOUS
<1>1. CASE UNCHANGED vars
  BY <1>1 DEF vars, edicao, IInv, TiposDaEdicao, PedidosServem, ResultadoAntesDeApurar
<1>2. \A e \in Edicoes : Passar(e) \/ Criar(e) => IInv'
  BY RelogioIInv
<1>3. PassoDaVenda => IInv'
  BY VendaIInv
<1>4. ASSUME NEW p \in Pedidos, NEW e \in Edicoes,
             \/ IniciarEdicao(p, e) \/ IniciarAtivacao(p, e)
             \/ IniciarEncerramento(p, e) \/ IniciarRemocao(p, e)
             \/ (\E r \in Resultados : IniciarResultado(p, e, r))
             \/ IniciarApuracao(p, e)
      PROVE  IInv'
  BY <1>4, IniciosIInv
<1>5. ASSUME NEW p \in Pedidos,
             \/ Editar(p) \/ ProcurarConflito(p) \/ Ativar(p) \/ EncerrarEdicao(p) \/ Remover(p)
             \/ GravarResultado(p) \/ Avancar(p) \/ ListarCartelas(p)
             \/ (\E c \in Cartelas : Julgar(p, c)) \/ Finalizar(p) \/ Falhar(p)
      PROVE  IInv'
  BY <1>5, PassosIInv, AdminIInv, GravarResultadoIInv, JulgarIInv
<1>6. ASSUME NEW j \in Jobs,
             \/ ListarExpiradas(j) \/ EncerrarExpiradas(j) \/ ProcurarAtiva(j)
             \/ EscolherRascunho(j) \/ AtivarRascunho(j) \/ FalharCiclo(j)
      PROVE  IInv'
  BY <1>6, JobIInv
<1> QED
  BY <1>1, <1>2, <1>3, <1>4, <1>5, <1>6 DEF Next, PassoDaEdicao

-------------------------------------------------------------------------------
(***************************************************************************)
(* The sales: what a request at the counter may still find when it writes. *)
(***************************************************************************)
\* Rows come with their sale, and a request that is past the insert serves one.
VendasServem ==
    /\ \A c \in Cartelas : venda[VendaDe[c]] = "nenhuma" => cartela[c] = "nenhuma"
    /\ \A a \in Atendimentos : atendimento[a].passo \notin {"ocioso", "criar"} =>
          atendimento[a].v \in Vendas /\ venda[atendimento[a].v] # "nenhuma"

SemLinhas(v) == \A c \in Cartelas : VendaDe[c] = v => ~TemLinha(c)

\* A request that is about to approve is not crossed by one that cancels, nor by one that has
\* cancelled; one that saw no card was right, and stays so.
NaoCruzam ==
    \A v \in Vendas \ disputadas :
        /\ Confirmando(v) = {} \/ Cancelando(v) = {}
        /\ venda[v] = "CANCELADO" => Confirmando(v) = {} /\ SemLinhas(v)
        /\ \A a \in Atendimentos :
              atendimento[a].passo = "cancelar" /\ atendimento[a].v = v /\ ~atendimento[a].viu
                  => SemLinhas(v)

VInv == TiposDaVenda /\ VendasServem /\ RemovidaSemRastro /\ NaoCruzam

LEMMA InitVInv == Init => VInv
<1> SUFFICES ASSUME Init PROVE VInv
  OBVIOUS
<1>1. TiposDaVenda
  BY DEF Init, TiposDaVenda, Atendimento, Parado
<1>2. VendasServem /\ RemovidaSemRastro
  BY DEF Init, VendasServem, RemovidaSemRastro, Parado
<1>3. NaoCruzam
  BY CicloSenaAssumption DEF Init, NaoCruzam, Confirmando, Cancelando, Parado
<1> QED
  BY <1>1, <1>2, <1>3 DEF VInv

LEMMA SemLinhasDe == \A v : SemLinhas(v) <=> ComLinha(v) = {}
BY DEF SemLinhas, ComLinha, DaVenda

\* A step of the ADMIN or of the job creates and deletes no row, and removes an edition only if
\* it has nothing.
LEMMA EdicaoVInv ==
    ASSUME IInv, VInv, UNCHANGED vendas,
           \A c \in Cartelas : /\ cartela[c] = "nenhuma" => cartela'[c] = "nenhuma"
                               /\ TemLinha(c)' <=> TemLinha(c),
           \A e \in Edicoes : status'[e] = "removida" =>
               resultado'[e] = resultado[e] /\ (status[e] = "removida" \/ SemFilhos(e))
    PROVE  VInv'
<1>1. UNCHANGED <<venda, atendimento, disputadas>>
  BY DEF vendas
<1>2. TiposDaVenda' /\ VendasServem'
  BY <1>1 DEF VInv, TiposDaVenda, VendasServem
<1>3. RemovidaSemRastro'
  <2> SUFFICES ASSUME NEW e \in Edicoes, status'[e] = "removida"
               PROVE  /\ resultado'[e] = Nulo
                      /\ \A v \in Vendas : EdicaoDaVenda[v] = e => venda[v] = "nenhuma"
                      /\ \A c \in Cartelas : EdicaoDe[c] = e => cartela'[c] = "nenhuma"
    BY <1>1 DEF RemovidaSemRastro
  <2>1. /\ resultado'[e] = Nulo
        /\ \A v \in Vendas : EdicaoDaVenda[v] = e => venda[v] = "nenhuma"
    BY DEF VInv, RemovidaSemRastro, SemFilhos
  <2>2. \A c \in Cartelas : EdicaoDe[c] = e => venda[VendaDe[c]] = "nenhuma"
    BY <2>1, CicloSenaAssumption DEF EdicaoDe
  <2> QED
    BY <2>1, <2>2 DEF VInv, VendasServem
<1>4. NaoCruzam'
  <2>1. \A v \in Vendas : SemLinhas(v)' <=> SemLinhas(v)
    BY DEF SemLinhas
  <2>2. \A v \in Vendas : Confirmando(v)' = Confirmando(v) /\ Cancelando(v)' = Cancelando(v)
    BY <1>1 DEF Confirmando, Cancelando
  <2> HIDE DEF SemLinhas, Confirmando, Cancelando
  <2> QED
    BY <1>1, <2>1, <2>2 DEF VInv, NaoCruzam
<1> QED
  BY <1>2, <1>3, <1>4 DEF VInv

LEMMA PassoDaEdicaoVInv ==
    ASSUME IInv, VInv, PassoDaEdicao
    PROVE  VInv'
<1> DEFINE Local == /\ \A c \in Cartelas : /\ cartela[c] = "nenhuma" => cartela'[c] = "nenhuma"
                                           /\ TemLinha(c)' <=> TemLinha(c)
                    /\ \A e \in Edicoes : status'[e] = "removida" =>
                          resultado'[e] = resultado[e] /\ (status[e] = "removida" \/ SemFilhos(e))
<1>1. /\ status \in [Edicoes -> StatusEdicaoSena \cup {"ausente", "removida"}]
      /\ resultado \in [Edicoes -> Resultados \cup {Nulo}] /\ cartela \in [Cartelas -> Cartoes]
      /\ \A p \in Pedidos : pedido[p].passo # "ocioso" => pedido[p].e \in Edicoes
  BY DEF IInv, TiposDaEdicao, PedidosServem
<1>2. ASSUME UNCHANGED <<status, resultado, cartela>> PROVE Local
  BY <1>2 DEF TemLinha
<1>3. ASSUME NEW e \in Edicoes, Passar(e) \/ Criar(e) PROVE Local
  BY <1>1, <1>3 DEF Passar, Criar, TemLinha
<1>4. ASSUME NEW p \in Pedidos, NEW e \in Edicoes,
             \/ IniciarEdicao(p, e) \/ IniciarAtivacao(p, e)
             \/ IniciarEncerramento(p, e) \/ IniciarRemocao(p, e)
             \/ (\E r \in Resultados : IniciarResultado(p, e, r))
             \/ IniciarApuracao(p, e)
      PROVE  Local
  BY <1>2, <1>4 DEF IniciarEdicao, IniciarAtivacao, IniciarEncerramento, IniciarRemocao,
     IniciarResultado, IniciarApuracao, edicao
<1>5. ASSUME NEW p \in Pedidos, Editar(p) \/ ProcurarConflito(p) \/ ListarCartelas(p) \/ Falhar(p)
      PROVE  Local
  BY <1>2, <1>5 DEF Editar, ProcurarConflito, ListarCartelas, Falhar, edicao
<1>6. ASSUME NEW p \in Pedidos, Ativar(p) \/ EncerrarEdicao(p) \/ Avancar(p) \/ Finalizar(p)
      PROVE  Local
  <2>1. PICK e \in Edicoes, st \in {"ATIVA", "ENCERRADA", "APURANDO", "FINALIZADA"} :
            status' = [status EXCEPT ![e] = st] /\ UNCHANGED <<resultado, cartela>>
    BY <1>1, <1>6 DEF Ativar, EncerrarEdicao, Avancar, MudarStatus, Finalizar
  <2> QED
    BY <1>1, <2>1 DEF TemLinha
<1>7. ASSUME NEW p \in Pedidos, Remover(p) PROVE Local
  <2>1. /\ status' = [status EXCEPT ![pedido[p].e] = "removida"]
        /\ SemFilhos(pedido[p].e) /\ pedido[p].e \in Edicoes /\ UNCHANGED <<resultado, cartela>>
    BY <1>1, <1>7 DEF Remover
  <2> QED
    BY <1>1, <2>1 DEF TemLinha
<1>8. ASSUME NEW p \in Pedidos, GravarResultado(p) PROVE Local
  <2>1. /\ Existe(pedido[p].e) /\ UNCHANGED <<status, cartela>>
        /\ resultado' = [resultado EXCEPT ![pedido[p].e] = pedido[p].r]
    BY <1>8 DEF GravarResultado
  <2>2. \A e \in Edicoes : status'[e] = "removida" => resultado'[e] = resultado[e]
    BY <1>1, <2>1 DEF Existe, StatusEdicaoSena
  <2> QED
    BY <2>1, <2>2 DEF TemLinha
<1>9. ASSUME NEW p \in Pedidos, NEW c \in Cartelas, Julgar(p, c) PROVE Local
  <2>1. /\ TemLinha(c) /\ UNCHANGED <<status, resultado>>
        /\ cartela' = [cartela EXCEPT ![c] = Faixa(c, pedido[p].r)]
    BY <1>9 DEF Julgar, edicao
  <2>2. Faixa(c, pedido[p].r) \in Faixas
    BY FaixaValida
  <2>3. \A d \in Cartelas : d # c => cartela'[d] = cartela[d]
    BY <1>1, <2>1
  <2>4. cartela'[c] \in Faixas
    BY <1>1, <2>1, <2>2
  <2> QED
    BY <2>1, <2>3, <2>4 DEF TemLinha, Faixas
<1>10. ASSUME NEW j \in Jobs,
             \/ ListarExpiradas(j) \/ EncerrarExpiradas(j) \/ ProcurarAtiva(j)
             \/ EscolherRascunho(j) \/ AtivarRascunho(j) \/ FalharCiclo(j)
      PROVE  Local
  <2>1. UNCHANGED <<resultado, cartela>>
    BY <1>10 DEF ListarExpiradas, EncerrarExpiradas, ProcurarAtiva, EscolherRascunho,
       AtivarRascunho, FalharCiclo, edicao
  <2>2. \A e \in Edicoes : status'[e] = "removida" => status[e] = "removida"
    BY <1>10 DEF ListarExpiradas, EncerrarExpiradas, ProcurarAtiva, EscolherRascunho,
       AtivarRascunho, FalharCiclo, edicao
  <2> QED
    BY <2>1, <2>2 DEF TemLinha
<1>11. Local
  BY <1>3, <1>4, <1>5, <1>6, <1>7, <1>8, <1>9, <1>10 DEF PassoDaEdicao
<1>12. UNCHANGED vendas
  BY DEF PassoDaEdicao
<1> QED
  BY <1>11, <1>12, EdicaoVInv
-------------------------------------------------------------------------------
\* What request a may be doing, given the sales and the cards.
Atende(r) ==
    /\ r \in Atendimento /\ (r.passo = "ocioso" <=> r.v = Nulo)
    /\ r.passo \notin {"ocioso", "criar"} => r.v \in Vendas /\ venda[r.v] # "nenhuma"
    /\ r.passo = "aprovar" => venda[r.v] # "CANCELADO"
    /\ r.passo = "cancelar" /\ ~r.viu => SemLinhas(r.v)

\* The requests that stay as they were.
LEMMA OutrosFicam ==
    ASSUME TiposDaVenda, NEW a \in Atendimentos, NEW r, atendimento' = [atendimento EXCEPT ![a] = r]
    PROVE  /\ atendimento'[a] = r
           /\ \A b \in Atendimentos : b # a => atendimento'[b] = atendimento[b]
           /\ \A v : /\ Confirmando(v)' \subseteq Confirmando(v) \cup {a}
                     /\ r.passo # "aprovar" \/ r.v # v => Confirmando(v)' \subseteq Confirmando(v) \ {a}
                     /\ Cancelando(v) \subseteq Cancelando(v)' \cup {a}
BY DEF TiposDaVenda, Confirmando, Cancelando

\* A request that writes nothing but itself.
LEMMA SoAtendimentoVInv ==
    ASSUME VInv, UNCHANGED <<edicao, cartela, venda>>, NEW a \in Atendimentos, NEW r, Atende(r),
           atendimento' = [atendimento EXCEPT ![a] = r],
           disputadas' = disputadas \cup {v \in Vendas : Confirmando(v)' # {} /\ Cancelando(v)' # {}}
    PROVE  VInv'
<1>1. /\ atendimento \in [Atendimentos -> Atendimento] /\ atendimento'[a] = r
      /\ \A b \in Atendimentos : b # a => atendimento'[b] = atendimento[b]
      /\ \A v : /\ Confirmando(v)' \subseteq Confirmando(v) \cup {a}
                /\ r.passo # "aprovar" \/ r.v # v => Confirmando(v)' \subseteq Confirmando(v) \ {a}
  BY OutrosFicam DEF VInv, TiposDaVenda
<1>2. TiposDaVenda'
  BY <1>1 DEF VInv, TiposDaVenda, Atende
<1>3. VendasServem'
  <2> SUFFICES ASSUME NEW b \in Atendimentos, atendimento'[b].passo \notin {"ocioso", "criar"}
               PROVE  atendimento'[b].v \in Vendas /\ venda'[atendimento'[b].v] # "nenhuma"
    BY DEF VInv, VendasServem
  <2> QED
    BY <1>1 DEF VInv, VendasServem, Atende
<1>4. RemovidaSemRastro'
  BY DEF VInv, RemovidaSemRastro, edicao
<1>5. \A v \in Vendas : SemLinhas(v)' <=> SemLinhas(v)
  BY DEF SemLinhas, TemLinha
<1>6. ASSUME NEW v \in Vendas \ disputadas'
      PROVE  /\ Confirmando(v)' = {} \/ Cancelando(v)' = {}
             /\ venda'[v] = "CANCELADO" => Confirmando(v)' = {} /\ SemLinhas(v)'
             /\ \A b \in Atendimentos : /\ atendimento'[b].passo = "cancelar"
                                        /\ atendimento'[b].v = v /\ ~atendimento'[b].viu
                    => SemLinhas(v)'
  <2> HIDE DEF SemLinhas
  <2>1. v \in Vendas \ disputadas /\ (Confirmando(v)' = {} \/ Cancelando(v)' = {})
    OBVIOUS
  <2>2. ASSUME venda'[v] = "CANCELADO" PROVE Confirmando(v)' = {} /\ SemLinhas(v)'
    <3>1. Confirmando(v) = {} /\ SemLinhas(v)
      BY <2>1, <2>2 DEF VInv, NaoCruzam
    <3>2. r.passo # "aprovar" \/ r.v # v
      BY <2>2 DEF Atende
    <3> QED
      BY <1>1, <1>5, <3>1, <3>2
  <2>3. ASSUME NEW b \in Atendimentos, atendimento'[b].passo = "cancelar",
               atendimento'[b].v = v, ~atendimento'[b].viu
        PROVE  SemLinhas(v)'
    <3>1. CASE b = a
      BY <1>1, <1>5, <2>3, <3>1 DEF Atende
    <3>2. CASE b # a
      BY <1>1, <1>5, <2>1, <2>3, <3>2 DEF VInv, NaoCruzam
    <3> QED
      BY <3>1, <3>2
  <2> QED
    BY <2>1, <2>2, <2>3
<1>7. NaoCruzam'
  BY <1>6 DEF NaoCruzam
<1> QED
  BY <1>2, <1>3, <1>4, <1>7 DEF VInv
\* A request writes the sale it serves, and its rows: st is what the sale becomes.
LEMMA EscritaVInv ==
    ASSUME VInv, UNCHANGED edicao, NEW a \in Atendimentos, NEW v \in Vendas, NEW r \in Atendimento,
           r.passo = "ocioso" <=> r.v = Nulo, r.passo \in {"ocioso", "cobrar"},
           r.passo # "ocioso" => r.v = v,
           NEW st \in {"PENDENTE", "RECUSADO", "APROVADO", "CANCELADO"},
           atendimento' = [atendimento EXCEPT ![a] = r], venda' = [venda EXCEPT ![v] = st],
           status[EdicaoDaVenda[v]] # "removida",
           \A c \in Cartelas : VendaDe[c] # v => cartela'[c] = cartela[c],
           v \in disputadas \/ (st = "CANCELADO" => Confirmando(v) = {} /\ SemLinhas(v)'),
           v \in disputadas \/ \A b \in Atendimentos :
               /\ atendimento[b].passo = "cancelar" /\ atendimento[b].v = v /\ ~atendimento[b].viu
               => SemLinhas(v)',
           disputadas' = disputadas \cup {w \in Vendas : Confirmando(w)' # {} /\ Cancelando(w)' # {}}
    PROVE  VInv'
<1>1. /\ atendimento \in [Atendimentos -> Atendimento] /\ atendimento'[a] = r
      /\ \A b \in Atendimentos : b # a => atendimento'[b] = atendimento[b]
      /\ \A w : Confirmando(w)' \subseteq Confirmando(w) \ {a}
  BY OutrosFicam DEF VInv, TiposDaVenda
<1>2. /\ venda'[v] = st /\ \A w \in Vendas : w # v => venda'[w] = venda[w]
      /\ \A w \in Vendas : venda'[w] = "nenhuma" => venda[w] = "nenhuma" /\ w # v
  BY DEF VInv, TiposDaVenda
<1>3. TiposDaVenda'
  BY <1>1, <1>2 DEF VInv, TiposDaVenda
<1>4. VendasServem'
  <2>1. ASSUME NEW c \in Cartelas, venda'[VendaDe[c]] = "nenhuma" PROVE cartela'[c] = "nenhuma"
    <3>1. VendaDe[c] \in Vendas
      BY CicloSenaAssumption
    <3> QED
      BY <1>2, <2>1, <3>1 DEF VInv, VendasServem
  <2>2. ASSUME NEW b \in Atendimentos, atendimento'[b].passo \notin {"ocioso", "criar"}
        PROVE  atendimento'[b].v \in Vendas /\ venda'[atendimento'[b].v] # "nenhuma"
    BY <1>1, <1>2, <2>2 DEF VInv, VendasServem
  <2> QED
    BY <2>1, <2>2 DEF VendasServem
<1>5. RemovidaSemRastro'
  <2> SUFFICES ASSUME NEW e \in Edicoes, status[e] = "removida"
               PROVE  /\ resultado[e] = Nulo
                      /\ \A w \in Vendas : EdicaoDaVenda[w] = e => venda'[w] = "nenhuma"
                      /\ \A c \in Cartelas : EdicaoDe[c] = e => cartela'[c] = "nenhuma"
    BY DEF RemovidaSemRastro, edicao
  <2>1. /\ resultado[e] = Nulo /\ EdicaoDaVenda[v] # e
        /\ \A w \in Vendas : EdicaoDaVenda[w] = e => venda[w] = "nenhuma"
        /\ \A c \in Cartelas : EdicaoDe[c] = e => cartela[c] = "nenhuma"
    BY DEF VInv, RemovidaSemRastro
  <2>2. \A c \in Cartelas : EdicaoDe[c] = e => VendaDe[c] # v
    BY <2>1 DEF EdicaoDe
  <2> QED
    BY <1>2, <2>1, <2>2
<1>6. \A w \in Vendas : w # v => (SemLinhas(w)' <=> SemLinhas(w))
  BY DEF SemLinhas, TemLinha
<1>7. ASSUME NEW w \in Vendas \ disputadas'
      PROVE  /\ Confirmando(w)' = {} \/ Cancelando(w)' = {}
             /\ venda'[w] = "CANCELADO" => Confirmando(w)' = {} /\ SemLinhas(w)'
             /\ \A b \in Atendimentos : /\ atendimento'[b].passo = "cancelar"
                                        /\ atendimento'[b].v = w /\ ~atendimento'[b].viu
                    => SemLinhas(w)'
  <2> HIDE DEF SemLinhas
  <2>1. w \in Vendas \ disputadas /\ (Confirmando(w)' = {} \/ Cancelando(w)' = {})
    OBVIOUS
  <2>2. ASSUME venda'[w] = "CANCELADO" PROVE Confirmando(w)' = {} /\ SemLinhas(w)'
    <3>1. CASE w = v
      BY <1>1, <1>2, <2>1, <2>2, <3>1
    <3>2. CASE w # v
      BY <1>1, <1>2, <1>6, <2>1, <2>2, <3>2 DEF VInv, NaoCruzam
    <3> QED
      BY <3>1, <3>2
  <2>3. ASSUME NEW b \in Atendimentos, atendimento'[b].passo = "cancelar",
               atendimento'[b].v = w, ~atendimento'[b].viu
        PROVE  SemLinhas(w)'
    <3>1. b # a /\ atendimento'[b] = atendimento[b]
      BY <1>1, <2>3
    <3>2. CASE w = v
      BY <2>1, <2>3, <3>1, <3>2
    <3>3. CASE w # v
      BY <1>6, <2>1, <2>3, <3>1, <3>3 DEF VInv, NaoCruzam
    <3> QED
      BY <3>2, <3>3
  <2> QED
    BY <2>1, <2>2, <2>3
<1>8. NaoCruzam'
  BY <1>7 DEF NaoCruzam
<1> QED
  BY <1>3, <1>4, <1>5, <1>8 DEF VInv

\* Where a request is, it serves a sale; past the insert, one of an edition that is there.
LEMMA Servida ==
    ASSUME VInv, NEW a \in Atendimentos, atendimento[a].passo # "ocioso"
    PROVE  /\ atendimento[a].v \in Vendas
           /\ venda[atendimento[a].v] # "nenhuma"
                 => status[EdicaoDaVenda[atendimento[a].v]] # "removida"
<1>1. atendimento[a].v \in Vendas
  BY DEF VInv, TiposDaVenda, Atendimento
<1>2. EdicaoDaVenda[atendimento[a].v] \in Edicoes
  BY <1>1, CicloSenaAssumption
<1> QED
  BY <1>1, <1>2 DEF VInv, RemovidaSemRastro

LEMMA ParadoTipo == Parado \in Atendimento /\ Parado.passo = "ocioso" /\ Parado.v = Nulo
BY DEF Parado, Atendimento

LEMMA EmitirSo == ASSUME NEW v, Emitir(v) PROVE \A c \in Cartelas : VendaDe[c] # v => cartela'[c] = cartela[c]
BY DEF Emitir, DaVenda

\* The steps of the counter, one by one.
LEMMA LeiturasVInv ==
    ASSUME VInv, UNCHANGED edicao, NEW a \in Atendimentos,
           disputadas' = disputadas \cup {v \in Vendas : Confirmando(v)' # {} /\ Cancelando(v)' # {}},
           \/ \E v \in Vendas : PedirVenda(a, v) \/ LerParaConfirmar(a, v) \/ LerParaCancelar(a, v)
           \/ VerCartelas(a) \/ LargarVenda(a)
    PROVE  VInv'
<1>1. ASSUME NEW v \in Vendas, NEW passo \in {"criar", "aprovar", "verCartelas", "cancelar"},
             NEW viu \in BOOLEAN, Atender(a, passo, v, viu), UNCHANGED <<cartela, venda>>,
             passo # "criar" => venda[v] # "nenhuma",
             passo = "aprovar" => venda[v] # "CANCELADO",
             passo = "cancelar" /\ ~viu => SemLinhas(v)
      PROVE  VInv'
  <2> DEFINE r == [passo |-> passo, v |-> v, viu |-> viu]
  <2>1. Atende(r) /\ atendimento' = [atendimento EXCEPT ![a] = r]
    BY <1>1, CicloSenaAssumption DEF Atende, Atendimento, Atender
  <2> HIDE DEF r
  <2> QED
    BY <1>1, <2>1, SoAtendimentoVInv
<1>2. ASSUME NEW v \in Vendas, PedirVenda(a, v) \/ LerParaConfirmar(a, v) \/ LerParaCancelar(a, v)
      PROVE  VInv'
  BY <1>1, <1>2 DEF PedirVenda, LerParaConfirmar, LerParaCancelar
<1>3. ASSUME VerCartelas(a) PROVE VInv'
  <2>1. PICK v \in Vendas, viu \in BOOLEAN : v = atendimento[a].v /\ viu = (ComLinha(v) # {})
    BY <1>3, Servida DEF VerCartelas
  <2>2. /\ venda[v] # "nenhuma" /\ Atender(a, "cancelar", v, viu) /\ UNCHANGED <<cartela, venda>>
        /\ ~viu => SemLinhas(v)
    BY <1>3, <2>1, SemLinhasDe DEF VerCartelas, VInv, VendasServem
  <2> QED
    BY <1>1, <2>2
<1>4. ASSUME LargarVenda(a) PROVE VInv'
  <2>1. Atende(Parado) /\ atendimento' = [atendimento EXCEPT ![a] = Parado]
    BY <1>4, ParadoTipo DEF LargarVenda, Largar, Atende
  <2> QED
    BY <1>4, <2>1, SoAtendimentoVInv DEF LargarVenda
<1> QED
  BY <1>2, <1>3, <1>4

LEMMA InsercoesVInv ==
    ASSUME VInv, UNCHANGED edicao, NEW a \in Atendimentos,
           disputadas' = disputadas \cup {v \in Vendas : Confirmando(v)' # {} /\ Cancelando(v)' # {}},
           InserirVenda(a) \/ InserirManual(a)
    PROVE  VInv'
<1>0. PICK v \in Vendas : v = atendimento[a].v
  BY Servida DEF InserirVenda, InserirManual
<1> DEFINE cobrar == [passo |-> "cobrar", v |-> v, viu |-> FALSE]
<1>1. /\ venda[v] = "nenhuma" /\ Existe(EdicaoDaVenda[v])
      /\ \A c \in Cartelas : VendaDe[c] # v => cartela'[c] = cartela[c]
  BY <1>0, EmitirSo DEF InserirVenda, InserirManual
<1>2. status[EdicaoDaVenda[v]] # "removida"
  BY <1>1 DEF Existe, StatusEdicaoSena
<1>3. \A b \in Atendimentos : ~(atendimento[b].passo = "cancelar" /\ atendimento[b].v = v)
  BY <1>1 DEF VInv, VendasServem
<1>4. PICK r \in {Parado, cobrar}, st \in {"PENDENTE", "APROVADO"} :
          atendimento' = [atendimento EXCEPT ![a] = r] /\ venda' = [venda EXCEPT ![v] = st]
  BY <1>0 DEF InserirVenda, InserirManual, Atender, Largar
<1>5. /\ r \in Atendimento /\ (r.passo = "ocioso" <=> r.v = Nulo)
      /\ r.passo \in {"ocioso", "cobrar"} /\ (r.passo # "ocioso" => r.v = v)
  <2>1. CASE r = Parado
    BY <2>1, ParadoTipo
  <2>2. CASE r = cobrar
    BY <2>2, CicloSenaAssumption DEF Atendimento
  <2> QED
    BY <2>1, <2>2
<1> HIDE DEF cobrar
<1> QED
  BY <1>1, <1>2, <1>3, <1>4, <1>5, EscritaVInv

LEMMA EscritasVInv ==
    ASSUME VInv, UNCHANGED edicao, NEW a \in Atendimentos,
           disputadas' = disputadas \cup {v \in Vendas : Confirmando(v)' # {} /\ Cancelando(v)' # {}},
           RecusarVenda(a) \/ ConfirmarPagamento(a) \/ CancelarVenda(a)
    PROVE  VInv'
<1>0. PICK v \in Vendas : v = atendimento[a].v
  BY Servida DEF RecusarVenda, ConfirmarPagamento, CancelarVenda
<1>1. /\ venda[v] # "nenhuma" /\ status[EdicaoDaVenda[v]] # "removida"
      /\ atendimento' = [atendimento EXCEPT ![a] = Parado]
  BY <1>0, Servida DEF RecusarVenda, ConfirmarPagamento, CancelarVenda, Largar, VInv, VendasServem
<1>2. \A c \in Cartelas : VendaDe[c] # v => cartela'[c] = cartela[c]
  BY <1>0, EmitirSo DEF RecusarVenda, ConfirmarPagamento, CancelarVenda, ComLinha, DaVenda
<1>3. ASSUME NEW b \in Atendimentos, v \notin disputadas,
             atendimento[b].passo = "cancelar" /\ atendimento[b].v = v /\ ~atendimento[b].viu
      PROVE  SemLinhas(v) /\ b \in Cancelando(v)
  BY <1>1, <1>3 DEF VInv, NaoCruzam, Cancelando
<1>4. CASE RecusarVenda(a)
  <2>1. venda' = [venda EXCEPT ![v] = "RECUSADO"] /\ UNCHANGED cartela
    BY <1>0, <1>4 DEF RecusarVenda
  <2>2. SemLinhas(v)' <=> SemLinhas(v)
    BY <2>1 DEF SemLinhas, TemLinha
  <2> HIDE DEF SemLinhas
  <2> QED
    BY <1>1, <1>2, <1>3, <2>1, <2>2, ParadoTipo, EscritaVInv
<1>5. CASE ConfirmarPagamento(a)
  <2>1. venda' = [venda EXCEPT ![v] = "APROVADO"] /\ a \in Confirmando(v)
    BY <1>0, <1>5 DEF ConfirmarPagamento, Confirmando
  <2>2. v \notin disputadas => Cancelando(v) = {}
    BY <1>1, <2>1 DEF VInv, NaoCruzam
  <2> HIDE DEF SemLinhas
  <2> QED
    BY <1>1, <1>2, <1>3, <2>1, <2>2, ParadoTipo, EscritaVInv
<1>6. CASE CancelarVenda(a)
  <2>1. /\ venda' = [venda EXCEPT ![v] = "CANCELADO"] /\ a \in Cancelando(v)
        /\ atendimento[a].passo = "cancelar" /\ atendimento[a].viu \in BOOLEAN
        /\ cartela' = [c \in Cartelas |-> IF atendimento[a].viu /\ c \in ComLinha(v)
                                          THEN "apagada" ELSE cartela[c]]
    BY <1>0, <1>6 DEF CancelarVenda, Cancelando, VInv, TiposDaVenda, Atendimento
  <2>2. v \notin disputadas => Confirmando(v) = {}
    BY <1>1, <2>1 DEF VInv, NaoCruzam
  <2>3. ASSUME v \notin disputadas PROVE SemLinhas(v)'
    <3>1. CASE atendimento[a].viu
      BY <2>1, <3>1 DEF SemLinhas, ComLinha, DaVenda, TemLinha, Faixas
    <3>2. CASE ~atendimento[a].viu
      <4>1. SemLinhas(v)
        BY <1>0, <1>1, <1>3, <2>1, <2>3, <3>2
      <4>2. \A c \in Cartelas : cartela'[c] = cartela[c]
        BY <2>1, <3>2
      <4> QED
        BY <4>1, <4>2 DEF SemLinhas, TemLinha
    <3> QED
      BY <2>1, <3>1, <3>2
  <2> HIDE DEF SemLinhas
  <2> QED
    BY <1>1, <1>2, <2>1, <2>2, <2>3, ParadoTipo, EscritaVInv
<1> QED
  BY <1>4, <1>5, <1>6

LEMMA NextVInv == IInv /\ VInv /\ [Next]_vars => VInv'
<1> SUFFICES ASSUME IInv, VInv, [Next]_vars PROVE VInv'
  OBVIOUS
<1>1. CASE PassoDaEdicao
  BY <1>1, PassoDaEdicaoVInv
<1>2. CASE PassoDaVenda
  BY <1>2, LeiturasVInv, InsercoesVInv, EscritasVInv DEF PassoDaVenda
<1>3. CASE UNCHANGED vars
  BY <1>3, EdicaoVInv DEF vars, edicao, TemLinha
<1> QED
  BY <1>1, <1>2, <1>3 DEF Next

LEMMA Invariante == Spec => [](IInv /\ VInv)
<1>1. Init => IInv /\ VInv
  BY InitIInv, InitVInv
<1>2. IInv /\ VInv /\ [Next]_vars => IInv' /\ VInv'
  BY NextIInv, NextVInv
<1> QED
  BY <1>1, <1>2, PTL DEF Spec
-------------------------------------------------------------------------------
\* However requests, worker and sales overlap, an edition is judged or finished, and a card
\* has a band, only with the result there.
THEOREM JulgadaComResultado == Spec => []ResultadoAntesDeApurar
<1>1. IInv => ResultadoAntesDeApurar
  BY DEF IInv
<1> QED
  BY <1>1, Invariante, PTL

\* An edition that was removed had neither sales nor a result, whatever was read before.
THEOREM RemocaoSemRastro == Spec => []RemovidaSemRastro
<1>1. VInv => RemovidaSemRastro
  BY DEF VInv
<1> QED
  BY <1>1, Invariante, PTL

\* A cancelled sale keeps no card: not by a judging that had listed it, nor by another
\* cancellation that saw none, unless it was confirmed while it was cancelled.
THEOREM CanceladaFicaSemCartela == Spec => []CanceladaSemCartela
<1>1. VInv => CanceladaSemCartela
  BY SemLinhasDe DEF VInv, NaoCruzam, CanceladaSemCartela
<1> QED
  BY <1>1, Invariante, PTL

\* A cancelled sale is not approved again, unless it was being confirmed as it was cancelled.
THEOREM CanceladaNuncaVolta == Spec => CanceladaNaoVolta
<1> DEFINE NaoVolta == \A v \in Vendas \ disputadas' : venda[v] = "CANCELADO" => venda'[v] # "APROVADO"
<1>1. ASSUME VInv, PassoDaVenda PROVE NaoVolta
  <2> SUFFICES ASSUME NEW v \in Vendas \ disputadas', venda[v] = "CANCELADO",
                      venda'[v] = "APROVADO"
               PROVE  FALSE
    OBVIOUS
  <2>1. v \notin disputadas
    BY <1>1 DEF PassoDaVenda
  <2>2. ASSUME NEW a \in Atendimentos, NEW st \in {"PENDENTE", "RECUSADO", "APROVADO", "CANCELADO"},
               venda' = [venda EXCEPT ![atendimento[a].v] = st]
        PROVE  atendimento[a].v = v /\ st = "APROVADO"
    BY <1>1, <2>2 DEF VInv, TiposDaVenda
  <2>3. Confirmando(v) = {}
    BY <1>1, <2>1 DEF VInv, NaoCruzam
  <2> QED
    BY <1>1, <2>2, <2>3 DEF PassoDaVenda, PedirVenda, LerParaConfirmar, LerParaCancelar,
       InserirVenda, InserirManual, RecusarVenda, ConfirmarPagamento, VerCartelas, CancelarVenda,
       LargarVenda, Confirmando
<1>2. VInv /\ [Next]_vars => [NaoVolta]_vars
  BY <1>1 DEF Next, PassoDaEdicao, vendas
<1> QED
  BY <1>2, Invariante, PTL DEF Spec, CanceladaNaoVolta

-------------------------------------------------------------------------------
(***************************************************************************)
(* One request or run at a time: what it read still holds when it writes.  *)
(***************************************************************************)
\* What request r decided on: the status it read, the edition on sale it did not find, the
\* result it judges by.
EmDia(r, st, re) ==
    /\ r.passo \in {"conflito", "ativar"} => st[r.e] \in {"RASCUNHO", "ENCERRADA"}
    /\ r.passo = "ativar" => \A o \in Edicoes : st[o] # "ATIVA"
    /\ r.passo = "encerrar" => st[r.e] = "ATIVA"
    /\ r.passo = "remover" => st[r.e] = "RASCUNHO"
    /\ r.passo = "gravar" => r.lido = st[r.e] /\ st[r.e] \in {"ENCERRADA", "APURANDO"}
    /\ r.passo = "avancar" => st[r.e] = "ENCERRADA"
    /\ r.passo \in {"listar", "julgar"} => st[r.e] = "APURANDO" /\ r.r = re[r.e]

\* What a run of the job decided on: there is no edition on sale, and the draft is a draft.
CicloEmDia(k, st) ==
    /\ k.passo \in {"escolher", "ativar"} => \A o \in Edicoes : st[o] # "ATIVA"
    /\ k.passo = "ativar" => \E e \in Edicoes : k.edicoes = {e} /\ st[e] = "RASCUNHO"

Unica == \A e, o \in Edicoes : status[e] = "ATIVA" /\ status[o] = "ATIVA" => e = o

\* A card that was judged is so by the result in force; its edition is finished, or its
\* judging is on.
Julgadas ==
    \A c \in Cartelas : cartela[c] \in Faixas =>
        /\ cartela[c] = Faixa(c, resultado[EdicaoDe[c]])
        /\ \/ status[EdicaoDe[c]] = "FINALIZADA"
           \/ \E p \in Pedidos : pedido[p].passo = "julgar" /\ pedido[p].e = EdicaoDe[c]

Decisoes ==
    /\ \A p \in Pedidos : EmDia(pedido[p], status, resultado)
    /\ \A j \in Jobs : CicloEmDia(ciclo[j], status)

Serie == ~Sobrepostos /\ Unica /\ Decisoes /\ (~interrompida => Julgadas)

SInv == ~concorreu => Serie

LEMMA InitSInv == SerieInit => SInv
<1> SUFFICES ASSUME SerieInit PROVE Serie
  BY DEF SInv
<1>1. ~Sobrepostos
  BY DEF SerieInit, Init, Sobrepostos, NoAr, Rodando, Ocioso, CicloOcioso
<1>2. Unica /\ Julgadas
  BY DEF SerieInit, Init, Unica, Julgadas, Faixas
<1>3. Decisoes
  BY DEF SerieInit, Init, Decisoes, EmDia, CicloEmDia, Ocioso, CicloOcioso
<1> QED
  BY <1>1, <1>2, <1>3 DEF Serie

\* A request that takes a step alone: the others rest, and so does the job.
LEMMA SoUmPedido ==
    ASSUME IInv, ~Sobrepostos, ~Sobrepostos', UNCHANGED ciclo, NEW p \in Pedidos, NEW r,
           pedido' = [pedido EXCEPT ![p] = r],
           pedido[p].passo # "ocioso" \/ r.passo # "ocioso"
    PROVE  /\ pedido'[p] = r
           /\ \A q \in Pedidos : q # p => pedido[q].passo = "ocioso" /\ pedido'[q] = pedido[q]
           /\ \A j \in Jobs : ciclo[j].passo = "ocioso"
<1>1. pedido \in [Pedidos -> Pedido]
  BY DEF IInv, TiposDaEdicao
<1>2. pedido'[p] = r /\ \A q \in Pedidos : q # p => pedido'[q] = pedido[q]
  BY <1>1
<1> QED
  BY <1>2 DEF Sobrepostos, NoAr, Rodando

\* Only its own decision has to agree with what the step leaves.
LEMMA PedidoSerie ==
    ASSUME IInv, ~Sobrepostos, ~Sobrepostos', UNCHANGED ciclo, NEW p \in Pedidos, NEW r,
           pedido' = [pedido EXCEPT ![p] = r],
           pedido[p].passo # "ocioso" \/ r.passo # "ocioso",
           EmDia(r, status', resultado'), Unica', ~interrompida' => Julgadas'
    PROVE  Serie'
<1>1. /\ pedido'[p] = r
      /\ \A q \in Pedidos : q # p => pedido[q].passo = "ocioso" /\ pedido'[q] = pedido[q]
      /\ \A j \in Jobs : ciclo[j].passo = "ocioso"
  BY SoUmPedido
<1>2. ASSUME NEW q \in Pedidos PROVE EmDia(pedido'[q], status', resultado')
  <2>1. CASE q = p
    BY <1>1, <2>1
  <2>2. CASE q # p
    <3>1. pedido'[q].passo = "ocioso"
      BY <1>1, <2>2
    <3> QED
      BY <3>1 DEF EmDia
  <2> QED
    BY <2>1, <2>2
<1>3. ASSUME NEW j \in Jobs PROVE CicloEmDia(ciclo'[j], status')
  <2>1. ciclo'[j].passo = "ocioso"
    BY <1>1
  <2> QED
    BY <2>1 DEF CicloEmDia
<1> QED
  BY <1>2, <1>3 DEF Serie, Decisoes

\* While no request is judging, the cards that were judged are those of finished editions.
LEMMA SemJulgar ==
    ASSUME Julgadas, NEW p \in Pedidos, pedido[p].passo # "julgar",
           \A q \in Pedidos : q # p => pedido[q].passo = "ocioso"
    PROVE  \A c \in Cartelas : cartela[c] \in Faixas =>
              status[EdicaoDe[c]] = "FINALIZADA" /\ cartela[c] = Faixa(c, resultado[EdicaoDe[c]])
BY DEF Julgadas

\* A step outside the judging keeps the cards: what it writes of an edition, its status or its
\* result, is of one that is not finished.
LEMMA ForaDoJulgamento ==
    ASSUME IInv, Serie, ~Sobrepostos', UNCHANGED <<ciclo, cartela>>,
           interrompida' = (interrompida \/ \E q \in Pedidos : Interrompe(q)),
           NEW p \in Pedidos, NEW r, pedido' = [pedido EXCEPT ![p] = r],
           pedido[p].passo # "ocioso" \/ r.passo # "ocioso", pedido[p].passo # "julgar",
           \A e \in Edicoes : status[e] = "FINALIZADA" =>
               status'[e] = "FINALIZADA" /\ resultado'[e] = resultado[e]
    PROVE  ~interrompida' => Julgadas'
<1> SUFFICES ASSUME ~interrompida' PROVE Julgadas'
  OBVIOUS
<1>1. Julgadas
  BY DEF Serie
<1>2. \A q \in Pedidos : q # p => pedido[q].passo = "ocioso"
  BY SoUmPedido DEF Serie
<1>3. ASSUME NEW c \in Cartelas, cartela'[c] \in Faixas
      PROVE  /\ status'[EdicaoDe[c]] = "FINALIZADA"
             /\ cartela'[c] = Faixa(c, resultado'[EdicaoDe[c]])
  <2>1. cartela[c] \in Faixas /\ EdicaoDe[c] \in Edicoes
    BY <1>3, EdicaoDasLinhas
  <2>2. status[EdicaoDe[c]] = "FINALIZADA" /\ cartela[c] = Faixa(c, resultado[EdicaoDe[c]])
    BY <1>1, <1>2, <2>1, SemJulgar
  <2> QED
    BY <2>1, <2>2
<1> QED
  BY <1>3 DEF Julgadas

\* What the steps outside the judging have in common: a request that leaves the editions as
\* they are.
LEMMA SoLe ==
    ASSUME IInv, Serie, ~Sobrepostos',
           interrompida' = (interrompida \/ \E q \in Pedidos : Interrompe(q)),
           NEW p \in Pedidos, NEW r, pedido' = [pedido EXCEPT ![p] = r],
           UNCHANGED <<edicao, cartela, ciclo>>,
           pedido[p].passo # "ocioso" \/ r.passo # "ocioso", pedido[p].passo # "julgar",
           EmDia(r, status, resultado)
    PROVE  Serie' /\ \A e \in Edicoes : CicloPermitido(e)
<1>1. status' = status /\ resultado' = resultado
  BY DEF edicao
<1>2. ~interrompida' => Julgadas'
  BY <1>1, ForaDoJulgamento
<1>3. Unica'
  BY <1>1 DEF Serie, Unica
<1>4. EmDia(r, status', resultado')
  BY <1>1
<1> QED
  BY <1>1, <1>2, <1>3, <1>4, PedidoSerie DEF Serie, CicloPermitido

LEMMA IniciosSerie ==
    ASSUME IInv, Serie, ~Sobrepostos',
           interrompida' = (interrompida \/ \E q \in Pedidos : Interrompe(q)),
           NEW p \in Pedidos, NEW e \in Edicoes,
           \/ IniciarEdicao(p, e) \/ IniciarAtivacao(p, e)
           \/ IniciarEncerramento(p, e) \/ IniciarRemocao(p, e)
           \/ (\E r \in Resultados : IniciarResultado(p, e, r))
           \/ IniciarApuracao(p, e)
    PROVE  Serie' /\ \A o \in Edicoes : CicloPermitido(o)
<1>1. ASSUME NEW passo \in {"editar", "conflito", "encerrar", "remover"}, Novo(p, e, passo),
             passo = "conflito" => status[e] \in {"RASCUNHO", "ENCERRADA"},
             passo = "encerrar" => status[e] = "ATIVA",
             passo = "remover" => status[e] = "RASCUNHO",
             pedido[p].passo = "ocioso", UNCHANGED <<edicao, cartela, ciclo>>
      PROVE  Serie' /\ \A o \in Edicoes : CicloPermitido(o)
  <2> DEFINE r == [Ocioso EXCEPT !.passo = passo, !.e = e, !.lido = status[e]]
  <2>1. r.passo = passo /\ r.e = e
    BY DEF Ocioso
  <2>2. pedido' = [pedido EXCEPT ![p] = r]
    BY <1>1 DEF Novo
  <2> HIDE DEF r
  <2>3. EmDia(r, status, resultado)
    BY <1>1, <2>1 DEF EmDia
  <2> QED
    BY <1>1, <2>1, <2>2, <2>3, SoLe
<1>2. ASSUME NEW s \in Resultados, IniciarResultado(p, e, s)
      PROVE  Serie' /\ \A o \in Edicoes : CicloPermitido(o)
  <2> DEFINE r == [passo |-> "gravar", e |-> e, lido |-> status[e], r |-> s, fila |-> {}]
  <2>1. /\ pedido' = [pedido EXCEPT ![p] = r] /\ UNCHANGED <<edicao, cartela, ciclo>>
        /\ pedido[p].passo = "ocioso" /\ r.passo = "gravar"
        /\ EmDia(r, status, resultado)
    BY <1>2 DEF IniciarResultado, EmDia
  <2> HIDE DEF r
  <2> QED
    BY <2>1, SoLe
<1>3. ASSUME IniciarApuracao(p, e)
      PROVE  Serie' /\ \A o \in Edicoes : CicloPermitido(o)
  <2> DEFINE r == [passo |-> "listar", e |-> e, lido |-> status[e], r |-> resultado[e], fila |-> {}]
  <2>1. /\ pedido' = [pedido EXCEPT ![p] = r] /\ UNCHANGED <<edicao, cartela, ciclo>>
        /\ pedido[p].passo = "ocioso" /\ r.passo = "listar"
        /\ EmDia(r, status, resultado)
    BY <1>3 DEF IniciarApuracao, EmDia
  <2> HIDE DEF r
  <2> QED
    BY <2>1, SoLe
<1> QED
  BY <1>1, <1>2, <1>3
     DEF IniciarEdicao, IniciarAtivacao, IniciarEncerramento, IniciarRemocao

\* A request ends with an error: in the judging, it is an interruption.
LEMMA FalharSerie ==
    ASSUME IInv, Serie, ~Sobrepostos',
           interrompida' = (interrompida \/ \E q \in Pedidos : Interrompe(q)),
           NEW p \in Pedidos, pedido[p].passo # "ocioso", Encerrar(p),
           UNCHANGED <<edicao, cartela, ciclo>>
    PROVE  Serie' /\ \A e \in Edicoes : CicloPermitido(e)
<1>1. pedido' = [pedido EXCEPT ![p] = Ocioso] /\ EmDia(Ocioso, status, resultado)
  BY DEF Encerrar, EmDia, Ocioso
<1>2. CASE pedido[p].passo # "julgar"
  BY <1>1, <1>2, SoLe
<1>3. CASE pedido[p].passo = "julgar"
  <2>1. pedido'[p].passo = "ocioso" /\ status' = status /\ resultado' = resultado
    BY <1>1 DEF IInv, TiposDaEdicao, Ocioso, edicao
  <2>2. interrompida'
    BY <1>3, <2>1 DEF Interrompe
  <2>3. Unica' /\ EmDia(Ocioso, status', resultado')
    BY <1>1, <2>1 DEF Serie, Unica
  <2> QED
    BY <1>1, <2>1, <2>2, <2>3, PedidoSerie DEF Serie, CicloPermitido
<1> QED
  BY <1>2, <1>3

\* ativar looks for another edition on sale; the judging lists the cards.
LEMMA PassosSerie ==
    ASSUME IInv, Serie, ~Sobrepostos',
           interrompida' = (interrompida \/ \E q \in Pedidos : Interrompe(q)),
           NEW p \in Pedidos, ProcurarConflito(p) \/ ListarCartelas(p)
    PROVE  Serie' /\ \A e \in Edicoes : CicloPermitido(e)
<1>1. /\ EmDia(pedido[p], status, resultado) /\ pedido[p] \in Pedido
      /\ pedido \in [Pedidos -> Pedido]
      /\ pedido[p].passo # "ocioso" => pedido[p].e \in Edicoes
  BY DEF Serie, Decisoes, IInv, TiposDaEdicao, PedidosServem
<1>2. CASE ProcurarConflito(p) /\ OutraAtiva(pedido[p].e)
  BY <1>2, FalharSerie DEF ProcurarConflito
<1>3. CASE ProcurarConflito(p) /\ ~OutraAtiva(pedido[p].e)
  <2> DEFINE r == [pedido[p] EXCEPT !.passo = "ativar"]
  <2>1. pedido' = [pedido EXCEPT ![p] = r] /\ UNCHANGED <<edicao, cartela, ciclo>>
        /\ pedido[p].passo = "conflito"
    BY <1>1, <1>3 DEF ProcurarConflito
  <2>2. r.passo = "ativar" /\ r.e = pedido[p].e
    BY <1>1 DEF Pedido
  <2> HIDE DEF r
  <2>3. EmDia(r, status, resultado)
    BY <1>1, <1>3, <2>1, <2>2 DEF EmDia, OutraAtiva
  <2> QED
    BY <2>1, <2>2, <2>3, SoLe
<1>4. CASE ListarCartelas(p)
  <2> DEFINE fila == {c \in Cartelas : EdicaoDe[c] = pedido[p].e /\ cartela[c] = "CONFIRMADA"}
             r == [pedido[p] EXCEPT !.passo = "julgar", !.fila = fila]
  <2>1. pedido' = [pedido EXCEPT ![p] = r] /\ UNCHANGED <<edicao, cartela, ciclo>>
        /\ pedido[p].passo = "listar"
    BY <1>1, <1>4 DEF ListarCartelas
  <2> HIDE DEF fila
  <2>2. r.passo = "julgar" /\ r.e = pedido[p].e /\ r.r = pedido[p].r
    BY <1>1 DEF Pedido
  <2> HIDE DEF r
  <2>3. EmDia(r, status, resultado)
    BY <1>1, <2>1, <2>2 DEF EmDia
  <2> QED
    BY <2>1, <2>2, <2>3, SoLe
<1> QED
  <2>1. OutraAtiva(pedido[p].e) \in BOOLEAN
    BY DEF OutraAtiva
  <2> QED
    BY <2>1, <1>2, <1>3, <1>4

\* The ADMIN's writes by id find the edition as it was read.
LEMMA AdminSerie ==
    ASSUME IInv, Serie, ~Sobrepostos',
           interrompida' = (interrompida \/ \E q \in Pedidos : Interrompe(q)),
           NEW p \in Pedidos,
           \/ Editar(p) \/ Ativar(p) \/ EncerrarEdicao(p) \/ Avancar(p) \/ Remover(p)
    PROVE  Serie' /\ \A o \in Edicoes : CicloPermitido(o)
<1>1. /\ EmDia(pedido[p], status, resultado)
      /\ pedido[p].passo # "ocioso" => pedido[p].e \in Edicoes
      /\ status \in [Edicoes -> StatusEdicaoSena \cup {"ausente", "removida"}]
  BY DEF Serie, Decisoes, IInv, TiposDaEdicao, PedidosServem
<1>2. /\ pedido' = [pedido EXCEPT ![p] = Ocioso] /\ EmDia(Ocioso, status', resultado')
      /\ UNCHANGED <<resultado, cartela, ciclo>>
      /\ pedido[p].passo \notin {"ocioso", "julgar"} /\ pedido[p].e \in Edicoes
  BY <1>1 DEF Editar, Ativar, EncerrarEdicao, Avancar, MudarStatus, Remover, Encerrar, EmDia,
              Ocioso
<1>3. CASE UNCHANGED status
  <2>1. Unica' /\ \A o \in Edicoes : CicloPermitido(o)
    BY <1>3 DEF Serie, Unica, CicloPermitido
  <2>2. ~interrompida' => Julgadas'
    BY <1>2, <1>3, ForaDoJulgamento
  <2> QED
    BY <1>2, <2>1, <2>2, PedidoSerie DEF Serie
<1>4. ASSUME NEW e \in Edicoes, NEW st \in {"ATIVA", "ENCERRADA", "APURANDO", "removida"},
             status' = [status EXCEPT ![e] = st], <<status[e], st>> \in Ciclo,
             st = "ATIVA" => \A o \in Edicoes : status[o] # "ATIVA"
      PROVE  Serie' /\ \A o \in Edicoes : CicloPermitido(o)
  <2>1. Unica'
    BY <1>1, <1>4 DEF Serie, Unica
  <2>2. \A o \in Edicoes : CicloPermitido(o)
    BY <1>1, <1>4 DEF CicloPermitido
  <2>3. status[e] # "FINALIZADA"
    BY <1>4 DEF Ciclo
  <2>4. \A o \in Edicoes : status[o] = "FINALIZADA" => status'[o] = "FINALIZADA"
    BY <1>1, <1>4, <2>3
  <2>5. ~interrompida' => Julgadas'
    BY <1>2, <2>4, ForaDoJulgamento
  <2> QED
    BY <1>2, <2>1, <2>2, <2>5, PedidoSerie DEF Serie
<1>5. CASE Editar(p)
  BY <1>3, <1>5 DEF Editar
<1>6. CASE Ativar(p)
  <2>1. /\ status' = [status EXCEPT ![pedido[p].e] = "ATIVA"]
        /\ status[pedido[p].e] \in {"RASCUNHO", "ENCERRADA"}
        /\ \A o \in Edicoes : status[o] # "ATIVA"
    BY <1>1, <1>6 DEF Ativar, MudarStatus, EmDia
  <2> QED
    BY <1>2, <1>4, <2>1 DEF Ciclo
<1>7. CASE EncerrarEdicao(p)
  <2>1. /\ status' = [status EXCEPT ![pedido[p].e] = "ENCERRADA"]
        /\ status[pedido[p].e] = "ATIVA"
    BY <1>1, <1>7 DEF EncerrarEdicao, MudarStatus, EmDia
  <2> QED
    BY <1>2, <1>4, <2>1 DEF Ciclo
<1>8. CASE Avancar(p)
  <2>1. /\ status' = [status EXCEPT ![pedido[p].e] = "APURANDO"]
        /\ status[pedido[p].e] = "ENCERRADA"
    BY <1>1, <1>8 DEF Avancar, MudarStatus, EmDia
  <2> QED
    BY <1>2, <1>4, <2>1 DEF Ciclo
<1>9. CASE Remover(p)
  <2>1. /\ status' = [status EXCEPT ![pedido[p].e] = "removida"]
        /\ status[pedido[p].e] = "RASCUNHO"
    BY <1>1, <1>9 DEF Remover, EmDia
  <2> QED
    BY <1>2, <1>4, <2>1 DEF Ciclo
<1> QED
  BY <1>5, <1>6, <1>7, <1>8, <1>9

\* The result is that of an edition that nobody has finished: no card of it is judged.
LEMMA GravarSerie ==
    ASSUME IInv, Serie, ~Sobrepostos',
           interrompida' = (interrompida \/ \E q \in Pedidos : Interrompe(q)),
           NEW p \in Pedidos, GravarResultado(p)
    PROVE  Serie' /\ \A o \in Edicoes : CicloPermitido(o)
<1> DEFINE adiante == [pedido[p] EXCEPT !.passo = "avancar"]
<1>1. /\ EmDia(pedido[p], status, resultado) /\ pedido[p] \in Pedido
      /\ pedido \in [Pedidos -> Pedido]
      /\ resultado \in [Edicoes -> Resultados \cup {Nulo}]
  BY DEF Serie, Decisoes, IInv, TiposDaEdicao
<1>2. PICK r \in {Ocioso, adiante} :
          /\ pedido' = [pedido EXCEPT ![p] = r]
          /\ r = adiante => pedido[p].lido = "ENCERRADA"
  <2>1. CASE pedido[p].lido = "ENCERRADA"
    <3>1. pedido' = [pedido EXCEPT ![p] = adiante]
      BY <1>1, <2>1 DEF GravarResultado
    <3> QED
      BY <2>1, <3>1
  <2>2. CASE pedido[p].lido # "ENCERRADA"
    <3>1. Ocioso.passo = "ocioso" /\ adiante.passo = "avancar"
      BY <1>1 DEF Ocioso, Pedido
    <3>2. pedido' = [pedido EXCEPT ![p] = Ocioso] /\ Ocioso # adiante
      BY <2>2, <3>1 DEF GravarResultado, Encerrar
    <3> QED
      BY <3>2
  <2> QED
    BY <2>1, <2>2
<1>3. /\ pedido[p].passo = "gravar" /\ UNCHANGED <<status, cartela, ciclo>>
      /\ resultado' = [resultado EXCEPT ![pedido[p].e] = pedido[p].r]
      /\ status[pedido[p].e] = pedido[p].lido /\ pedido[p].lido \in {"ENCERRADA", "APURANDO"}
  BY <1>1 DEF GravarResultado, EmDia
<1>4. \/ r = Ocioso
      \/ r.passo = "avancar" /\ r.e = pedido[p].e /\ status[pedido[p].e] = "ENCERRADA"
  BY <1>1, <1>2, <1>3 DEF Pedido
<1> HIDE DEF adiante
<1>5. EmDia(r, status', resultado')
  BY <1>3, <1>4 DEF EmDia, Ocioso
<1>6. \A e \in Edicoes : status[e] = "FINALIZADA" =>
          status'[e] = "FINALIZADA" /\ resultado'[e] = resultado[e]
  BY <1>1, <1>3
<1>7. ~interrompida' => Julgadas'
  BY <1>2, <1>3, <1>6, ForaDoJulgamento
<1>8. Unica' /\ \A o \in Edicoes : CicloPermitido(o)
  BY <1>3 DEF Serie, Unica, CicloPermitido
<1> QED
  BY <1>2, <1>3, <1>5, <1>7, <1>8, PedidoSerie DEF Serie

\* A card gets the band of the result in force...
LEMMA JulgarSerie ==
    ASSUME IInv, Serie, ~Sobrepostos',
           interrompida' = (interrompida \/ \E q \in Pedidos : Interrompe(q)),
           NEW p \in Pedidos, NEW c \in Cartelas, Julgar(p, c)
    PROVE  Serie' /\ \A o \in Edicoes : CicloPermitido(o)
<1> DEFINE r == [pedido[p] EXCEPT !.fila = pedido[p].fila \ {c}]
<1>1. /\ EmDia(pedido[p], status, resultado) /\ pedido[p] \in Pedido
      /\ pedido \in [Pedidos -> Pedido] /\ cartela \in [Cartelas -> Cartoes]
      /\ \A d \in pedido[p].fila : EdicaoDe[d] = pedido[p].e
  BY DEF Serie, Decisoes, IInv, TiposDaEdicao, PedidosServem
<1>2. /\ pedido[p].passo = "julgar" /\ c \in pedido[p].fila
      /\ cartela' = [cartela EXCEPT ![c] = Faixa(c, pedido[p].r)]
      /\ pedido' = [pedido EXCEPT ![p] = r] /\ UNCHANGED <<edicao, ciclo>>
  BY <1>1 DEF Julgar
<1>3. r.passo = "julgar" /\ r.e = pedido[p].e /\ r.r = pedido[p].r
  BY <1>1, <1>2 DEF Pedido
<1> HIDE DEF r
<1>4. status' = status /\ resultado' = resultado
  BY <1>2 DEF edicao
<1>5. EdicaoDe[c] = pedido[p].e /\ pedido[p].r = resultado[EdicaoDe[c]]
  BY <1>1, <1>2 DEF EmDia
<1>6. pedido'[p] = r /\ \A q \in Pedidos : q # p => pedido'[q] = pedido[q]
  BY <1>1, <1>2
<1>7. ASSUME ~interrompida', NEW d \in Cartelas, cartela'[d] \in Faixas
      PROVE  /\ cartela'[d] = Faixa(d, resultado'[EdicaoDe[d]])
             /\ \/ status'[EdicaoDe[d]] = "FINALIZADA"
                \/ \E q \in Pedidos : pedido'[q].passo = "julgar" /\ pedido'[q].e = EdicaoDe[d]
  <2>1. CASE d = c
    BY <1>1, <1>2, <1>3, <1>4, <1>5, <1>6, <2>1
  <2>2. CASE d # c
    <3>1. cartela'[d] = cartela[d] /\ Julgadas
      BY <1>1, <1>2, <1>7, <2>2 DEF Serie
    <3>2. \A q \in Pedidos : pedido'[q].passo = pedido[q].passo /\ pedido'[q].e = pedido[q].e
      BY <1>2, <1>3, <1>6
    <3> QED
      BY <1>4, <1>7, <3>1, <3>2 DEF Julgadas
  <2> QED
    BY <2>1, <2>2
<1>8. ~interrompida' => Julgadas'
  BY <1>7 DEF Julgadas
<1>9. /\ Unica' /\ EmDia(r, status', resultado')
      /\ \A o \in Edicoes : CicloPermitido(o)
  BY <1>1, <1>2, <1>3, <1>4 DEF Serie, Unica, EmDia, CicloPermitido
<1> QED
  BY <1>2, <1>3, <1>8, <1>9, PedidoSerie DEF Serie

\* ...and the edition whose cards were judged is finished.
LEMMA FinalizarSerie ==
    ASSUME IInv, Serie, ~Sobrepostos',
           interrompida' = (interrompida \/ \E q \in Pedidos : Interrompe(q)),
           NEW p \in Pedidos, Finalizar(p)
    PROVE  Serie' /\ \A o \in Edicoes : CicloPermitido(o)
<1> DEFINE e == pedido[p].e
<1>1. /\ status[e] = "APURANDO" /\ e \in Edicoes
      /\ status \in [Edicoes -> StatusEdicaoSena \cup {"ausente", "removida"}]
  BY DEF Finalizar, Serie, Decisoes, EmDia, IInv, TiposDaEdicao, PedidosServem
<1>2. /\ pedido[p].passo = "julgar" /\ status' = [status EXCEPT ![e] = "FINALIZADA"]
      /\ pedido' = [pedido EXCEPT ![p] = Ocioso] /\ EmDia(Ocioso, status', resultado')
      /\ UNCHANGED <<resultado, cartela, ciclo>>
  BY DEF Finalizar, Encerrar, EmDia, Ocioso
<1>3. \A q \in Pedidos : q # p => pedido[q].passo = "ocioso"
  BY <1>2, SoUmPedido DEF Serie
<1>4. ASSUME ~interrompida', NEW c \in Cartelas, cartela'[c] \in Faixas
      PROVE  /\ cartela'[c] = Faixa(c, resultado'[EdicaoDe[c]])
             /\ status'[EdicaoDe[c]] = "FINALIZADA"
  <2>1. /\ cartela[c] = Faixa(c, resultado[EdicaoDe[c]])
        /\ status[EdicaoDe[c]] = "FINALIZADA" \/ EdicaoDe[c] = e
    BY <1>2, <1>3, <1>4 DEF Serie, Julgadas
  <2>2. EdicaoDe[c] \in Edicoes
    BY EdicaoDasLinhas
  <2> QED
    BY <1>1, <1>2, <2>1, <2>2
<1> HIDE DEF e
<1>5. ~interrompida' => Julgadas'
  BY <1>4 DEF Julgadas
<1>6. Unica' /\ \A o \in Edicoes : CicloPermitido(o)
  BY <1>1, <1>2 DEF Serie, Unica, CicloPermitido, Ciclo
<1> QED
  BY <1>2, <1>5, <1>6, PedidoSerie DEF Serie

\* The clock, a new draft and the sales change nothing of what was decided on.
LEMMA RestoSerie ==
    ASSUME IInv, Serie, ~Sobrepostos', UNCHANGED <<resultado, pedido, ciclo>>,
           interrompida' = (interrompida \/ \E q \in Pedidos : Interrompe(q)),
           \/ UNCHANGED status
           \/ \E e \in Edicoes : status[e] = "ausente" /\ status' = [status EXCEPT ![e] = "RASCUNHO"],
           \A c \in Cartelas : cartela'[c] \in Faixas => cartela'[c] = cartela[c]
    PROVE  Serie' /\ \A o \in Edicoes : CicloPermitido(o)
<1>1. status \in [Edicoes -> StatusEdicaoSena \cup {"ausente", "removida"}]
  BY DEF IInv, TiposDaEdicao
<1>2. \A o \in Edicoes : /\ status'[o] = status[o] \/ (status[o] = "ausente" /\ status'[o] = "RASCUNHO")
                         /\ status'[o] = "ATIVA" <=> status[o] = "ATIVA"
  BY <1>1
<1>3. Unica' /\ \A o \in Edicoes : CicloPermitido(o)
  BY <1>2 DEF Serie, Unica, CicloPermitido, Ciclo
<1>4. ASSUME NEW p \in Pedidos PROVE EmDia(pedido'[p], status', resultado')
  <2>1. EmDia(pedido[p], status, resultado)
    BY DEF Serie, Decisoes
  <2>2. CASE pedido[p].passo = "ocioso"
    BY <2>2 DEF EmDia
  <2>3. CASE pedido[p].passo # "ocioso"
    <3>1. pedido[p].e \in Edicoes
      BY <2>3 DEF IInv, PedidosServem
    <3>2. /\ status'[pedido[p].e] = status[pedido[p].e] \/ status[pedido[p].e] = "ausente"
      BY <1>2, <3>1
    <3> QED
      BY <1>2, <2>1, <3>2 DEF EmDia
  <2> QED
    BY <2>2, <2>3
<1>5. ASSUME NEW j \in Jobs PROVE CicloEmDia(ciclo'[j], status')
  <2>1. CicloEmDia(ciclo[j], status)
    BY DEF Serie, Decisoes
  <2> QED
    BY <1>2, <2>1 DEF CicloEmDia
<1>6. ~interrompida' => Julgadas'
  BY <1>2, EdicaoDasLinhas DEF Serie, Julgadas
<1> QED
  BY <1>3, <1>4, <1>5, <1>6 DEF Serie, Decisoes

LEMMA RelogioEVendasSerie ==
    ASSUME IInv, Serie, ~Sobrepostos',
           interrompida' = (interrompida \/ \E q \in Pedidos : Interrompe(q)),
           PassoDaVenda \/ \E e \in Edicoes : Passar(e) \/ Criar(e)
    PROVE  Serie' /\ \A o \in Edicoes : CicloPermitido(o)
<1>1. CASE \E e \in Edicoes : Passar(e) \/ Criar(e)
  BY <1>1, RestoSerie DEF Passar, Criar
<1>2. CASE PassoDaVenda
  <2>1. \A d \in Cartelas : cartela'[d] \in Faixas => cartela'[d] = cartela[d]
    BY <1>2, LinhasDaVenda DEF Faixas
  <2>2. UNCHANGED <<status, resultado, pedido, ciclo>>
    BY <1>2, LinhasDaVenda DEF edicao
  <2> QED
    BY <2>1, <2>2, RestoSerie
<1> QED
  BY <1>1, <1>2

\* A run of the job alone: no request is in flight, and what it found is still there.
LEMMA JobSerie ==
    ASSUME IInv, Serie, ~Sobrepostos',
           interrompida' = (interrompida \/ \E q \in Pedidos : Interrompe(q)),
           NEW j \in Jobs,
           \/ ListarExpiradas(j) \/ EncerrarExpiradas(j) \/ ProcurarAtiva(j)
           \/ EscolherRascunho(j) \/ AtivarRascunho(j) \/ FalharCiclo(j)
    PROVE  Serie' /\ \A o \in Edicoes : CicloPermitido(o)
<1>1. /\ status \in [Edicoes -> StatusEdicaoSena \cup {"ausente", "removida"}]
      /\ ciclo \in [Jobs -> [passo: PassosDoCiclo, edicoes: SUBSET Edicoes]]
      /\ CicloEmDia(ciclo[j], status) /\ Unica
  BY DEF Serie, Decisoes, IInv, TiposDaEdicao
<1>2. UNCHANGED <<resultado, cartela, pedido>>
  BY DEF ListarExpiradas, EncerrarExpiradas, ProcurarAtiva, EscolherRascunho, AtivarRascunho,
         FalharCiclo, edicao
<1>3. PICK passo \in PassosDoCiclo, es \in SUBSET Edicoes :
          /\ IrPara(j, passo, es)
          /\ ciclo[j].passo # "ocioso" \/ passo # "ocioso"
          /\ passo \in {"escolher", "ativar"} => UNCHANGED status /\ \A o \in Edicoes : status[o] # "ATIVA"
          /\ passo = "ativar" => \E e \in Edicoes : es = {e} /\ status[e] = "RASCUNHO"
  <2>1. CASE ListarExpiradas(j)
    <3>1. Expiradas \in SUBSET Edicoes
      BY DEF Expiradas
    <3> QED
      BY <2>1, <3>1 DEF ListarExpiradas, PassosDoCiclo
  <2>2. CASE EncerrarExpiradas(j) \/ AtivarRascunho(j) \/ FalharCiclo(j)
    BY <2>2 DEF EncerrarExpiradas, AtivarRascunho, FalharCiclo, PassosDoCiclo
  <2>3. CASE ProcurarAtiva(j)
    BY <2>3 DEF ProcurarAtiva, PassosDoCiclo, edicao
  <2>4. CASE EscolherRascunho(j)
    <3>1. UNCHANGED status /\ \A o \in Edicoes : status[o] # "ATIVA"
      BY <1>1, <2>4 DEF EscolherRascunho, CicloEmDia, edicao
    <3> QED
      BY <2>4, <3>1 DEF EscolherRascunho, Rascunhos, PassosDoCiclo
  <2> QED
    BY <2>1, <2>2, <2>3, <2>4
<1> DEFINE k == [passo |-> passo, edicoes |-> es]
<1>4. ciclo'[j] = k /\ \A i \in Jobs : i # j => ciclo'[i] = ciclo[i]
  BY <1>1, <1>3 DEF IrPara
<1>5. /\ \A p \in Pedidos : pedido[p].passo = "ocioso"
      /\ \A i \in Jobs : i # j => ciclo'[i].passo = "ocioso"
  BY <1>2, <1>3, <1>4 DEF Serie, Sobrepostos, NoAr, Rodando
<1>6. CicloEmDia(k, status')
  BY <1>3 DEF CicloEmDia
<1> HIDE DEF k
<1>7. \A p \in Pedidos : EmDia(pedido'[p], status', resultado')
  BY <1>2, <1>5 DEF EmDia
<1>8. ASSUME NEW i \in Jobs PROVE CicloEmDia(ciclo'[i], status')
  <2>1. CASE i = j
    BY <1>4, <1>6, <2>1
  <2>2. CASE i # j
    BY <1>5, <2>2 DEF CicloEmDia
  <2> QED
    BY <2>1, <2>2
<1>9. /\ Unica' /\ \A o \in Edicoes : CicloPermitido(o)
      /\ \A o \in Edicoes : status[o] = "FINALIZADA" => status'[o] = "FINALIZADA"
  <2>1. CASE UNCHANGED status
    BY <1>1, <2>1 DEF Unica, CicloPermitido
  <2>2. CASE EncerrarExpiradas(j)
    <3>1. \A o \in Edicoes : \/ status'[o] = status[o]
                             \/ status[o] = "ATIVA" /\ status'[o] = "ENCERRADA"
      BY <2>2 DEF EncerrarExpiradas
    <3> QED
      BY <1>1, <3>1 DEF Unica, CicloPermitido, Ciclo
  <2>3. CASE AtivarRascunho(j)
    <3>1. PICK e \in Edicoes : ciclo[j].edicoes = {e} /\ status[e] = "RASCUNHO"
      BY <1>1, <2>3 DEF AtivarRascunho, CicloEmDia
    <3>2. \A o \in Edicoes : status[o] # "ATIVA"
      BY <1>1, <2>3 DEF AtivarRascunho, CicloEmDia
    <3>3. \A o \in Edicoes : status'[o] = IF o = e THEN "ATIVA" ELSE status[o]
      BY <2>3, <3>1 DEF AtivarRascunho, Existe, StatusEdicaoSena
    <3> QED
      BY <3>1, <3>2, <3>3 DEF Unica, CicloPermitido, Ciclo
  <2> QED
    BY <2>1, <2>2, <2>3 DEF ListarExpiradas, ProcurarAtiva, EscolherRascunho, FalharCiclo, edicao
<1>10. ~interrompida' => Julgadas'
  BY <1>2, <1>5, <1>9, EdicaoDasLinhas DEF Serie, Julgadas
<1> QED
  BY <1>7, <1>8, <1>9, <1>10 DEF Serie, Decisoes

\* Each step that leaves nothing overlapped keeps all this and walks on an edge.
LEMMA PassoEmSerie ==
    ASSUME IInv, SInv, SerieNext
    PROVE  SInv' /\ (~concorreu' => \A e \in Edicoes : CicloPermitido(e))
<1> SUFFICES ASSUME ~concorreu'
             PROVE  Serie' /\ \A e \in Edicoes : CicloPermitido(e)
  BY DEF SInv
<1>1. /\ Serie /\ ~Sobrepostos' /\ Next
      /\ interrompida' = (interrompida \/ \E q \in Pedidos : Interrompe(q))
  BY DEF SInv, SerieNext
<1>2. CASE PassoDaVenda \/ \E e \in Edicoes : Passar(e) \/ Criar(e)
  BY <1>1, <1>2, RelogioEVendasSerie
<1>3. ASSUME NEW p \in Pedidos, NEW e \in Edicoes,
             \/ IniciarEdicao(p, e) \/ IniciarAtivacao(p, e)
             \/ IniciarEncerramento(p, e) \/ IniciarRemocao(p, e)
             \/ (\E r \in Resultados : IniciarResultado(p, e, r))
             \/ IniciarApuracao(p, e)
      PROVE  Serie' /\ \A o \in Edicoes : CicloPermitido(o)
  BY <1>1, <1>3, IniciosSerie
<1>4. ASSUME NEW p \in Pedidos, ProcurarConflito(p) \/ ListarCartelas(p)
      PROVE  Serie' /\ \A o \in Edicoes : CicloPermitido(o)
  BY <1>1, <1>4, PassosSerie
<1>5. ASSUME NEW p \in Pedidos,
             \/ Editar(p) \/ Ativar(p) \/ EncerrarEdicao(p) \/ Avancar(p) \/ Remover(p)
      PROVE  Serie' /\ \A o \in Edicoes : CicloPermitido(o)
  BY <1>1, <1>5, AdminSerie
<1>6. ASSUME NEW p \in Pedidos, GravarResultado(p) \/ Finalizar(p)
      PROVE  Serie' /\ \A o \in Edicoes : CicloPermitido(o)
  BY <1>1, <1>6, GravarSerie, FinalizarSerie
<1>7. ASSUME NEW p \in Pedidos, NEW c \in Cartelas, Julgar(p, c)
      PROVE  Serie' /\ \A o \in Edicoes : CicloPermitido(o)
  BY <1>1, <1>7, JulgarSerie
<1>8. ASSUME NEW p \in Pedidos, Falhar(p)
      PROVE  Serie' /\ \A o \in Edicoes : CicloPermitido(o)
  BY <1>1, <1>8, FalharSerie DEF Falhar
<1>9. ASSUME NEW j \in Jobs,
             \/ ListarExpiradas(j) \/ EncerrarExpiradas(j) \/ ProcurarAtiva(j)
             \/ EscolherRascunho(j) \/ AtivarRascunho(j) \/ FalharCiclo(j)
      PROVE  Serie' /\ \A o \in Edicoes : CicloPermitido(o)
  BY <1>1, <1>9, JobSerie
<1> QED
  BY <1>1, <1>2, <1>3, <1>4, <1>5, <1>6, <1>7, <1>8, <1>9 DEF Next, PassoDaEdicao

\* Nothing happens.
LEMMA ParadoSerie == SInv /\ UNCHANGED <<vars, historia>> => SInv'
BY DEF SInv, Serie, Sobrepostos, NoAr, Rodando, Unica, Decisoes, Julgadas, vars, edicao, historia

\* What the history says, of the steps that are there.
LEMMA EmSerie ==
    IInv /\ VInv /\ SInv /\ [SerieNext]_<<vars, historia>>
        => IInv' /\ VInv' /\ SInv' /\ [~concorreu' => \A e \in Edicoes : CicloPermitido(e)]_<<vars, historia>>
<1> SUFFICES ASSUME IInv, VInv, SInv, [SerieNext]_<<vars, historia>>
             PROVE  IInv' /\ VInv' /\ SInv'
                    /\ [~concorreu' => \A e \in Edicoes : CicloPermitido(e)]_<<vars, historia>>
  OBVIOUS
<1>1. IInv' /\ VInv'
  BY NextIInv, NextVInv DEF SerieNext
<1>2. CASE SerieNext
  BY <1>1, <1>2, PassoEmSerie
<1>3. CASE UNCHANGED <<vars, historia>>
  BY <1>1, <1>3, ParadoSerie
<1> QED
  BY <1>2, <1>3

LEMMA SerieInvariante ==
    SerieSpec => [](IInv /\ VInv /\ SInv) /\ AndaEmSerie
<1>1. SerieInit => IInv /\ VInv /\ SInv
  BY InitIInv, InitVInv, InitSInv DEF SerieInit
<1> QED
  BY <1>1, EmSerie, PTL DEF SerieSpec, AndaEmSerie

\* Two editions that would be on sale are the same one.
LEMMA UnicaConta == Unica => UmaSoAtiva
<1> SUFFICES ASSUME Unica PROVE UmaSoAtiva
  OBVIOUS
<1> DEFINE A == {e \in Edicoes : status[e] = "ATIVA"}
<1>1. CASE A = {}
  BY <1>1, FS_EmptySet DEF UmaSoAtiva
<1>2. CASE \E e \in Edicoes : A = {e}
  <2>1. PICK e \in Edicoes : A = {e}
    BY <1>2
  <2>2. Cardinality(A) = 1
    BY <2>1, FS_Singleton
  <2> QED
    BY <2>2 DEF UmaSoAtiva
<1> QED
  BY <1>1, <1>2 DEF Unica

LEMMA SemConcorrencia ==
    IInv /\ SInv => /\ ~concorreu => UmaSoAtiva
                    /\ ~concorreu /\ ~interrompida => FaixasCorretas
<1>1. Julgadas => FaixasCorretas
  BY DEF Julgadas, FaixasCorretas
<1> QED
  BY <1>1, UnicaConta DEF SInv, Serie
-------------------------------------------------------------------------------
\* ADMIN and job, one at a time, keep one edition on sale at most and walk on the edges of the
\* life of each, wherever they fail (CicloEmSerie).
THEOREM CicloSempreEmSerie == SerieSpec => CicloEmSerie
<1>1. IInv /\ VInv /\ SInv => TypeOK /\ (~concorreu => UmaSoAtiva)
  BY SemConcorrencia DEF IInv, VInv, TypeOK
<1> QED
  BY <1>1, SerieInvariante, PTL DEF CicloEmSerie

\* With the history, the behaviours are those of the cycle.
LEMMA SerieEhCiclo == SerieSpec => Spec
<1>1. SerieInit => Init
  BY DEF SerieInit
<1>2. [SerieNext]_<<vars, historia>> => [Next]_vars
  BY DEF SerieNext
<1> QED
  BY <1>1, <1>2, PTL DEF SerieSpec, Spec

\* The judging: what it asks of results and removals in any overlap, and the right bands when
\* requests come one at a time and none stops midway (ApuracaoConfere).
THEOREM ApuracaoSempreConfere == SerieSpec => []ApuracaoConfere
<1>1. IInv /\ VInv /\ SInv => ApuracaoConfere
  BY SemConcorrencia DEF IInv, VInv, TypeOK, ApuracaoConfere
<1> QED
  BY <1>1, SerieInvariante, PTL

\* A cancelled sale keeps no card and is not approved again, unless it was confirmed as it was
\* cancelled; and one at a time the edges are kept (CicloDaSenaSegue).
THEOREM CicloSempreSegue == SerieSpec => CicloDaSenaSegue
<1>1. IInv /\ VInv /\ SInv => TypeOK /\ CanceladaSemCartela
  BY SemLinhasDe DEF IInv, VInv, TypeOK, NaoCruzam, CanceladaSemCartela
<1> QED
  BY <1>1, SerieInvariante, SerieEhCiclo, CanceladaNuncaVolta, PTL DEF CicloDaSenaSegue
===============================================================================
