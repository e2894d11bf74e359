---------------------------- MODULE Edicoes_proofs ----------------------------
(***************************************************************************)
(* The editions of Capital de Prêmios, for any editions, prizes, tickets,  *)
(* files, combos, requests and workers, and what is read of their sales.   *)
(*                                                                         *)
(* The draw (Sorteio): a prize and its result name the same winner,        *)
(* whatever markings, new starts, updates, removals and failures overlap;  *)
(* and while one thing is done at a time, each prize has one ticket, drawn *)
(* by its balls.  The catalogue (Matriz): the matrix is what the panel     *)
(* says was imported, and the combos of an edition on sale have their      *)
(* titles, each its own.  The panels (Paineis): they and the files are of  *)
(* the same sales, whoever is moved or excluded.  The Hall of Fame         *)
(* (HallDaFama): a list that no write crossed is that of the database.     *)
(***************************************************************************)
EXTENDS SorteioEmSerie, Matriz, Paineis, FiniteSetTheorems, WellFoundedInduction, TLAPS

(* The draw. *)

ComPremio == {"lerPremio", "lerMarcados", "gravar", "verificar", "registrar"}

\* What a request carries, given the prizes and the editions: an update holds prizes of its
\* edition that nobody deleted, because nobody else writes them while it holds the row.
Serve(r, premios, situacao) ==
    /\ r \in Pedido
    /\ r.passo # "ocioso" => r.e \in Edicoes
    /\ r.passo \in ComPremio => r.r \in Premios /\ r.n \in Globo
    /\ r.passo = "registrar" => r.b \in Bilhetes
    /\ r.passo \in {"gravar", "verificar", "registrar"} => r.conjunto \subseteq Globo
    /\ r.passo = "iniciar" => r.conjunto \subseteq Premios
    /\ r.passo = "premios" =>
          /\ situacao[r.e] # "ausente"
          /\ r.conjunto \subseteq {x \in Premios : EdicaoDo[x] = r.e /\ premios[x] # "removido"}

PedidosServem == \A p \in Pedidos : Serve(pedido[p], premio, status)

\* The row of an edition is held by one update at a time.
TravaDeUm ==
    \A p, q \in Pedidos : pedido[p].passo = "premios" /\ pedido[q].passo = "premios"
                          /\ pedido[p].e = pedido[q].e => p = q

\* What is not created yet has no winner, and an edition that does not exist no prize.
AusenteSemNada ==
    /\ \A r \in Premios : premio[r] = "ausente" => ganhador[r] = Nulo
    /\ \A r \in Premios : status[EdicaoDo[r]] = "ausente" => premio[r] = "ausente"

IInv == TypeOK /\ PedidosServem /\ TravaDeUm /\ AusenteSemNada /\ PremioEResultadoConcordam

LEMMA OciosoServe ==
    \A premios, situacao : Serve(Ocioso, premios, situacao) /\ Ocioso.passo = "ocioso"
BY DEF Serve, Ocioso, Pedido, Passos, ComPremio

LEMMA SemResultadoTipo ==
    SemResultado \in [ok : BOOLEAN, marcados : SUBSET Globo, ganhador : Bilhetes \cup {Nulo}]
BY DEF SemResultado

LEMMA InitIInv == Init => IInv
<1> SUFFICES ASSUME Init PROVE IInv
  OBVIOUS
<1>1. TypeOK
  <2>1. Ocioso \in Pedido
    BY OciosoServe DEF Serve
  <2> QED
    BY <2>1, SemResultadoTipo DEF Init, TypeOK
<1>2. PedidosServem /\ TravaDeUm
  BY OciosoServe DEF Init, PedidosServem, TravaDeUm
<1>3. AusenteSemNada
  BY SorteioAssumption DEF Init, AusenteSemNada
<1>4. PremioEResultadoConcordam
  BY DEF Init, PremioEResultadoConcordam
<1> QED
  BY <1>1, <1>2, <1>3, <1>4 DEF IInv

\* A request goes on, or ends, and the others stay: they serve as before if no prize that an
\* update holds was deleted and no edition ceased to exist.
LEMMA OutrosServem ==
    ASSUME IInv, NEW p \in Pedidos, NEW r, pedido' = [pedido EXCEPT ![p] = r],
           Serve(r, premio', status'), r.passo # "premios",
           \A e \in Edicoes : status'[e] = "ausente" => status[e] = "ausente",
           \A q \in Pedidos \ {p} : pedido[q].passo = "premios" =>
              \A x \in Premios : EdicaoDo[x] = pedido[q].e /\ premio[x] # "removido"
                                 => premio'[x] # "removido"
    PROVE  PedidosServem' /\ TravaDeUm' /\ pedido' \in [Pedidos -> Pedido]
<1>1. pedido \in [Pedidos -> Pedido] /\ r \in Pedido
  BY DEF IInv, TypeOK, Serve
<1>2. ASSUME NEW q \in Pedidos PROVE Serve(pedido'[q], premio', status')
  <2>1. CASE q = p
    BY <1>1, <2>1
  <2>2. CASE q # p
    <3>1. pedido'[q] = pedido[q] /\ Serve(pedido[q], premio, status)
      BY <1>1, <2>2 DEF IInv, PedidosServem
    <3> QED
      BY <2>2, <3>1 DEF Serve
  <2> QED
    BY <2>1, <2>2
<1>3. TravaDeUm'
  BY <1>1 DEF IInv, TravaDeUm
<1> QED
  BY <1>1, <1>2, <1>3 DEF PedidosServem

\* A step that writes nothing but its request.
LEMMA SoPedidoIInv ==
    ASSUME IInv, NEW p \in Pedidos, NEW r, pedido' = [pedido EXCEPT ![p] = r],
           Serve(r, premio, status), r.passo # "premios",
           UNCHANGED <<status, vencida, sorteio, bilhete, job>>
    PROVE  IInv'
<1>1. PedidosServem' /\ TravaDeUm' /\ pedido' \in [Pedidos -> Pedido]
  BY OutrosServem DEF sorteio
<1>2. TypeOK'
  BY <1>1 DEF IInv, TypeOK, sorteio
<1>3. AusenteSemNada' /\ PremioEResultadoConcordam'
  BY DEF IInv, AusenteSemNada, PremioEResultadoConcordam, sorteio
<1> QED
  BY <1>1, <1>2, <1>3 DEF IInv
-----------------------------------------------------------------------------
(* The requests: what they read. *)

\* The first read of the handlers that carry nothing but the edition.
LEMMA NovoIInv ==
    ASSUME IInv, NEW p \in Pedidos, NEW e \in Edicoes, NEW passo,
           passo \in {"conflito", "desativar", "remover", "finalizar"}, Novo(p, e, passo),
           UNCHANGED <<status, vencida, sorteio, bilhete, job>>
    PROVE  IInv'
<1> DEFINE r == [Ocioso EXCEPT !.passo = passo, !.e = e]
<1>1. Serve(r, premio, status) /\ r.passo # "premios"
  BY DEF Serve, Ocioso, Pedido, Passos, ComPremio
<1>2. pedido' = [pedido EXCEPT ![p] = r]
  BY DEF Novo
<1> HIDE DEF r
<1> QED
  BY <1>1, <1>2, SoPedidoIInv

LEMMA LeiturasIInv ==
    ASSUME IInv, NEW p \in Pedidos, NEW e \in Edicoes,
           \/ IniciarAtivacao(p, e) \/ IniciarDesativacao(p, e) \/ IniciarRemocao(p, e)
           \/ LerParaIniciar(p, e) \/ LerParaFinalizar(p, e)
    PROVE  IInv'
<1>1. ASSUME \/ IniciarAtivacao(p, e) \/ IniciarDesativacao(p, e) \/ IniciarRemocao(p, e)
             \/ LerParaFinalizar(p, e)
      PROVE  IInv'
  BY <1>1, NovoIInv DEF IniciarAtivacao, IniciarDesativacao, IniciarRemocao, LerParaFinalizar
<1>2. ASSUME LerParaIniciar(p, e) PROVE IInv'
  <2> DEFINE r == [Ocioso EXCEPT !.passo = "iniciar", !.e = e, !.conjunto = PremiosDe(e)]
  <2>1. Serve(r, premio, status) /\ r.passo # "premios"
    BY DEF Serve, Ocioso, Pedido, Passos, ComPremio, PremiosDe
  <2>2. pedido' = [pedido EXCEPT ![p] = r] /\ UNCHANGED <<status, vencida, sorteio, bilhete, job>>
    BY <1>2 DEF LerParaIniciar
  <2> HIDE DEF r
  <2> QED
    BY <2>1, <2>2, SoPedidoIInv
<1> QED
  BY <1>1, <1>2

LEMMA LerEdicaoIInv ==
    ASSUME IInv, NEW p \in Pedidos, NEW x \in Premios, NEW n \in Globo, NEW marcar \in BOOLEAN,
           LerEdicao(p, x, n, marcar)
    PROVE  IInv'
<1> DEFINE r == [Ocioso EXCEPT !.passo = "lerPremio", !.e = EdicaoDo[x], !.r = x, !.n = n,
                               !.marcar = marcar]
<1>1. EdicaoDo[x] \in Edicoes
  BY SorteioAssumption
<1>2. Serve(r, premio, status) /\ r.passo # "premios"
  BY <1>1 DEF Serve, Ocioso, Pedido, Passos, ComPremio
<1>3. pedido' = [pedido EXCEPT ![p] = r] /\ UNCHANGED <<status, vencida, sorteio, bilhete, job>>
  BY DEF LerEdicao
<1> HIDE DEF r
<1> QED
  BY <1>2, <1>3, SoPedidoIInv

\* An update takes the row of an edition that nobody holds.
LEMMA LerPremiosIInv ==
    ASSUME IInv, NEW p \in Pedidos, NEW e \in Edicoes, LerPremios(p, e)
    PROVE  IInv'
<1> PICK rs \in SUBSET {r \in Premios : EdicaoDo[r] = e /\ premio[r] # "removido"} :
        pedido' = [pedido EXCEPT ![p] =
            [Ocioso EXCEPT !.passo = "premios", !.e = e, !.conjunto = rs]]
  BY DEF LerPremios
<1> DEFINE r == [Ocioso EXCEPT !.passo = "premios", !.e = e, !.conjunto = rs]
<1>1. Serve(r, premio, status)
  BY DEF Serve, Ocioso, Pedido, Passos, ComPremio, LerPremios, Existe, StatusEdicao
<1>2. r.e = e /\ r.passo = "premios"
  BY DEF Ocioso
<1>3. pedido' = [pedido EXCEPT ![p] = r]
  OBVIOUS
<1> HIDE DEF r
<1>4. UNCHANGED <<status, vencida, premio, ganhador, resultado, premiado, bilhete, job>> /\ ~Travada(e)
  BY DEF LerPremios, sorteio
<1>5. pedido \in [Pedidos -> Pedido] /\ pedido' \in [Pedidos -> Pedido]
  BY <1>1, <1>3 DEF IInv, TypeOK, Serve
<1>6. TypeOK'
  BY <1>4, <1>5 DEF IInv, TypeOK
<1>7. PedidosServem'
  <2>1. ASSUME NEW q \in Pedidos PROVE Serve(pedido'[q], premio, status)
    BY <1>1, <1>3, <1>5 DEF IInv, PedidosServem
  <2> QED
    BY <1>4, <2>1 DEF PedidosServem
<1>8. TravaDeUm'
  BY <1>2, <1>3, <1>4, <1>5 DEF IInv, TravaDeUm, Travada
<1>9. AusenteSemNada' /\ PremioEResultadoConcordam'
  BY <1>4 DEF IInv, AusenteSemNada, PremioEResultadoConcordam
<1> QED
  BY <1>6, <1>7, <1>8, <1>9 DEF IInv
-----------------------------------------------------------------------------
(* The requests: the steps that write nothing else. *)

LEMMA EncerrarIInv ==
    ASSUME IInv, NEW p \in Pedidos, Encerrar(p),
           UNCHANGED <<status, vencida, sorteio, bilhete, job>>
    PROVE  IInv'
BY OciosoServe, SoPedidoIInv DEF Encerrar

LEMMA SeguirIInv ==
    ASSUME IInv, NEW p \in Pedidos, NEW passo,
           \/ passo = "ativar" /\ pedido[p].passo = "conflito"
           \/ passo = "lerMarcados" /\ pedido[p].passo = "lerPremio",
           Seguir(p, passo), UNCHANGED <<status, vencida, sorteio, bilhete, job>>
    PROVE  IInv'
<1> DEFINE r == [pedido[p] EXCEPT !.passo = passo]
<1>1. Serve(pedido[p], premio, status) /\ pedido \in [Pedidos -> Pedido]
  BY DEF IInv, TypeOK, PedidosServem
<1>2. Serve(r, premio, status) /\ r.passo # "premios"
  BY <1>1 DEF Serve, Pedido, Passos, ComPremio
<1>3. pedido' = [pedido EXCEPT ![p] = r]
  BY <1>1 DEF Seguir
<1> HIDE DEF r
<1> QED
  BY <1>2, <1>3, SoPedidoIInv

LEMMA LerMarcadosIInv ==
    ASSUME IInv, NEW p \in Pedidos, LerMarcados(p)
    PROVE  IInv'
<1> DEFINE lidos == resultado[pedido[p].r]
           n == pedido[p].n
           novos == IF pedido[p].marcar THEN lidos.marcados \cup {n} ELSE lidos.marcados \ {n}
           r == [pedido[p] EXCEPT !.passo = "gravar", !.conjunto = novos]
<1>1. Serve(pedido[p], premio, status) /\ pedido \in [Pedidos -> Pedido]
  BY DEF IInv, TypeOK, PedidosServem
<1>2. pedido[p].passo = "lerMarcados" /\ pedido[p].r \in Premios /\ n \in Globo
  BY <1>1 DEF LerMarcados, Serve, ComPremio
<1>3. novos \subseteq Globo
  <2>1. lidos.marcados \subseteq Globo
    BY <1>2 DEF IInv, TypeOK
  <2> QED
    BY <1>2, <2>1
<1>4. UNCHANGED <<status, vencida, sorteio, bilhete, job>>
  BY DEF LerMarcados
<1>5. CASE Encerrar(p)
  BY <1>4, <1>5, EncerrarIInv
<1>6. CASE pedido' = [pedido EXCEPT ![p].passo = "gravar", ![p].conjunto = novos]
  <2>1. pedido' = [pedido EXCEPT ![p] = r]
    BY <1>1, <1>6
  <2> HIDE DEF novos
  <2>2. Serve(r, premio, status) /\ r.passo # "premios"
    BY <1>1, <1>2, <1>3 DEF Serve, Pedido, Passos, ComPremio
  <2> HIDE DEF r
  <2> QED
    BY <1>4, <2>1, <2>2, SoPedidoIInv
<1> QED
  BY <1>5, <1>6 DEF LerMarcados

LEMMA VerificarIInv ==
    ASSUME IInv, NEW p \in Pedidos, VerificarGanhador(p)
    PROVE  IInv'
<1>1. Serve(pedido[p], premio, status) /\ pedido \in [Pedidos -> Pedido]
  BY DEF IInv, TypeOK, PedidosServem
<1>2. pedido[p].passo = "verificar" /\ UNCHANGED <<status, vencida, sorteio, bilhete, job>>
  BY DEF VerificarGanhador
<1>3. CASE Encerrar(p)
  BY <1>2, <1>3, EncerrarIInv
<1>4. ASSUME NEW b \in Bilhetes,
             pedido' = [pedido EXCEPT ![p].passo = "registrar", ![p].b = b]
      PROVE  IInv'
  <2> DEFINE r == [pedido[p] EXCEPT !.passo = "registrar", !.b = b]
  <2>1. Serve(r, premio, status) /\ r.passo # "premios"
    BY <1>1, <1>2 DEF Serve, Pedido, Passos, ComPremio
  <2>2. pedido' = [pedido EXCEPT ![p] = r]
    BY <1>1, <1>4
  <2> HIDE DEF r
  <2> QED
    BY <1>2, <2>1, <2>2, SoPedidoIInv
<1>5. Encerrar(p) \/ \E b \in Bilhetes :
         pedido' = [pedido EXCEPT ![p].passo = "registrar", ![p].b = b]
  BY DEF VerificarGanhador, Completos
<1> QED
  BY <1>3, <1>4, <1>5
-----------------------------------------------------------------------------
(* The requests: the commits. *)

\* A request that ends with its commit.
LEMMA FimIInv ==
    ASSUME IInv, NEW p \in Pedidos, Encerrar(p),
           \A e \in Edicoes : status'[e] = "ausente" => status[e] = "ausente",
           \A q \in Pedidos \ {p} : pedido[q].passo = "premios" =>
              \A x \in Premios : EdicaoDo[x] = pedido[q].e /\ premio[x] # "removido"
                                 => premio'[x] # "removido"
    PROVE  PedidosServem' /\ TravaDeUm' /\ pedido' \in [Pedidos -> Pedido]
<1>1. Serve(Ocioso, premio', status') /\ Ocioso.passo # "premios"
  BY OciosoServe
<1> QED
  BY <1>1, OutrosServem DEF Encerrar

LEMMA MudarStatusIInv ==
    ASSUME IInv, NEW p \in Pedidos, Ativar(p) \/ Desativar(p) \/ Finalizar(p)
    PROVE  IInv'
<1> PICK novo \in StatusEdicao : /\ status' = [status EXCEPT ![pedido[p].e] = novo]
                                /\ Encerrar(p) /\ UNCHANGED <<vencida, sorteio, bilhete, job>>
  BY DEF Ativar, Desativar, Finalizar, MudarStatus, StatusEdicao
<1>1. \A e \in Edicoes : status'[e] = "ausente" => status[e] = "ausente"
  BY DEF IInv, TypeOK, StatusEdicao
<1>2. PedidosServem' /\ TravaDeUm' /\ pedido' \in [Pedidos -> Pedido]
  BY <1>1, FimIInv DEF sorteio
<1>3. TypeOK'
  BY <1>2 DEF IInv, TypeOK, sorteio
<1>4. AusenteSemNada' /\ PremioEResultadoConcordam'
  BY <1>1, SorteioAssumption DEF IInv, AusenteSemNada, PremioEResultadoConcordam, sorteio
<1> QED
  BY <1>2, <1>3, <1>4 DEF IInv

\* Prizes that are deleted leave no result.
LEMMA ApagarTipo ==
    ASSUME IInv, NEW rs \in SUBSET Premios, resultado' = ApagarResultados(rs)
    PROVE  /\ resultado' \in [Premios -> [ok : BOOLEAN, marcados : SUBSET Globo,
                                         ganhador : Bilhetes \cup {Nulo}]]
           /\ \A r \in rs : resultado'[r] = SemResultado
           /\ \A r \in Premios \ rs : resultado'[r] = resultado[r]
BY SemResultadoTipo DEF IInv, TypeOK, ApagarResultados

LEMMA RemoverIInv ==
    ASSUME IInv, NEW p \in Pedidos, Remover(p)
    PROVE  IInv'
<1> DEFINE e == pedido[p].e
           rs == PremiosDe(e)
<1>1. /\ status' = [status EXCEPT ![e] = "removida"] /\ Existe(e) /\ ~Travada(e)
      /\ premio' = [r \in Premios |-> IF r \in rs THEN "removido" ELSE premio[r]]
      /\ resultado' = ApagarResultados(rs)
      /\ Encerrar(p) /\ UNCHANGED <<vencida, ganhador, job>>
      /\ bilhete' = [b \in Bilhetes |-> IF EdicaoDo[b] = e /\ bilhete[b] # "nenhum"
                                        THEN "apagado" ELSE bilhete[b]]
      /\ premiado' = [b \in Bilhetes |-> IF EdicaoDo[b] = e THEN Nulo ELSE premiado[b]]
  BY DEF Remover
<1>2. rs \subseteq Premios /\ \A r \in rs : EdicaoDo[r] = e /\ premio[r] = "criado"
  BY DEF PremiosDe
<1> HIDE DEF e, rs
<1>3. \A x \in Edicoes : status'[x] = "ausente" => status[x] = "ausente"
  BY <1>1 DEF IInv, TypeOK
<1>4. \A q \in Pedidos \ {p} : pedido[q].passo = "premios" =>
         \A x \in Premios : EdicaoDo[x] = pedido[q].e /\ premio[x] # "removido"
                            => premio'[x] # "removido"
  BY <1>1, <1>2 DEF Travada
<1>5. PedidosServem' /\ TravaDeUm' /\ pedido' \in [Pedidos -> Pedido]
  BY <1>1, <1>3, <1>4, FimIInv
<1>6. /\ resultado' \in [Premios -> [ok : BOOLEAN, marcados : SUBSET Globo,
                                     ganhador : Bilhetes \cup {Nulo}]]
      /\ \A r \in rs : resultado'[r] = SemResultado
      /\ \A r \in Premios \ rs : resultado'[r] = resultado[r]
  BY <1>1, <1>2, ApagarTipo
<1>7. TypeOK'
  <2>1. status' \in [Edicoes -> StatusEdicao \cup {"ausente", "removida"}]
    BY <1>1 DEF IInv, TypeOK
  <2>2. premio' \in [Premios -> {"ausente", "criado", "removido"}]
    BY <1>1 DEF IInv, TypeOK
  <2>3. \A r \in Premios : ~resultado'[r].ok \/ premio'[r] # "criado" => resultado'[r] = SemResultado
    BY <1>1, <1>6 DEF IInv, TypeOK
  <2>4. bilhete' \in [Bilhetes -> {"nenhum", "vendido", "emitido", "apagado"}]
        /\ premiado' \in [Bilhetes -> Premios \cup {Nulo}]
    BY <1>1 DEF IInv, TypeOK
  <2> QED
    BY <1>1, <1>5, <1>6, <2>1, <2>2, <2>3, <2>4 DEF IInv, TypeOK
<1>8. AusenteSemNada'
  BY <1>1, <1>2, <1>3, SorteioAssumption DEF IInv, TypeOK, AusenteSemNada
<1>9. PremioEResultadoConcordam'
  BY <1>1, <1>6 DEF IInv, PremioEResultadoConcordam
<1> QED
  BY <1>5, <1>7, <1>8, <1>9 DEF IInv

LEMMA GravarPremiosIInv ==
    ASSUME IInv, NEW p \in Pedidos, GravarPremios(p)
    PROVE  IInv'
<1> DEFINE e == pedido[p].e
           dentro == pedido[p].conjunto
           fora == PremiosDe(e) \ dentro
<1>1. /\ pedido[p].passo = "premios" /\ NovasDatas(e) /\ Encerrar(p)
      /\ premio' = [r \in Premios |-> CASE r \in fora -> "removido"
                                         [] r \in dentro -> "criado"
                                         [] OTHER -> premio[r]]
      /\ resultado' = ApagarResultados(fora)
      /\ UNCHANGED <<status, ganhador, bilhete, premiado, job>>
  BY DEF GravarPremios
<1>2. /\ e \in Edicoes /\ status[e] # "ausente"
      /\ dentro \subseteq {x \in Premios : EdicaoDo[x] = e /\ premio[x] # "removido"}
  BY <1>1 DEF IInv, PedidosServem, Serve
<1>3. /\ fora \subseteq Premios /\ fora \cap dentro = {}
      /\ \A r \in fora : EdicaoDo[r] = e /\ premio[r] = "criado"
  BY DEF PremiosDe
<1>4. \A q \in Pedidos \ {p} : pedido[q].passo = "premios" => pedido[q].e # e
  BY <1>1 DEF IInv, TravaDeUm
<1> HIDE DEF e, dentro, fora
<1>5. \A r \in Premios : /\ r \in fora => premio'[r] = "removido"
                         /\ r \in dentro => premio'[r] = "criado"
                         /\ r \notin fora \cup dentro => premio'[r] = premio[r]
  BY <1>1, <1>3
<1>6. premio' \in [Premios -> {"ausente", "criado", "removido"}]
  <2>1. \A r \in Premios : premio'[r] \in {"ausente", "criado", "removido"}
    BY <1>5 DEF IInv, TypeOK
  <2>2. DOMAIN premio' = Premios /\ premio' = [r \in Premios |-> premio'[r]]
    BY <1>1
  <2> QED
    BY <2>1, <2>2
<1>7. \A q \in Pedidos \ {p} : pedido[q].passo = "premios" =>
         \A x \in Premios : EdicaoDo[x] = pedido[q].e /\ premio[x] # "removido"
                            => premio'[x] # "removido"
  BY <1>3, <1>4, <1>5
<1>8. PedidosServem' /\ TravaDeUm' /\ pedido' \in [Pedidos -> Pedido]
  BY <1>1, <1>7, FimIInv
<1>9. /\ resultado' \in [Premios -> [ok : BOOLEAN, marcados : SUBSET Globo,
                                     ganhador : Bilhetes \cup {Nulo}]]
      /\ \A r \in fora : resultado'[r] = SemResultado
      /\ \A r \in Premios \ fora : resultado'[r] = resultado[r]
  BY <1>1, <1>3, ApagarTipo
<1>10. TypeOK'
  <2>1. vencida' \subseteq Edicoes
    BY <1>1, <1>2 DEF NovasDatas, IInv, TypeOK
  <2>2. \A r \in Premios : ~resultado'[r].ok \/ premio'[r] # "criado" => resultado'[r] = SemResultado
    BY <1>2, <1>5, <1>9 DEF IInv, TypeOK
  <2> QED
    BY <1>1, <1>6, <1>8, <1>9, <2>1, <2>2 DEF IInv, TypeOK
<1>11. AusenteSemNada'
  BY <1>1, <1>2, <1>3, <1>5 DEF IInv, AusenteSemNada
<1>12. PremioEResultadoConcordam'
  <2> SUFFICES ASSUME NEW r \in Premios, premio'[r] = "criado"
               PROVE  ganhador'[r] = resultado'[r].ganhador
    BY DEF PremioEResultadoConcordam
  <2>1. r \notin fora /\ resultado'[r] = resultado[r]
    BY <1>5, <1>9
  <2>2. CASE premio[r] = "criado"
    BY <1>1, <2>1, <2>2 DEF IInv, PremioEResultadoConcordam
  <2>3. CASE premio[r] # "criado"
    <3>1. r \in dentro
      BY <1>5, <2>1, <2>3
    <3>2. premio[r] = "ausente"
      BY <1>2, <2>3, <3>1 DEF IInv, TypeOK
    <3> QED
      BY <1>1, <2>1, <3>2 DEF IInv, TypeOK, AusenteSemNada, SemResultado
  <2> QED
    BY <2>2, <2>3
<1> QED
  BY <1>8, <1>10, <1>11, <1>12 DEF IInv

\* Results that change while the prizes and the editions stay.
LEMMA IniciarSorteioIInv ==
    ASSUME IInv, NEW p \in Pedidos, IniciarSorteio(p)
    PROVE  IInv'
<1> DEFINE e == pedido[p].e
           rs == pedido[p].conjunto
<1>1. /\ rs \subseteq PremiosDe(e) /\ status' = [status EXCEPT ![e] = "SORTEANDO"]
      /\ resultado' = Reabrir(p)
      /\ Encerrar(p) /\ UNCHANGED <<vencida, premio, ganhador, bilhete, premiado, job>>
  BY DEF IniciarSorteio
<1>2. \A r \in rs : r \in Premios /\ premio[r] = "criado"
  BY <1>1 DEF PremiosDe
<1>3. \A x \in Edicoes : status'[x] = "ausente" => status[x] = "ausente"
  BY <1>1 DEF IInv, TypeOK
<1>4. PedidosServem' /\ TravaDeUm' /\ pedido' \in [Pedidos -> Pedido]
  BY <1>1, <1>3, FimIInv
<1>5. resultado' = [r \in Premios |-> IF r \in rs THEN [resultado[r] EXCEPT !.ok = TRUE]
                                       ELSE resultado[r]]
  BY <1>1 DEF Reabrir
<1> HIDE DEF e, rs
<1>6. resultado' \in [Premios -> [ok : BOOLEAN, marcados : SUBSET Globo,
                                  ganhador : Bilhetes \cup {Nulo}]]
  <2> DEFINE Tipo == [ok : BOOLEAN, marcados : SUBSET Globo, ganhador : Bilhetes \cup {Nulo}]
  <2>1. ASSUME NEW r \in Premios PROVE [resultado[r] EXCEPT !.ok = TRUE] \in Tipo /\ resultado[r] \in Tipo
    <3>1. resultado[r] \in Tipo
      BY DEF IInv, TypeOK
    <3> QED
      BY <3>1
  <2> HIDE DEF Tipo
  <2>2. resultado' \in [Premios -> Tipo]
    BY <1>5, <2>1
  <2> QED
    BY <2>2 DEF Tipo
<1>7. ASSUME NEW r \in Premios, ~resultado'[r].ok \/ premio'[r] # "criado"
      PROVE  resultado'[r] = SemResultado
  <2>1. resultado[r] \in [ok : BOOLEAN, marcados : SUBSET Globo, ganhador : Bilhetes \cup {Nulo}]
    BY DEF IInv, TypeOK
  <2>2. CASE r \in rs
    <3>1. resultado'[r].ok /\ premio'[r] = "criado"
      BY <1>1, <1>2, <1>5, <2>1, <2>2
    <3> QED
      BY <1>7, <3>1
  <2>3. CASE r \notin rs
    BY <1>1, <1>5, <1>7, <2>3 DEF IInv, TypeOK
  <2> QED
    BY <2>2, <2>3
<1>8. status' \in [Edicoes -> StatusEdicao \cup {"ausente", "removida"}]
  BY <1>1 DEF IInv, TypeOK, StatusEdicao
<1>9. TypeOK'
  BY <1>1, <1>4, <1>6, <1>7, <1>8 DEF IInv, TypeOK
<1>10. AusenteSemNada'
  BY <1>1, <1>3, SorteioAssumption DEF IInv, AusenteSemNada
<1>11. \A r \in Premios : resultado'[r].ganhador = resultado[r].ganhador
  BY <1>5 DEF IInv, TypeOK
<1>12. PremioEResultadoConcordam'
  BY <1>1, <1>11 DEF IInv, PremioEResultadoConcordam
<1> QED
  BY <1>4, <1>9, <1>10, <1>12 DEF IInv

LEMMA GravarMarcadosIInv ==
    ASSUME IInv, NEW p \in Pedidos, GravarMarcados(p)
    PROVE  IInv'
<1> DEFINE r == pedido[p].r
           novo == [pedido[p] EXCEPT !.passo = "verificar"]
<1>1. Serve(pedido[p], premio, status) /\ pedido \in [Pedidos -> Pedido]
  BY DEF IInv, TypeOK, PedidosServem
<1>2. /\ pedido[p].passo = "gravar" /\ resultado[r].ok
      /\ resultado' = [resultado EXCEPT ![r].marcados = pedido[p].conjunto]
      /\ UNCHANGED <<status, vencida, premio, ganhador, bilhete, premiado, job>>
  BY DEF GravarMarcados
<1>3. r \in Premios /\ pedido[p].conjunto \subseteq Globo
  BY <1>1, <1>2 DEF Serve, ComPremio
<1>4. PedidosServem' /\ TravaDeUm' /\ pedido' \in [Pedidos -> Pedido]
  <2>1. CASE Encerrar(p)
    BY <1>2, <2>1, FimIInv
  <2>2. CASE Seguir(p, "verificar")
    <3>1. pedido' = [pedido EXCEPT ![p] = novo]
      BY <1>1, <2>2 DEF Seguir
    <3>2. Serve(novo, premio', status') /\ novo.passo # "premios"
      BY <1>1, <1>2 DEF Serve, Pedido, Passos, ComPremio
    <3> HIDE DEF novo
    <3> QED
      BY <1>2, <3>1, <3>2, OutrosServem
  <2> QED
    BY <2>1, <2>2 DEF GravarMarcados
<1> HIDE DEF r
<1>5. /\ resultado' \in [Premios -> [ok : BOOLEAN, marcados : SUBSET Globo,
                                     ganhador : Bilhetes \cup {Nulo}]]
      /\ \A x \in Premios : resultado'[x].ganhador = resultado[x].ganhador
      /\ \A x \in Premios : resultado'[x].ok = resultado[x].ok
      /\ \A x \in Premios \ {r} : resultado'[x] = resultado[x]
  BY <1>2, <1>3 DEF IInv, TypeOK
<1>6. TypeOK'
  <2>1. premio[r] = "criado"
    BY <1>2, <1>3 DEF IInv, TypeOK, SemResultado
  <2>2. \A x \in Premios : ~resultado'[x].ok \/ premio'[x] # "criado" => resultado'[x] = SemResultado
    BY <1>2, <1>5, <2>1 DEF IInv, TypeOK
  <2> QED
    BY <1>2, <1>4, <1>5, <2>2 DEF IInv, TypeOK
<1>7. AusenteSemNada' /\ PremioEResultadoConcordam'
  BY <1>2, <1>5 DEF IInv, AusenteSemNada, PremioEResultadoConcordam
<1> QED
  BY <1>4, <1>6, <1>7 DEF IInv

LEMMA RegistrarGanhadorIInv ==
    ASSUME IInv, NEW p \in Pedidos, RegistrarGanhador(p)
    PROVE  IInv'
<1> DEFINE r == pedido[p].r
           b == pedido[p].b
<1>1. Serve(pedido[p], premio, status)
  BY DEF IInv, PedidosServem
<1>2. /\ pedido[p].passo = "registrar" /\ premio[r] = "criado" /\ resultado[r].ok
      /\ premiado' = [premiado EXCEPT ![b] = r]
      /\ ganhador' = [ganhador EXCEPT ![r] = b]
      /\ resultado' = [resultado EXCEPT ![r].ganhador = b]
      /\ Encerrar(p) /\ UNCHANGED <<status, vencida, premio, bilhete, job>>
  BY DEF RegistrarGanhador
<1>3. r \in Premios /\ b \in Bilhetes
  BY <1>1, <1>2 DEF Serve, ComPremio
<1>4. PedidosServem' /\ TravaDeUm' /\ pedido' \in [Pedidos -> Pedido]
  BY <1>2, FimIInv
<1> HIDE DEF r, b
<1>5. /\ resultado' \in [Premios -> [ok : BOOLEAN, marcados : SUBSET Globo,
                                     ganhador : Bilhetes \cup {Nulo}]]
      /\ resultado'[r].ganhador = b /\ resultado'[r].ok
      /\ \A x \in Premios \ {r} : resultado'[x] = resultado[x]
  BY <1>2, <1>3 DEF IInv, TypeOK
<1>6. TypeOK'
  <2>1. \A x \in Premios : ~resultado'[x].ok \/ premio'[x] # "criado" => resultado'[x] = SemResultado
    BY <1>2, <1>5 DEF IInv, TypeOK
  <2>2. ganhador' \in [Premios -> Bilhetes \cup {Nulo}]
        /\ premiado' \in [Bilhetes -> Premios \cup {Nulo}]
    BY <1>2, <1>3 DEF IInv, TypeOK
  <2> QED
    BY <1>2, <1>4, <1>5, <2>1, <2>2 DEF IInv, TypeOK
<1>7. AusenteSemNada'
  BY <1>2, <1>3 DEF IInv, TypeOK, AusenteSemNada
<1>8. PremioEResultadoConcordam'
  BY <1>2, <1>3, <1>5 DEF IInv, TypeOK, PremioEResultadoConcordam
<1> QED
  BY <1>4, <1>6, <1>7, <1>8 DEF IInv

LEMMA PedidosIInv ==
    ASSUME IInv, NEW p \in Pedidos, Administrar(p)
    PROVE  IInv'
<1>1. ASSUME NEW e \in Edicoes, LerPremios(p, e) PROVE IInv'
  BY <1>1, LerPremiosIInv
<1>2. ASSUME NEW e \in Edicoes,
             \/ IniciarAtivacao(p, e) \/ IniciarDesativacao(p, e) \/ IniciarRemocao(p, e)
             \/ LerParaIniciar(p, e) \/ LerParaFinalizar(p, e)
      PROVE  IInv'
  BY <1>2, LeiturasIInv
<1>3. ASSUME NEW r \in Premios, NEW n \in Globo, NEW marcar \in BOOLEAN,
             LerEdicao(p, r, n, marcar)
      PROVE  IInv'
  BY <1>3, LerEdicaoIInv
<1>4. CASE ValidarUnica(p)
  BY <1>4, EncerrarIInv, SeguirIInv DEF ValidarUnica
<1>5. CASE LerPremio(p)
  BY <1>5, EncerrarIInv, SeguirIInv DEF LerPremio
<1>6. CASE Falhar(p)
  BY <1>6, EncerrarIInv DEF Falhar
<1>7. CASE LerMarcados(p) \/ VerificarGanhador(p)
  BY <1>7, LerMarcadosIInv, VerificarIInv
<1>8. CASE Ativar(p) \/ Desativar(p) \/ Finalizar(p)
  BY <1>8, MudarStatusIInv
<1>9. CASE Remover(p) \/ GravarPremios(p)
  BY <1>9, RemoverIInv, GravarPremiosIInv
<1>10. CASE IniciarSorteio(p) \/ GravarMarcados(p) \/ RegistrarGanhador(p)
  BY <1>10, IniciarSorteioIInv, GravarMarcadosIInv, RegistrarGanhadorIInv
<1> QED
  BY <1>1, <1>2, <1>3, <1>4, <1>5, <1>6, <1>7, <1>8, <1>9, <1>10 DEF Administrar
-----------------------------------------------------------------------------
(* Everybody else. *)

\* A new edition has prizes that nobody used: they have no result and no winner.
LEMMA CriarIInv ==
    ASSUME IInv, NEW e \in Edicoes, Criar(e)
    PROVE  IInv'
<1> PICK rs \in SUBSET {r \in Premios : EdicaoDo[r] = e} :
        premio' = [r \in Premios |-> IF r \in rs THEN "criado" ELSE premio[r]]
  BY DEF Criar
<1>1. /\ status[e] = "ausente" /\ status' = [status EXCEPT ![e] = "RASCUNHO"]
      /\ UNCHANGED <<vencida, ganhador, resultado, bilhete, premiado, pedido, job>>
  BY DEF Criar
<1>2. \A r \in rs : premio[r] = "ausente" /\ ganhador[r] = Nulo
  BY <1>1 DEF IInv, AusenteSemNada
<1>3. \A x \in Edicoes : status'[x] = "ausente" => status[x] = "ausente" /\ x # e
  BY <1>1 DEF IInv, TypeOK
<1>4. TypeOK'
  <2>1. status' \in [Edicoes -> StatusEdicao \cup {"ausente", "removida"}]
        /\ premio' \in [Premios -> {"ausente", "criado", "removido"}]
    BY <1>1 DEF IInv, TypeOK, StatusEdicao
  <2>2. \A r \in Premios : ~resultado[r].ok \/ premio'[r] # "criado" => resultado[r] = SemResultado
    BY <1>2 DEF IInv, TypeOK
  <2> QED
    BY <1>1, <2>1, <2>2 DEF IInv, TypeOK
<1>5. PedidosServem' /\ TravaDeUm'
  <2>1. ASSUME NEW q \in Pedidos PROVE Serve(pedido[q], premio', status')
    BY <1>1, <1>3 DEF IInv, PedidosServem, Serve
  <2> QED
    BY <1>1, <2>1 DEF IInv, PedidosServem, TravaDeUm
<1>6. AusenteSemNada'
  BY <1>1, <1>3, SorteioAssumption DEF IInv, AusenteSemNada
<1>7. PremioEResultadoConcordam'
  BY <1>1, <1>2 DEF IInv, TypeOK, PremioEResultadoConcordam, SemResultado
<1> QED
  BY <1>4, <1>5, <1>6, <1>7 DEF IInv

\* The sales and the clock do not touch prizes, results and requests.
LEMMA OutrosIInv ==
    ASSUME IInv, UNCHANGED <<premio, ganhador, resultado, pedido>>,
           status' \in [Edicoes -> StatusEdicao \cup {"ausente", "removida"}],
           \A e \in Edicoes : status'[e] = "ausente" <=> status[e] = "ausente",
           vencida' \subseteq Edicoes,
           bilhete' \in [Bilhetes -> {"nenhum", "vendido", "emitido", "apagado"}],
           premiado' \in [Bilhetes -> Premios \cup {Nulo}],
           job' \in [Jobs -> [passo : {"ocioso", "encerrar"}, edicoes : SUBSET Edicoes]]
    PROVE  IInv'
<1>1. TypeOK'
  BY DEF IInv, TypeOK
<1>2. PedidosServem' /\ TravaDeUm'
  <2>1. ASSUME NEW q \in Pedidos PROVE Serve(pedido[q], premio, status')
    BY DEF IInv, PedidosServem, Serve
  <2> QED
    BY <2>1 DEF IInv, PedidosServem, TravaDeUm
<1>3. AusenteSemNada' /\ PremioEResultadoConcordam'
  BY SorteioAssumption DEF IInv, AusenteSemNada, PremioEResultadoConcordam
<1> QED
  BY <1>1, <1>2, <1>3 DEF IInv

LEMMA RelogioEVendasIInv ==
    ASSUME IInv
    PROVE  /\ \A e \in Edicoes : Passar(e) \/ MudarDatas(e) => IInv'
           /\ \A b \in Bilhetes : Vender(b) \/ Emitir(b) \/ Cancelar(b) => IInv'
<1>1. ASSUME NEW e \in Edicoes, Passar(e) \/ MudarDatas(e) PROVE IInv'
  <2>1. vencida' \subseteq Edicoes
    BY <1>1 DEF IInv, TypeOK, Passar, MudarDatas, NovasDatas
  <2>2. UNCHANGED <<status, sorteio, bilhete, pedido, job>>
    BY <1>1 DEF Passar, MudarDatas
  <2> QED
    BY <2>1, <2>2, OutrosIInv DEF IInv, TypeOK, sorteio
<1>2. ASSUME NEW b \in Bilhetes, Vender(b) \/ Emitir(b) \/ Cancelar(b) PROVE IInv'
  <2>1. /\ bilhete' \in [Bilhetes -> {"nenhum", "vendido", "emitido", "apagado"}]
        /\ premiado' \in [Bilhetes -> Premios \cup {Nulo}]
    BY <1>2 DEF IInv, TypeOK, Vender, Emitir, Cancelar, sorteio
  <2>2. UNCHANGED <<status, vencida, premio, ganhador, resultado, pedido, job>>
    BY <1>2 DEF Vender, Emitir, Cancelar, sorteio
  <2> QED
    BY <2>1, <2>2, OutrosIInv DEF IInv, TypeOK
<1> QED
  BY <1>1, <1>2

LEMMA JobsIInv ==
    ASSUME IInv, NEW j \in Jobs, ListarVencidas(j) \/ EncerrarVencidas(j) \/ FalharJob(j)
    PROVE  IInv'
<1>1. job' \in [Jobs -> [passo : {"ocioso", "encerrar"}, edicoes : SUBSET Edicoes]]
  BY DEF IInv, TypeOK, ListarVencidas, EncerrarVencidas, FalharJob, Vencidas
<1>2. status' \in [Edicoes -> StatusEdicao \cup {"ausente", "removida"}]
      /\ \A e \in Edicoes : status'[e] = "ausente" <=> status[e] = "ausente"
  BY DEF IInv, TypeOK, ListarVencidas, EncerrarVencidas, FalharJob, StatusEdicao
<1>3. UNCHANGED <<vencida, premio, ganhador, resultado, premiado, bilhete, pedido>>
  BY DEF ListarVencidas, EncerrarVencidas, FalharJob, sorteio
<1> QED
  BY <1>1, <1>2, <1>3, OutrosIInv DEF IInv, TypeOK

LEMMA StutterIInv == IInv /\ UNCHANGED vars => IInv'
<1> SUFFICES ASSUME IInv, UNCHANGED vars PROVE IInv'
  OBVIOUS
<1> QED
  BY OutrosIInv DEF IInv, TypeOK, vars, sorteio

LEMMA PassoIInv == IInv /\ [Next]_vars => IInv'
<1> SUFFICES ASSUME IInv, [Next]_vars PROVE IInv'
  OBVIOUS
<1>1. ASSUME NEW e \in Edicoes, Passar(e) \/ Criar(e) \/ MudarDatas(e) PROVE IInv'
  BY <1>1, CriarIInv, RelogioEVendasIInv
<1>2. ASSUME NEW b \in Bilhetes, Vender(b) \/ Emitir(b) \/ Cancelar(b) PROVE IInv'
  BY <1>2, RelogioEVendasIInv
<1>3. ASSUME NEW p \in Pedidos, Administrar(p) PROVE IInv'
  BY <1>3, PedidosIInv
<1>4. ASSUME NEW j \in Jobs, ListarVencidas(j) \/ EncerrarVencidas(j) \/ FalharJob(j)
      PROVE  IInv'
  BY <1>4, JobsIInv
<1>5. CASE UNCHANGED vars
  BY <1>5, StutterIInv
<1> QED
  BY <1>1, <1>2, <1>3, <1>4, <1>5 DEF Next

LEMMA Invariante == Spec => []IInv
BY InitIInv, PassoIInv, PTL DEF Spec
-----------------------------------------------------------------------------
\* Every variable has its type, and what is not drawn, or is deleted, has no result
\* (ResultadoPremio falls with its Premio).
THEOREM SorteioTipado == Spec => []TypeOK
<1>1. IInv => TypeOK
  BY DEF IInv
<1> QED
  BY <1>1, Invariante, PTL

\* Premio and ResultadoPremio name the same winner, however many markings, starts of the
\* draw, updates and removals of prizes overlap, and wherever they fail.
THEOREM GanhadorConcorda == Spec => []PremioEResultadoConcordam
<1>1. IInv => PremioEResultadoConcordam
  BY DEF IInv
<1> QED
  BY <1>1, Invariante, PTL

\* A prize and its result agree at every step of the draw (SorteioConcorda).
THEOREM SorteioSempreConcorda == Spec => []SorteioConcorda
BY SorteioTipado, GanhadorConcorda, PTL DEF SorteioConcorda
-----------------------------------------------------------------------------
(* One thing at a time: what a marking read is still so when it writes. *)

\* A winning ticket is of the edition of its prize, so that both go together.
MesmaEdicao ==
    \A b \in Bilhetes : premiado[b] # Nulo => EdicaoDo[b] = EdicaoDo[premiado[b]]

\* What request p read holds: the draw runs; the prize that is being marked has no winner; the
\* list it wrote is the list there is; the ticket it found has won nothing and has all its
\* balls; and no prize that an update leaves out has a winner.
EmDia(p) ==
    LET r == pedido[p].r
        b == pedido[p].b
        passo == pedido[p].passo
    IN  /\ passo \in ComPremio => pedido[p].e = EdicaoDo[r] /\ status[EdicaoDo[r]] = "SORTEANDO"
        /\ passo \in ComPremio \ {"lerPremio"} /\ pedido[p].marcar => ganhador[r] = Nulo
        /\ passo \in {"verificar", "registrar"} =>
               pedido[p].marcar /\ resultado[r].marcados = pedido[p].conjunto
        /\ passo = "registrar" =>
               /\ premiado[b] = Nulo /\ Bolas[b] \subseteq pedido[p].conjunto
               /\ EdicaoDo[b] = pedido[p].e
        /\ passo = "premios" =>
               \A x \in PremiosDe(pedido[p].e) \ pedido[p].conjunto : ganhador[x] = Nulo

Nomeiam == MesmaEdicao /\ GanhadorUnico

\* The edition of a request that is about to write its status is in one that the request
\* accepted.
StatusEmDia(p) ==
    LET lido == status[pedido[p].e]
        passo == pedido[p].passo
    IN  /\ passo \in {"conflito", "ativar", "remover"} => lido = "RASCUNHO"
        /\ passo = "desativar" => lido = "ATIVA"
        /\ passo = "iniciar" => lido \in {"ENCERRADA", "SORTEANDO"}
        /\ passo = "finalizar" => lido = "SORTEANDO"

SInv ==
    ~concorreu => /\ ~Sobrepostos /\ Nomeiam
                  /\ \A p \in Pedidos : EmDia(p)
                  /\ \A p \in Pedidos : StatusEmDia(p)

\* While p goes on, or ends, everybody else is at rest.
LEMMA Sozinho ==
    ASSUME IInv, NEW p \in Pedidos, ~Sobrepostos, ~Sobrepostos',
           \A q \in Pedidos \ {p} : pedido'[q] = pedido[q], NoAr(p) \/ NoAr(p)'
    PROVE  \A q \in Pedidos \ {p} : EmDia(q)'
<1> SUFFICES ASSUME NEW q \in Pedidos \ {p} PROVE EmDia(q)'
  OBVIOUS
<1>1. pedido'[q].passo = "ocioso"
  BY DEF Sobrepostos, NoAr
<1> QED
  BY <1>1 DEF EmDia, ComPremio

\* A request that begins, goes on or ends, with the others at rest.
LEMMA SoUmAnda ==
    ASSUME IInv, NEW p \in Pedidos, Administrar(p)
    PROVE  /\ \A q \in Pedidos \ {p} : pedido'[q] = pedido[q]
           /\ NoAr(p) \/ NoAr(p)'
<1>1. pedido \in [Pedidos -> Pedido]
  BY DEF IInv, TypeOK
<1>2. ASSUME NEW e \in Edicoes,
             \/ LerPremios(p, e) \/ IniciarAtivacao(p, e) \/ IniciarDesativacao(p, e)
             \/ IniciarRemocao(p, e) \/ LerParaIniciar(p, e) \/ LerParaFinalizar(p, e)
      PROVE  (\A q \in Pedidos \ {p} : pedido'[q] = pedido[q]) /\ NoAr(p)'
  BY <1>1, <1>2 DEF LerPremios, IniciarAtivacao, IniciarDesativacao, IniciarRemocao,
     LerParaIniciar, LerParaFinalizar, Novo, NoAr, Ocioso
<1>3. ASSUME NEW r \in Premios, NEW n \in Globo, NEW marcar \in BOOLEAN, LerEdicao(p, r, n, marcar)
      PROVE  (\A q \in Pedidos \ {p} : pedido'[q] = pedido[q]) /\ NoAr(p)'
  BY <1>1, <1>3 DEF LerEdicao, NoAr, Ocioso
<1>4. CASE \/ GravarPremios(p) \/ Remover(p) \/ IniciarSorteio(p) \/ RegistrarGanhador(p) \/ Falhar(p)
  BY <1>1, <1>4 DEF GravarPremios, Remover, IniciarSorteio, RegistrarGanhador, Falhar, Encerrar, NoAr
<1>5. CASE Ativar(p) \/ Desativar(p) \/ Finalizar(p)
  BY <1>1, <1>5 DEF Ativar, Desativar, Finalizar, MudarStatus, Encerrar, NoAr
<1>6. CASE ValidarUnica(p) \/ LerPremio(p) \/ GravarMarcados(p)
  BY <1>1, <1>6 DEF ValidarUnica, LerPremio, GravarMarcados, Encerrar, Seguir, NoAr
<1>7. CASE LerMarcados(p)
  <2>1. (\E r : pedido' = [pedido EXCEPT ![p] = r]) /\ pedido[p].passo = "lerMarcados"
    BY <1>7 DEF LerMarcados, Encerrar
  <2> QED
    BY <1>1, <2>1 DEF NoAr
<1>8. CASE VerificarGanhador(p)
  BY <1>1, <1>8 DEF VerificarGanhador, Encerrar, NoAr
<1> QED
  BY <1>2, <1>3, <1>4, <1>5, <1>6, <1>7, <1>8 DEF Administrar

\* Elsewhere a request relies on nothing.
LEMMA ForaEmDia ==
    ASSUME NEW p \in Pedidos, pedido'[p].passo \notin ComPremio, pedido'[p].passo # "premios"
    PROVE  EmDia(p)'
BY DEF EmDia, ComPremio

\* A step that writes nothing but its request.
LEMMA LeituraNomeiam ==
    ASSUME Nomeiam, UNCHANGED <<status, vencida, sorteio, bilhete, job>>
    PROVE  Nomeiam'
BY DEF Nomeiam, MesmaEdicao, GanhadorUnico, sorteio

LEMMA LerPremiosSInv ==
    ASSUME IInv, IInv', NEW p \in Pedidos, Nomeiam, EmDia(p), NEW e \in Edicoes, LerPremios(p, e)
    PROVE  Nomeiam' /\ EmDia(p)'
<1> PICK rs \in SUBSET {r \in Premios : EdicaoDo[r] = e /\ premio[r] # "removido"} :
        /\ \A r \in PremiosDe(e) \ rs : ganhador[r] = Nulo
        /\ pedido' = [pedido EXCEPT ![p] =
               [Ocioso EXCEPT !.passo = "premios", !.e = e, !.conjunto = rs]]
  BY DEF LerPremios
<1>1. pedido' \in [Pedidos -> Pedido] /\ pedido \in [Pedidos -> Pedido]
  BY DEF IInv, TypeOK
<1>2. pedido'[p].passo = "premios" /\ pedido'[p].e = e /\ pedido'[p].conjunto = rs
  BY <1>1 DEF Ocioso
<1>3. UNCHANGED <<status, vencida, sorteio, bilhete, job>>
  BY DEF LerPremios
<1>4. EmDia(p)'
  BY <1>2, <1>3 DEF EmDia, ComPremio, PremiosDe, sorteio
<1> QED
  BY <1>3, <1>4, LeituraNomeiam
\* The steps after which a request relies on nothing it read.
LEMMA SemLeituraSInv ==
    ASSUME IInv, NEW p \in Pedidos, Nomeiam,
           \/ \E e \in Edicoes : \/ IniciarAtivacao(p, e) \/ IniciarDesativacao(p, e)
                                 \/ IniciarRemocao(p, e) \/ LerParaFinalizar(p, e)
           \/ \E e \in Edicoes : LerParaIniciar(p, e)
           \/ ValidarUnica(p) \/ Falhar(p)
    PROVE  Nomeiam' /\ EmDia(p)'
<1>0. pedido \in [Pedidos -> Pedido]
  BY DEF IInv, TypeOK
<1>1. CASE \E e \in Edicoes : \/ IniciarAtivacao(p, e) \/ IniciarDesativacao(p, e)
                              \/ IniciarRemocao(p, e) \/ LerParaFinalizar(p, e)
  <2>1. pedido'[p].passo \in {"conflito", "desativar", "remover", "finalizar"}
    BY <1>0, <1>1 DEF IniciarAtivacao, IniciarDesativacao, IniciarRemocao, LerParaFinalizar, Novo, Ocioso
  <2>2. UNCHANGED <<status, vencida, sorteio, bilhete, job>>
    BY <1>0, <1>1 DEF IniciarAtivacao, IniciarDesativacao, IniciarRemocao, LerParaFinalizar
  <2> QED
    BY <2>1, <2>2, ForaEmDia, LeituraNomeiam DEF ComPremio
<1>2. CASE \E e \in Edicoes : LerParaIniciar(p, e)
  <2>1. pedido'[p].passo = "iniciar" /\ UNCHANGED <<status, vencida, sorteio, bilhete, job>>
    BY <1>0, <1>2 DEF LerParaIniciar, Ocioso
  <2> QED
    BY <2>1, ForaEmDia, LeituraNomeiam DEF ComPremio
<1>3. CASE ValidarUnica(p)
  <2>1. pedido'[p].passo \in {"ocioso", "ativar"} /\ UNCHANGED <<status, vencida, sorteio, bilhete, job>>
    BY <1>0, <1>3 DEF ValidarUnica, Encerrar, Seguir, Ocioso, Pedido
  <2> QED
    BY <2>1, ForaEmDia, LeituraNomeiam DEF ComPremio
<1>4. CASE Falhar(p)
  <2>1. pedido'[p].passo = "ocioso" /\ UNCHANGED <<status, vencida, sorteio, bilhete, job>>
    BY <1>0, <1>4 DEF Falhar, Encerrar, Ocioso
  <2> QED
    BY <2>1, ForaEmDia, LeituraNomeiam DEF ComPremio
<1> QED
  BY <1>1, <1>2, <1>3, <1>4

\* A marking reads the edition, the prize and the balls, and looks for a ticket.
LEMMA LerEdicaoSInv ==
    ASSUME IInv, NEW p \in Pedidos, Nomeiam, NEW x \in Premios, NEW n \in Globo,
           NEW marcar \in BOOLEAN, LerEdicao(p, x, n, marcar)
    PROVE  Nomeiam' /\ EmDia(p)'
<1>1. /\ pedido'[p].passo = "lerPremio" /\ pedido'[p].e = EdicaoDo[x] /\ pedido'[p].r = x
      /\ status[EdicaoDo[x]] = "SORTEANDO" /\ UNCHANGED <<status, vencida, sorteio, bilhete, job>>
  BY DEF IInv, TypeOK, LerEdicao, Ocioso
<1>2. EmDia(p)'
  BY <1>1 DEF EmDia, ComPremio
<1> QED
  BY <1>1, <1>2, LeituraNomeiam

LEMMA LerPremioSInv ==
    ASSUME IInv, NEW p \in Pedidos, Nomeiam, EmDia(p), LerPremio(p)
    PROVE  Nomeiam' /\ EmDia(p)'
<1>1. pedido \in [Pedidos -> Pedido]
  BY DEF IInv, TypeOK
<1>2. UNCHANGED <<status, vencida, sorteio, bilhete, job>> /\ pedido[p].passo = "lerPremio"
  BY DEF LerPremio
<1>3. CASE pedido' = [pedido EXCEPT ![p] = Ocioso]
  BY <1>1, <1>2, <1>3, ForaEmDia, LeituraNomeiam DEF ComPremio, Ocioso
<1>4. CASE Seguir(p, "lerMarcados") /\ SemGanhador(p)
  <2>1. pedido'[p] = [pedido[p] EXCEPT !.passo = "lerMarcados"] /\ pedido[p] \in Pedido
    BY <1>1, <1>4 DEF Seguir
  <2>2. /\ pedido'[p].passo = "lerMarcados" /\ pedido'[p].e = pedido[p].e
        /\ pedido'[p].r = pedido[p].r /\ pedido'[p].marcar = pedido[p].marcar
    BY <2>1 DEF Pedido
  <2>3. EmDia(p)'
    BY <1>2, <1>4, <2>2 DEF EmDia, ComPremio, SemGanhador, sorteio
  <2> QED
    BY <1>2, <2>3, LeituraNomeiam
<1> QED
  BY <1>3, <1>4 DEF LerPremio, Encerrar

LEMMA LerMarcadosSInv ==
    ASSUME IInv, NEW p \in Pedidos, Nomeiam, EmDia(p), LerMarcados(p)
    PROVE  Nomeiam' /\ EmDia(p)'
<1>1. pedido \in [Pedidos -> Pedido]
  BY DEF IInv, TypeOK
<1>2. UNCHANGED <<status, vencida, sorteio, bilhete, job>> /\ pedido[p].passo = "lerMarcados"
  BY DEF LerMarcados
<1>3. CASE pedido' = [pedido EXCEPT ![p] = Ocioso]
  BY <1>1, <1>2, <1>3, ForaEmDia, LeituraNomeiam DEF ComPremio, Ocioso
<1>4. ASSUME NEW c, pedido' = [pedido EXCEPT ![p].passo = "gravar", ![p].conjunto = c]
      PROVE  Nomeiam' /\ EmDia(p)'
  <2>1. pedido'[p] = [pedido[p] EXCEPT !.passo = "gravar", !.conjunto = c] /\ pedido[p] \in Pedido
    BY <1>1, <1>4
  <2>2. /\ pedido'[p].passo = "gravar" /\ pedido'[p].e = pedido[p].e
        /\ pedido'[p].r = pedido[p].r /\ pedido'[p].marcar = pedido[p].marcar
    BY <2>1 DEF Pedido
  <2>3. EmDia(p)'
    BY <1>2, <2>2 DEF EmDia, ComPremio, sorteio
  <2> QED
    BY <1>2, <2>3, LeituraNomeiam
<1> QED
  BY <1>3, <1>4 DEF LerMarcados, Encerrar

LEMMA VerificarSInv ==
    ASSUME IInv, NEW p \in Pedidos, Nomeiam, EmDia(p), VerificarGanhador(p)
    PROVE  Nomeiam' /\ EmDia(p)'
<1>1. pedido \in [Pedidos -> Pedido]
  BY DEF IInv, TypeOK
<1>2. UNCHANGED <<status, vencida, sorteio, bilhete, job>> /\ pedido[p].passo = "verificar"
  BY DEF VerificarGanhador
<1>3. CASE pedido' = [pedido EXCEPT ![p] = Ocioso]
  BY <1>1, <1>2, <1>3, ForaEmDia, LeituraNomeiam DEF ComPremio, Ocioso
<1>4. ASSUME NEW b \in Completos(p), pedido' = [pedido EXCEPT ![p].passo = "registrar", ![p].b = b]
      PROVE  Nomeiam' /\ EmDia(p)'
  <2>1. pedido'[p] = [pedido[p] EXCEPT !.passo = "registrar", !.b = b] /\ pedido[p] \in Pedido
    BY <1>1, <1>4
  <2>2. /\ pedido'[p].passo = "registrar" /\ pedido'[p].e = pedido[p].e /\ pedido'[p].b = b
        /\ pedido'[p].r = pedido[p].r /\ pedido'[p].marcar = pedido[p].marcar
        /\ pedido'[p].conjunto = pedido[p].conjunto
    BY <2>1 DEF Pedido
  <2>3. EmDia(p)'
    BY <1>2, <1>4, <2>2 DEF EmDia, ComPremio, Completos, sorteio
  <2> QED
    BY <1>2, <2>3, LeituraNomeiam
<1> QED
  BY <1>3, <1>4 DEF VerificarGanhador, Encerrar
\* The commits that touch neither prizes nor tickets.
LEMMA MudarStatusSInv ==
    ASSUME IInv, NEW p \in Pedidos, Nomeiam, Ativar(p) \/ Desativar(p) \/ Finalizar(p) \/ IniciarSorteio(p)
    PROVE  Nomeiam' /\ EmDia(p)'
<1>1. pedido' = [pedido EXCEPT ![p] = Ocioso] /\ UNCHANGED <<premio, ganhador, premiado, bilhete>>
  BY DEF Ativar, Desativar, Finalizar, MudarStatus, IniciarSorteio, Encerrar, sorteio
<1>2. EmDia(p)'
  BY <1>1, ForaEmDia DEF IInv, TypeOK, Ocioso, ComPremio
<1> QED
  BY <1>1, <1>2 DEF Nomeiam, MesmaEdicao, GanhadorUnico

\* The edition goes with its prizes and its tickets.
LEMMA RemoverSInv ==
    ASSUME IInv, NEW p \in Pedidos, Nomeiam, Remover(p)
    PROVE  Nomeiam' /\ EmDia(p)'
<1> DEFINE e == pedido[p].e
<1>1. /\ pedido' = [pedido EXCEPT ![p] = Ocioso] /\ ganhador' = ganhador
      /\ premio' = [r \in Premios |-> IF r \in PremiosDe(e) THEN "removido" ELSE premio[r]]
      /\ bilhete' = [b \in Bilhetes |-> IF EdicaoDo[b] = e /\ bilhete[b] # "nenhum"
                                        THEN "apagado" ELSE bilhete[b]]
      /\ premiado' = [b \in Bilhetes |-> IF EdicaoDo[b] = e THEN Nulo ELSE premiado[b]]
  BY DEF Remover, Encerrar
<1>2. EmDia(p)'
  BY <1>1, ForaEmDia DEF IInv, TypeOK, Ocioso, ComPremio
<1> HIDE DEF e
<1>3. ASSUME NEW b \in Bilhetes, premiado'[b] # Nulo
      PROVE  /\ EdicaoDo[b] = EdicaoDo[premiado'[b]]
             /\ premio'[premiado'[b]] = "criado" /\ ganhador'[premiado'[b]] = b
  <2>1. EdicaoDo[b] # e /\ premiado'[b] = premiado[b] /\ premiado[b] \in Premios
    BY <1>1, <1>3 DEF IInv, TypeOK
  <2>2. EdicaoDo[premiado[b]] = EdicaoDo[b] /\ premiado[b] \notin PremiosDe(e)
    BY <1>3, <2>1 DEF Nomeiam, MesmaEdicao, PremiosDe
  <2> QED
    BY <1>1, <1>3, <2>1, <2>2 DEF Nomeiam, GanhadorUnico
<1>4. ASSUME NEW r \in Premios, premio'[r] = "criado", ganhador'[r] # Nulo
      PROVE  bilhete'[ganhador'[r]] = "apagado" \/ premiado'[ganhador'[r]] = r
  <2> DEFINE b == ganhador[r]
  <2>1. r \notin PremiosDe(e) /\ premio[r] = "criado" /\ b \in Bilhetes
    BY <1>1, <1>4 DEF IInv, TypeOK
  <2>2. EdicaoDo[r] # e
    BY <2>1 DEF PremiosDe
  <2>3. CASE bilhete[b] = "apagado"
    BY <1>1, <2>1, <2>3
  <2>4. CASE premiado[b] = r
    <3>1. r # Nulo
      BY SorteioAssumption
    <3>2. EdicaoDo[b] = EdicaoDo[r]
      BY <2>1, <2>4, <3>1 DEF Nomeiam, MesmaEdicao
    <3> QED
      BY <1>1, <2>1, <2>2, <2>4, <3>2
  <2> QED
    BY <1>1, <1>4, <2>1, <2>3, <2>4 DEF Nomeiam, GanhadorUnico
<1> QED
  BY <1>2, <1>3, <1>4 DEF Nomeiam, MesmaEdicao, GanhadorUnico

\* An update deletes no prize with a winner, and the ones it adds have none.
LEMMA GravarPremiosSInv ==
    ASSUME IInv, NEW p \in Pedidos, Nomeiam, EmDia(p), GravarPremios(p)
    PROVE  Nomeiam' /\ EmDia(p)'
<1> DEFINE fora == PremiosDe(pedido[p].e) \ pedido[p].conjunto
           dentro == pedido[p].conjunto
<1>1. /\ pedido[p].passo = "premios" /\ pedido' = [pedido EXCEPT ![p] = Ocioso]
      /\ premio' = [r \in Premios |-> CASE r \in fora -> "removido"
                                        [] r \in dentro -> "criado"
                                        [] OTHER -> premio[r]]
      /\ UNCHANGED <<ganhador, bilhete, premiado>>
  BY DEF GravarPremios, Encerrar
<1>2. EmDia(p)'
  BY <1>1, ForaEmDia DEF IInv, TypeOK, Ocioso, ComPremio
<1>3. \A r \in fora : ganhador[r] = Nulo
  BY <1>1 DEF EmDia
<1>4. \A r \in dentro : r \in Premios /\ (premio[r] = "criado" \/ ganhador[r] = Nulo)
  <2>1. Serve(pedido[p], premio, status)
    BY DEF IInv, PedidosServem
  <2>2. \A r \in dentro : r \in Premios /\ premio[r] # "removido"
    BY <1>1, <2>1 DEF Serve
  <2> QED
    BY <2>2 DEF IInv, TypeOK, AusenteSemNada
<1> HIDE DEF fora, dentro
<1>5. \A r \in Premios : ganhador[r] # Nulo => premio'[r] = premio[r]
  <2> SUFFICES ASSUME NEW r \in Premios, ganhador[r] # Nulo PROVE premio'[r] = premio[r]
    OBVIOUS
  <2>1. r \notin fora
    BY <1>3
  <2>2. CASE r \in dentro
    BY <1>1, <1>4, <2>1, <2>2
  <2>3. CASE r \notin dentro
    BY <1>1, <2>1, <2>3
  <2> QED
    BY <2>2, <2>3
<1>6. ASSUME NEW b \in Bilhetes, premiado[b] # Nulo
      PROVE  premio'[premiado[b]] = "criado"
  <2>1. premiado[b] \in Premios /\ b # Nulo
    BY <1>6, SorteioAssumption DEF IInv, TypeOK
  <2> QED
    BY <1>5, <1>6, <2>1 DEF Nomeiam, GanhadorUnico
<1>7. Nomeiam'
  BY <1>1, <1>5, <1>6 DEF Nomeiam, MesmaEdicao, GanhadorUnico
<1> QED
  BY <1>2, <1>7

\* The list that is written is the one the search for a ticket goes by.
LEMMA GravarMarcadosSInv ==
    ASSUME IInv, NEW p \in Pedidos, Nomeiam, EmDia(p), GravarMarcados(p)
    PROVE  Nomeiam' /\ EmDia(p)'
<1> DEFINE r == pedido[p].r
<1>1. /\ pedido[p].passo = "gravar" /\ resultado' = [resultado EXCEPT ![r].marcados = pedido[p].conjunto]
      /\ UNCHANGED <<status, premio, ganhador, bilhete, premiado>>
      /\ IF pedido[p].marcar THEN Seguir(p, "verificar") ELSE Encerrar(p)
  BY DEF GravarMarcados
<1>2. Nomeiam'
  BY <1>1 DEF Nomeiam, MesmaEdicao, GanhadorUnico
<1>3. pedido \in [Pedidos -> Pedido] /\ Serve(pedido[p], premio, status)
  BY DEF IInv, TypeOK, PedidosServem
<1>4. resultado'[r].marcados = pedido[p].conjunto
  BY <1>1, <1>3 DEF IInv, TypeOK, Serve, ComPremio
<1>5. CASE ~pedido[p].marcar
  BY <1>1, <1>2, <1>3, <1>5, ForaEmDia DEF Encerrar, Ocioso, ComPremio
<1>6. CASE pedido[p].marcar
  <2>1. pedido'[p] = [pedido[p] EXCEPT !.passo = "verificar"] /\ pedido[p] \in Pedido
    BY <1>1, <1>3, <1>6 DEF Seguir
  <2>2. /\ pedido'[p].passo = "verificar" /\ pedido'[p].e = pedido[p].e
        /\ pedido'[p].r = pedido[p].r /\ pedido'[p].marcar = pedido[p].marcar
        /\ pedido'[p].conjunto = pedido[p].conjunto
    BY <2>1 DEF Pedido
  <2>3. EmDia(p)'
    BY <1>1, <1>4, <1>6, <2>2 DEF EmDia, ComPremio
  <2> QED
    BY <1>2, <2>3
<1> QED
  BY <1>5, <1>6

\* The winner: nobody had named the ticket or the prize.
LEMMA RegistrarSInv ==
    ASSUME IInv, NEW p \in Pedidos, Nomeiam, EmDia(p), RegistrarGanhador(p)
    PROVE  /\ Nomeiam' /\ EmDia(p)'
           /\ \A r \in Premios : PremiacaoJusta(r)
<1> DEFINE x == pedido[p].r
           b == pedido[p].b
<1>1. Serve(pedido[p], premio, status)
  BY DEF IInv, PedidosServem
<1>2. /\ pedido[p].passo = "registrar" /\ pedido' = [pedido EXCEPT ![p] = Ocioso]
      /\ bilhete[b] = "emitido" /\ premio[x] = "criado" /\ resultado[x].ok
      /\ premiado' = [premiado EXCEPT ![b] = x]
      /\ ganhador' = [ganhador EXCEPT ![x] = b]
      /\ resultado' = [resultado EXCEPT ![x].ganhador = b]
      /\ UNCHANGED <<status, premio, bilhete>>
  BY DEF RegistrarGanhador, Encerrar
<1>3. x \in Premios /\ b \in Bilhetes
  BY <1>1, <1>2 DEF Serve, ComPremio
<1>4. /\ EdicaoDo[b] = EdicaoDo[x] /\ status[EdicaoDo[x]] = "SORTEANDO"
      /\ ganhador[x] = Nulo /\ premiado[b] = Nulo /\ Bolas[b] \subseteq resultado[x].marcados
  BY <1>2 DEF EmDia, ComPremio
<1>5. EmDia(p)'
  BY <1>2, ForaEmDia DEF IInv, TypeOK, Ocioso, ComPremio
<1> HIDE DEF x, b
<1>6. x # Nulo /\ b # Nulo
  BY <1>3, SorteioAssumption
<1>7. /\ premiado'[b] = x /\ \A a \in Bilhetes \ {b} : premiado'[a] = premiado[a]
      /\ ganhador'[x] = b /\ \A r \in Premios \ {x} : ganhador'[r] = ganhador[r]
      /\ resultado'[x].marcados = resultado[x].marcados
  BY <1>2, <1>3 DEF IInv, TypeOK
<1>8. ASSUME NEW a \in Bilhetes, premiado'[a] # Nulo
      PROVE  /\ EdicaoDo[a] = EdicaoDo[premiado'[a]]
             /\ premio'[premiado'[a]] = "criado" /\ ganhador'[premiado'[a]] = a
  <2>1. CASE a = b
    BY <1>2, <1>4, <1>7, <2>1
  <2>2. CASE a # b
    <3>1. premiado'[a] = premiado[a] /\ premiado[a] \in Premios /\ a # Nulo
      BY <1>7, <1>8, <2>2, SorteioAssumption DEF IInv, TypeOK
    <3>2. ganhador[premiado[a]] = a /\ premio[premiado[a]] = "criado" /\ EdicaoDo[a] = EdicaoDo[premiado[a]]
      BY <1>8, <3>1 DEF Nomeiam, MesmaEdicao, GanhadorUnico
    <3>3. premiado[a] # x
      BY <1>4, <3>1, <3>2
    <3> QED
      BY <1>2, <1>7, <3>1, <3>2, <3>3
  <2> QED
    BY <2>1, <2>2
<1>9. ASSUME NEW r \in Premios, premio'[r] = "criado", ganhador'[r] # Nulo
      PROVE  bilhete'[ganhador'[r]] = "apagado" \/ premiado'[ganhador'[r]] = r
  <2>1. CASE r = x
    BY <1>7, <2>1
  <2>2. CASE r # x
    <3>1. ganhador'[r] = ganhador[r] /\ ganhador[r] \in Bilhetes /\ premio[r] = "criado" /\ r # Nulo
      BY <1>2, <1>7, <1>9, <2>2, SorteioAssumption DEF IInv, TypeOK
    <3>2. bilhete[ganhador[r]] = "apagado" \/ premiado[ganhador[r]] = r
      BY <1>9, <3>1 DEF Nomeiam, GanhadorUnico
    <3>3. CASE bilhete[ganhador[r]] = "apagado"
      BY <1>2, <3>1, <3>3
    <3>4. CASE premiado[ganhador[r]] = r
      BY <1>4, <1>7, <3>1, <3>4
    <3> QED
      BY <3>2, <3>3, <3>4
  <2> QED
    BY <2>1, <2>2
<1>10. \A r \in Premios : PremiacaoJusta(r)
  <2> SUFFICES ASSUME NEW r \in Premios, ganhador'[r] # ganhador[r] PROVE PremiacaoJusta(r)
    BY DEF PremiacaoJusta
  <2>1. r = x
    BY <1>7
  <2> QED
    BY <1>4, <1>7, <2>1 DEF PremiacaoJusta
<1> QED
  BY <1>5, <1>8, <1>9, <1>10 DEF Nomeiam, MesmaEdicao, GanhadorUnico
\* Nothing but RegistrarGanhador gives a prize its winner.
LEMMA SoRegistrarPremia ==
    ASSUME NEW p \in Pedidos, Administrar(p)
    PROVE  RegistrarGanhador(p) \/ UNCHANGED ganhador
<1>1. ASSUME NEW e \in Edicoes,
             \/ LerPremios(p, e) \/ IniciarAtivacao(p, e) \/ IniciarDesativacao(p, e)
             \/ IniciarRemocao(p, e) \/ LerParaIniciar(p, e) \/ LerParaFinalizar(p, e)
      PROVE  UNCHANGED ganhador
  BY <1>1 DEF LerPremios, IniciarAtivacao, IniciarDesativacao, IniciarRemocao, LerParaIniciar,
     LerParaFinalizar, sorteio
<1>2. ASSUME NEW r \in Premios, NEW n \in Globo, NEW marcar \in BOOLEAN, LerEdicao(p, r, n, marcar)
      PROVE  UNCHANGED ganhador
  BY <1>2 DEF LerEdicao, sorteio
<1>3. CASE \/ GravarPremios(p) \/ Remover(p) \/ IniciarSorteio(p) \/ GravarMarcados(p) \/ Falhar(p)
           \/ Ativar(p) \/ Desativar(p) \/ Finalizar(p)
  BY <1>3 DEF GravarPremios, Remover, IniciarSorteio, GravarMarcados, Falhar, Ativar, Desativar,
     Finalizar, MudarStatus, sorteio
<1>4. CASE ValidarUnica(p) \/ LerPremio(p) \/ LerMarcados(p) \/ VerificarGanhador(p)
  BY <1>4 DEF ValidarUnica, LerPremio, LerMarcados, VerificarGanhador, sorteio
<1> QED
  BY <1>1, <1>2, <1>3, <1>4 DEF Administrar

LEMMA PedidosSInv ==
    ASSUME IInv, IInv', NEW p \in Pedidos, Administrar(p), ~Sobrepostos, ~Sobrepostos',
           Nomeiam, \A q \in Pedidos : EmDia(q)
    PROVE  /\ Nomeiam' /\ \A q \in Pedidos : EmDia(q)'
           /\ \A r \in Premios : PremiacaoJusta(r)
<1>1. Nomeiam' /\ EmDia(p)'
  <2>1. ASSUME NEW e \in Edicoes, LerPremios(p, e) PROVE Nomeiam' /\ EmDia(p)'
    BY <2>1, LerPremiosSInv
  <2>2. ASSUME NEW r \in Premios, NEW n \in Globo, NEW marcar \in BOOLEAN, LerEdicao(p, r, n, marcar)
        PROVE  Nomeiam' /\ EmDia(p)'
    BY <2>2, LerEdicaoSInv
  <2>3. CASE \/ \E e \in Edicoes : \/ IniciarAtivacao(p, e) \/ IniciarDesativacao(p, e)
                                   \/ IniciarRemocao(p, e) \/ LerParaFinalizar(p, e)
             \/ \E e \in Edicoes : LerParaIniciar(p, e)
             \/ ValidarUnica(p) \/ Falhar(p)
    BY <2>3, SemLeituraSInv
  <2>4. CASE LerPremio(p) \/ LerMarcados(p) \/ VerificarGanhador(p)
    BY <2>4, LerPremioSInv, LerMarcadosSInv, VerificarSInv
  <2>5. CASE Ativar(p) \/ Desativar(p) \/ Finalizar(p) \/ IniciarSorteio(p) \/ Remover(p)
    BY <2>5, MudarStatusSInv, RemoverSInv
  <2>6. CASE GravarPremios(p) \/ GravarMarcados(p) \/ RegistrarGanhador(p)
    BY <2>6, GravarPremiosSInv, GravarMarcadosSInv, RegistrarSInv
  <2> QED
    BY <2>1, <2>2, <2>3, <2>4, <2>5, <2>6 DEF Administrar
<1>2. \A q \in Pedidos \ {p} : EmDia(q)'
  BY SoUmAnda, Sozinho
<1>3. \A r \in Premios : PremiacaoJusta(r)
  <2>1. CASE RegistrarGanhador(p)
    BY <2>1, RegistrarSInv
  <2>2. CASE UNCHANGED ganhador
    BY <2>2 DEF PremiacaoJusta
  <2>3. RegistrarGanhador(p) \/ UNCHANGED ganhador
    BY SoRegistrarPremia
  <2> QED
    BY <2>1, <2>2, <2>3
<1> QED
  BY <1>1, <1>2, <1>3

\* What p read holds as long as the draw, its prizes, its balls and its request stay; a ticket
\* may lose its prize.
LEMMA EmDiaFica ==
    ASSUME IInv, UNCHANGED <<ganhador, resultado, pedido>>, NEW p \in Pedidos, EmDia(p),
           status[EdicaoDo[pedido[p].r]] = "SORTEANDO" => status'[EdicaoDo[pedido[p].r]] = "SORTEANDO",
           \A b \in Bilhetes : premiado[b] = Nulo => premiado'[b] = Nulo,
           \A r \in Premios : premio'[r] = premio[r] \/ ganhador[r] = Nulo
    PROVE  EmDia(p)'
<1>1. Serve(pedido[p], premio, status)
  BY DEF IInv, PedidosServem
<1>2. pedido[p].passo = "registrar" => pedido[p].b \in Bilhetes
  BY <1>1 DEF Serve
<1>3. pedido[p].passo = "premios" =>
         \A x \in PremiosDe(pedido[p].e)' \ pedido[p].conjunto : ganhador[x] = Nulo
  BY DEF EmDia, PremiosDe
<1> QED
  BY <1>2, <1>3 DEF EmDia, ComPremio

LEMMA VendasSInv ==
    ASSUME IInv, NEW b \in Bilhetes, Vender(b) \/ Emitir(b) \/ Cancelar(b), Nomeiam,
           \A q \in Pedidos : EmDia(q)
    PROVE  Nomeiam' /\ \A q \in Pedidos : EmDia(q)'
<1>1. /\ UNCHANGED <<status, premio, ganhador, resultado, pedido>>
      /\ \A a \in Bilhetes : premiado'[a] = premiado[a] \/ premiado'[a] = Nulo
      /\ \A a \in Bilhetes : premiado'[a] # premiado[a] => bilhete'[a] = "apagado"
      /\ \A a \in Bilhetes : bilhete[a] = "apagado" => bilhete'[a] = "apagado"
  BY DEF Vender, Emitir, Cancelar, sorteio, IInv, TypeOK
<1>2. \A q \in Pedidos : EmDia(q)'
  BY <1>1, EmDiaFica
<1>3. MesmaEdicao'
  BY <1>1 DEF Nomeiam, MesmaEdicao
<1>4. ASSUME NEW a \in Bilhetes, premiado'[a] # Nulo
      PROVE  premio'[premiado'[a]] = "criado" /\ ganhador'[premiado'[a]] = a
  BY <1>1, <1>4 DEF Nomeiam, GanhadorUnico
<1>5. ASSUME NEW r \in Premios, premio'[r] = "criado", ganhador'[r] # Nulo
      PROVE  bilhete'[ganhador'[r]] = "apagado" \/ premiado'[ganhador'[r]] = r
  <2>1. ganhador[r] \in Bilhetes
    BY <1>1, <1>5 DEF IInv, TypeOK
  <2> QED
    BY <1>1, <1>5, <2>1 DEF Nomeiam, GanhadorUnico
<1> QED
  BY <1>2, <1>3, <1>4, <1>5 DEF Nomeiam, GanhadorUnico

LEMMA EdicaoSInv ==
    ASSUME IInv, NEW e \in Edicoes, Passar(e) \/ MudarDatas(e) \/ Criar(e), Nomeiam,
           \A q \in Pedidos : EmDia(q)
    PROVE  Nomeiam' /\ \A q \in Pedidos : EmDia(q)'
<1>1. /\ UNCHANGED <<ganhador, resultado, premiado, bilhete, pedido>>
      /\ \A x \in Edicoes : status[x] = "SORTEANDO" => status'[x] = "SORTEANDO"
      /\ \A r \in Premios : premio'[r] = premio[r] \/ ganhador[r] = Nulo
  <2>1. CASE Passar(e) \/ MudarDatas(e)
    BY <2>1 DEF Passar, MudarDatas, sorteio
  <2>2. CASE Criar(e)
    <3>1. PICK rs \in SUBSET {r \in Premios : EdicaoDo[r] = e} :
             premio' = [r \in Premios |-> IF r \in rs THEN "criado" ELSE premio[r]]
      BY <2>2 DEF Criar
    <3>2. status[e] = "ausente" /\ status' = [status EXCEPT ![e] = "RASCUNHO"]
      BY <2>2 DEF Criar
    <3>3. \A r \in rs : ganhador[r] = Nulo
      BY <3>2 DEF IInv, AusenteSemNada
    <3>4. \A x \in Edicoes : status[x] = "SORTEANDO" => status'[x] = "SORTEANDO"
      BY <3>2 DEF IInv, TypeOK
    <3>5. UNCHANGED <<ganhador, resultado, premiado, bilhete, pedido>>
      BY <2>2 DEF Criar
    <3> QED
      BY <3>1, <3>3, <3>4, <3>5
  <2> QED
    BY <2>1, <2>2
<1>2. ASSUME NEW q \in Pedidos PROVE EmDia(q)'
  <2>1. pedido[q].passo \in ComPremio => EdicaoDo[pedido[q].r] \in Edicoes
    BY SorteioAssumption DEF IInv, PedidosServem, Serve
  <2>2. CASE pedido[q].passo \in ComPremio
    BY <1>1, <2>1, <2>2, EmDiaFica
  <2>3. CASE pedido[q].passo = "premios"
    BY <1>1, <2>3 DEF EmDia, ComPremio, PremiosDe
  <2>4. CASE pedido[q].passo \notin ComPremio /\ pedido[q].passo # "premios"
    BY <1>1, <2>4, ForaEmDia
  <2> QED
    BY <2>2, <2>3, <2>4
<1>3. ASSUME NEW b \in Bilhetes, premiado[b] # Nulo
      PROVE  premio'[premiado[b]] = "criado"
  <2>1. premiado[b] \in Premios /\ b # Nulo
    BY <1>3, SorteioAssumption DEF IInv, TypeOK
  <2> QED
    BY <1>1, <1>3, <2>1 DEF Nomeiam, GanhadorUnico
<1>4. Nomeiam'
  BY <1>1, <1>3 DEF Nomeiam, MesmaEdicao, GanhadorUnico
<1> QED
  BY <1>2, <1>4

\* The job runs with no request in flight.
LEMMA JobsSInv ==
    ASSUME IInv, NEW j \in Jobs, ListarVencidas(j) \/ EncerrarVencidas(j) \/ FalharJob(j),
           ~Sobrepostos, ~Sobrepostos', Nomeiam
    PROVE  Nomeiam' /\ \A q \in Pedidos : EmDia(q)'
<1>1. UNCHANGED <<premio, ganhador, resultado, premiado, bilhete, pedido>>
  BY DEF ListarVencidas, EncerrarVencidas, FalharJob, sorteio
<1>2. Rodando(j) \/ Rodando(j)'
  BY DEF ListarVencidas, EncerrarVencidas, FalharJob, Rodando, IInv, TypeOK
<1>3. ASSUME NEW q \in Pedidos PROVE EmDia(q)'
  <2>1. pedido'[q].passo = "ocioso"
    BY <1>1, <1>2 DEF Sobrepostos, NoAr
  <2> QED
    BY <2>1, ForaEmDia DEF ComPremio
<1> QED
  BY <1>1, <1>3 DEF Nomeiam, MesmaEdicao, GanhadorUnico

\* At the other steps a request writes no status.
LEMMA ForaStatusEmDia ==
    ASSUME NEW p \in Pedidos, pedido'[p].passo \in {"ocioso", "premios"} \cup ComPremio
    PROVE  StatusEmDia(p)'
BY DEF StatusEmDia, ComPremio

\* A request writes the status of its edition on an edge of its life, and what it read is
\* still so.
LEMMA PedidosStatus ==
    ASSUME IInv, IInv', NEW p \in Pedidos, Administrar(p), StatusEmDia(p)
    PROVE  StatusEmDia(p)' /\ \A e \in Edicoes : CicloPermitido(e)
<1>1. /\ pedido \in [Pedidos -> Pedido] /\ status \in [Edicoes -> StatusEdicao \cup {"ausente", "removida"}]
      /\ pedido[p].passo # "ocioso" => pedido[p].e \in Edicoes
  BY DEF IInv, TypeOK, PedidosServem, Serve
<1>2. ASSUME NEW e \in Edicoes,
             IniciarAtivacao(p, e) \/ IniciarDesativacao(p, e) \/ IniciarRemocao(p, e)
             \/ LerParaFinalizar(p, e)
      PROVE  StatusEmDia(p)' /\ UNCHANGED status
  <2>1. \/ pedido'[p].passo = "conflito" /\ pedido'[p].e = e /\ status[e] = "RASCUNHO"
        \/ pedido'[p].passo = "desativar" /\ pedido'[p].e = e /\ status[e] = "ATIVA"
        \/ pedido'[p].passo = "remover" /\ pedido'[p].e = e /\ status[e] = "RASCUNHO"
        \/ pedido'[p].passo = "finalizar" /\ pedido'[p].e = e /\ status[e] = "SORTEANDO"
    <3>1. CASE IniciarAtivacao(p, e)
      BY <1>1, <3>1 DEF IniciarAtivacao, Novo, Ocioso
    <3>2. CASE IniciarDesativacao(p, e)
      BY <1>1, <3>2 DEF IniciarDesativacao, Novo, Ocioso
    <3>3. CASE IniciarRemocao(p, e)
      BY <1>1, <3>3 DEF IniciarRemocao, Novo, Ocioso
    <3>4. CASE LerParaFinalizar(p, e)
      BY <1>1, <3>4 DEF LerParaFinalizar, Novo, Ocioso
    <3> QED
      BY <1>2, <3>1, <3>2, <3>3, <3>4
  <2>2. UNCHANGED status
    BY <1>2 DEF IniciarAtivacao, IniciarDesativacao, IniciarRemocao, LerParaFinalizar
  <2> QED
    BY <2>1, <2>2 DEF StatusEmDia
<1>3. ASSUME NEW e \in Edicoes, LerParaIniciar(p, e)
      PROVE  StatusEmDia(p)' /\ UNCHANGED status
  BY <1>1, <1>3 DEF LerParaIniciar, Ocioso, StatusEmDia
<1>4. ASSUME NEW e \in Edicoes, LerPremios(p, e)
      PROVE  StatusEmDia(p)' /\ UNCHANGED status
  <2>1. pedido'[p].passo = "premios" /\ UNCHANGED status
    BY <1>1, <1>4 DEF LerPremios, Ocioso
  <2> QED
    BY <2>1, ForaStatusEmDia
<1>5. ASSUME NEW r \in Premios, NEW n \in Globo, NEW marcar \in BOOLEAN, LerEdicao(p, r, n, marcar)
      PROVE  StatusEmDia(p)' /\ UNCHANGED status
  BY <1>1, <1>5 DEF LerEdicao, Ocioso, StatusEmDia
<1>6. CASE ValidarUnica(p)
  <2>1. /\ pedido[p].passo = "conflito" /\ UNCHANGED status
        /\ \/ pedido' = [pedido EXCEPT ![p] = Ocioso]
           \/ pedido' = [pedido EXCEPT ![p].passo = "ativar"]
    BY <1>6 DEF ValidarUnica, Encerrar, Seguir
  <2>2. \/ pedido'[p].passo = "ocioso"
        \/ pedido'[p].passo = "ativar" /\ pedido'[p].e = pedido[p].e
    BY <1>1, <2>1 DEF Ocioso, Pedido
  <2> QED
    BY <2>1, <2>2 DEF StatusEmDia, CicloPermitido
<1>7. CASE LerPremio(p) \/ LerMarcados(p) \/ GravarMarcados(p) \/ VerificarGanhador(p)
  <2>1. pedido'[p].passo \in {"ocioso"} \cup ComPremio /\ UNCHANGED status
    <3>1. CASE LerPremio(p) \/ GravarMarcados(p)
      BY <1>1, <3>1 DEF LerPremio, GravarMarcados, Seguir, Encerrar, Ocioso, ComPremio, Pedido
    <3>2. CASE LerMarcados(p) \/ VerificarGanhador(p)
      BY <1>1, <3>2 DEF LerMarcados, VerificarGanhador, Encerrar, Ocioso, ComPremio, Pedido
    <3> QED
      BY <1>7, <3>1, <3>2
  <2> QED
    BY <2>1, ForaStatusEmDia DEF CicloPermitido
<1>8. CASE GravarPremios(p) \/ RegistrarGanhador(p) \/ Falhar(p)
  <2>1. pedido'[p].passo = "ocioso" /\ UNCHANGED status
    BY <1>1, <1>8 DEF GravarPremios, RegistrarGanhador, Falhar, Encerrar, Ocioso
  <2> QED
    BY <2>1, ForaStatusEmDia DEF CicloPermitido
<1>9. CASE Ativar(p) \/ Desativar(p) \/ Finalizar(p) \/ Remover(p) \/ IniciarSorteio(p)
  <2> DEFINE e == pedido[p].e
  <2>1. pedido[p].passo # "ocioso" /\ pedido' = [pedido EXCEPT ![p] = Ocioso]
    BY <1>9 DEF Ativar, Desativar, Finalizar, MudarStatus, Remover, IniciarSorteio, Encerrar
  <2>2. StatusEmDia(p)'
    BY <1>1, <2>1, ForaStatusEmDia DEF Ocioso
  <2>3. e \in Edicoes
    BY <1>1, <2>1
  <2>4. \/ status[e] = "RASCUNHO" /\ status' = [status EXCEPT ![e] = "ATIVA"]
        \/ status[e] = "ATIVA" /\ status' = [status EXCEPT ![e] = "RASCUNHO"]
        \/ status[e] = "SORTEANDO" /\ status' = [status EXCEPT ![e] = "FINALIZADA"]
        \/ status[e] = "RASCUNHO" /\ status' = [status EXCEPT ![e] = "removida"]
        \/ status[e] \in {"ENCERRADA", "SORTEANDO"} /\ status' = [status EXCEPT ![e] = "SORTEANDO"]
    BY <1>9 DEF Ativar, Desativar, Finalizar, MudarStatus, Remover, IniciarSorteio, StatusEmDia
  <2> HIDE DEF e
  <2>5. \A x \in Edicoes : CicloPermitido(x)
    BY <1>1, <2>3, <2>4 DEF CicloPermitido, Ciclo
  <2> QED
    BY <2>2, <2>5
<1>10. UNCHANGED status => \A e \in Edicoes : CicloPermitido(e)
  BY DEF CicloPermitido
<1> QED
  BY <1>2, <1>3, <1>4, <1>5, <1>6, <1>7, <1>8, <1>9, <1>10 DEF Administrar

\* The clock, the sales, new dates and new editions do not touch the edition of a request; the
\* job does, with no request in flight.
LEMMA OutrosStatus ==
    ASSUME IInv, ~Sobrepostos, ~Sobrepostos', \A q \in Pedidos : StatusEmDia(q),
           \/ \E e \in Edicoes : Passar(e) \/ Criar(e) \/ MudarDatas(e)
           \/ \E b \in Bilhetes : Vender(b) \/ Emitir(b) \/ Cancelar(b)
           \/ \E j \in Jobs : ListarVencidas(j) \/ EncerrarVencidas(j) \/ FalharJob(j)
    PROVE  /\ \A q \in Pedidos : StatusEmDia(q)'
           /\ \A e \in Edicoes : CicloPermitido(e)
<1>1. /\ status \in [Edicoes -> StatusEdicao \cup {"ausente", "removida"}]
      /\ \A q \in Pedidos : pedido[q].passo # "ocioso" => pedido[q].e \in Edicoes
  BY DEF IInv, TypeOK, PedidosServem, Serve
<1>2. CASE \/ \E e \in Edicoes : Passar(e) \/ MudarDatas(e)
           \/ \E b \in Bilhetes : Vender(b) \/ Emitir(b) \/ Cancelar(b)
  <2>1. UNCHANGED <<status, pedido>>
    BY <1>2 DEF Passar, MudarDatas, Vender, Emitir, Cancelar
  <2> QED
    BY <2>1 DEF StatusEmDia, CicloPermitido
<1>3. ASSUME NEW e \in Edicoes, Criar(e)
      PROVE  /\ \A q \in Pedidos : StatusEmDia(q)'
             /\ \A x \in Edicoes : CicloPermitido(x)
  <2>1. status[e] = "ausente" /\ status' = [status EXCEPT ![e] = "RASCUNHO"] /\ UNCHANGED pedido
    BY <1>3 DEF Criar
  <2>2. ASSUME NEW q \in Pedidos PROVE StatusEmDia(q)'
    <3>1. CASE pedido[q].passo = "ocioso"
      BY <2>1, <3>1, ForaStatusEmDia
    <3>2. CASE pedido[q].e = e
      BY <2>1, <3>2 DEF StatusEmDia
    <3>3. CASE pedido[q].passo # "ocioso" /\ pedido[q].e # e
      BY <1>1, <2>1, <3>3 DEF StatusEmDia
    <3> QED
      BY <3>1, <3>2, <3>3
  <2>3. \A x \in Edicoes : CicloPermitido(x)
    BY <1>1, <2>1 DEF CicloPermitido, Ciclo
  <2> QED
    BY <2>2, <2>3
<1>4. ASSUME NEW j \in Jobs, ListarVencidas(j) \/ EncerrarVencidas(j) \/ FalharJob(j)
      PROVE  /\ \A q \in Pedidos : StatusEmDia(q)'
             /\ \A e \in Edicoes : CicloPermitido(e)
  <2>1. UNCHANGED pedido /\ (Rodando(j) \/ Rodando(j)')
    BY <1>4 DEF ListarVencidas, EncerrarVencidas, FalharJob, Rodando, IInv, TypeOK
  <2>2. ASSUME NEW q \in Pedidos PROVE StatusEmDia(q)'
    <3>1. pedido'[q].passo = "ocioso"
      BY <2>1 DEF Sobrepostos, NoAr
    <3> QED
      BY <3>1, ForaStatusEmDia
  <2>3. \A e \in Edicoes : CicloPermitido(e)
    BY <1>1, <1>4 DEF ListarVencidas, EncerrarVencidas, FalharJob, CicloPermitido, Ciclo
  <2> QED
    BY <2>2, <2>3
<1> QED
  BY <1>2, <1>3, <1>4

\* One step, with one thing at a time before it and after it.
LEMMA PassoEmSerie ==
    ASSUME IInv, IInv', SInv, [SerieNext]_<<vars, concorreu>>, ~concorreu'
    PROVE  /\ ~concorreu /\ ~Sobrepostos' /\ Nomeiam' /\ \A q \in Pedidos : EmDia(q)'
           /\ \A q \in Pedidos : StatusEmDia(q)'
           /\ \A r \in Premios : PremiacaoJusta(r)
           /\ \A e \in Edicoes : CicloPermitido(e)
<1>1. CASE UNCHANGED <<vars, concorreu>>
  <2>1. /\ UNCHANGED <<status, premio, ganhador, resultado, premiado, bilhete, pedido, job, concorreu>>
        /\ ~concorreu
    BY <1>1 DEF vars, sorteio
  <2>2. ~Sobrepostos' /\ Nomeiam'
    BY <2>1 DEF SInv, Sobrepostos, NoAr, Rodando, Nomeiam, MesmaEdicao, GanhadorUnico
  <2>3. \A q \in Pedidos : EmDia(q)'
    BY <2>1, EmDiaFica DEF SInv
  <2>4. \A q \in Pedidos : StatusEmDia(q)'
    BY <2>1 DEF SInv, StatusEmDia
  <2> QED
    BY <2>1, <2>2, <2>3, <2>4 DEF PremiacaoJusta, CicloPermitido
<1>2. CASE SerieNext
  <2>1. Next /\ ~concorreu /\ ~Sobrepostos'
    BY <1>2 DEF SerieNext
  <2>2. /\ ~Sobrepostos /\ Nomeiam
        /\ (\A q \in Pedidos : EmDia(q)) /\ \A q \in Pedidos : StatusEmDia(q)
    BY <2>1 DEF SInv
  <2>3. ASSUME NEW p \in Pedidos, Administrar(p)
        PROVE  /\ Nomeiam' /\ \A q \in Pedidos : EmDia(q)'
               /\ \A r \in Premios : PremiacaoJusta(r)
    BY <2>1, <2>2, <2>3, PedidosSInv
  <2>4. ASSUME NEW e \in Edicoes, Passar(e) \/ Criar(e) \/ MudarDatas(e)
        PROVE  Nomeiam' /\ (\A q \in Pedidos : EmDia(q)') /\ UNCHANGED ganhador
    BY <2>2, <2>4, EdicaoSInv DEF Passar, Criar, MudarDatas, sorteio
  <2>5. ASSUME NEW b \in Bilhetes, Vender(b) \/ Emitir(b) \/ Cancelar(b)
        PROVE  Nomeiam' /\ (\A q \in Pedidos : EmDia(q)') /\ UNCHANGED ganhador
    BY <2>2, <2>5, VendasSInv DEF Vender, Emitir, Cancelar, sorteio
  <2>6. ASSUME NEW j \in Jobs, ListarVencidas(j) \/ EncerrarVencidas(j) \/ FalharJob(j)
        PROVE  Nomeiam' /\ (\A q \in Pedidos : EmDia(q)') /\ UNCHANGED ganhador
    BY <2>1, <2>2, <2>6, JobsSInv DEF ListarVencidas, EncerrarVencidas, FalharJob, sorteio
  <2>7. UNCHANGED ganhador => \A r \in Premios : PremiacaoJusta(r)
    BY DEF PremiacaoJusta
  <2>8. /\ \A q \in Pedidos : StatusEmDia(q)'
        /\ \A e \in Edicoes : CicloPermitido(e)
    <3>1. ASSUME NEW p \in Pedidos, Administrar(p)
          PROVE  (\A q \in Pedidos : StatusEmDia(q)') /\ \A e \in Edicoes : CicloPermitido(e)
      <4>1. StatusEmDia(p)' /\ \A e \in Edicoes : CicloPermitido(e)
        BY <2>2, <3>1, PedidosStatus
      <4>2. ASSUME NEW q \in Pedidos \ {p} PROVE StatusEmDia(q)'
        <5>1. pedido'[q] = pedido[q] /\ (NoAr(p) \/ NoAr(p)')
          BY <3>1, SoUmAnda
        <5>2. pedido'[q].passo = "ocioso"
          BY <2>1, <2>2, <5>1 DEF Sobrepostos, NoAr
        <5> QED
          BY <5>2, ForaStatusEmDia
      <4> QED
        BY <4>1, <4>2
    <3> QED
      BY <2>1, <2>2, <3>1, OutrosStatus DEF Next
  <2> QED
    BY <2>1, <2>3, <2>4, <2>5, <2>6, <2>7, <2>8 DEF Next
<1> QED
  BY <1>1, <1>2

LEMMA SerieInvariante == SerieSpec => [](IInv /\ SInv)
<1>1. SerieInit => IInv /\ SInv
  <2> SUFFICES ASSUME SerieInit PROVE IInv /\ SInv
    OBVIOUS
  <2>1. IInv
    BY InitIInv DEF SerieInit
  <2>2. ~Sobrepostos
    BY DEF SerieInit, Init, Sobrepostos, NoAr, Rodando, Ocioso
  <2>3. Nomeiam
    BY SorteioAssumption DEF SerieInit, Init, Nomeiam, MesmaEdicao, GanhadorUnico
  <2>4. \A p \in Pedidos : EmDia(p)
    BY DEF SerieInit, Init, EmDia, ComPremio, Ocioso
  <2>5. \A p \in Pedidos : StatusEmDia(p)
    BY DEF SerieInit, Init, StatusEmDia, Ocioso
  <2> QED
    BY <2>1, <2>2, <2>3, <2>4, <2>5 DEF SInv
<1>2. IInv /\ SInv /\ [SerieNext]_<<vars, concorreu>> => (IInv /\ SInv)'
  <2> SUFFICES ASSUME IInv, SInv, [SerieNext]_<<vars, concorreu>> PROVE (IInv /\ SInv)'
    OBVIOUS
  <2>1. [Next]_vars
    BY DEF SerieNext
  <2>2. IInv'
    BY <2>1, PassoIInv
  <2>3. SInv'
    BY <2>2, PassoEmSerie DEF SInv
  <2> QED
    BY <2>2, <2>3
<1> QED
  BY <1>1, <1>2, PTL DEF SerieSpec

\* With one request, or one run of the job, at a time, a ticket that won and its prize name
\* each other, wherever a request fails and whatever is sold and cancelled meanwhile.
THEOREM GanhadorSempreUnicoEmSerie == SerieSpec => []GanhadorUnicoEmSerie
<1>1. SInv => GanhadorUnicoEmSerie
  BY DEF SInv, Nomeiam, GanhadorUnicoEmSerie
<1> QED
  BY <1>1, SerieInvariante, PTL

\* And a prize gets its winner once, in a draw that runs, by the balls that are marked, and
\* gives it to a ticket that had won nothing; the status of an edition walks on its edges.
THEOREM PremiacaoSempreJustaEmSerie == SerieSpec => PremiacaoJustaEmSerie
<1>1. IInv /\ IInv' /\ SInv /\ [SerieNext]_<<vars, concorreu>> =>
         [~concorreu' => /\ \A r \in Premios : PremiacaoJusta(r)
                         /\ \A e \in Edicoes : CicloPermitido(e)]_<<vars, concorreu>>
  BY PassoEmSerie
<1> QED
  BY <1>1, SerieInvariante, PTL DEF SerieSpec, PremiacaoJustaEmSerie
-----------------------------------------------------------------------------
(* The titles of cards and combos (Titulos). *)
LEMMA MenorDosNaturais ==
    ASSUME NEW T, T \subseteq Nat, T # {}
    PROVE  \E t \in T : \A y \in T : t <= y
<1>1. PICK M : /\ IsWellFoundedOn(M, Nat)
               /\ \A x, y \in Nat : x < y => <<x, y>> \in M
  <2>1. \A x, y \in Nat : x < y => <<x, y>> \in OpToRel(<, Nat)
    BY DEF OpToRel
  <2> QED
    BY <2>1, NatLessThanWellFounded, Zenon
<1>2. PICK t \in T : \A y \in T : ~ (<<y, t>> \in M)
  <2>1. IsWellFoundedOn(M, Nat)
    BY <1>1
  <2> QED
    BY <2>1, WFMin, ZenonT(30)
<1>3. \A y \in T : ~(y < t)
  BY <1>1, <1>2
<1> QED
  BY <1>3

\* A combo as the ADMIN may send it.
Combo == [origem : {"DIGITAL", "FISICO"}, chances : Nat \ {0},
          inicio : Nat, fim : Nat, intervalo : Nat \ {0}]

\* The titles of a card begin at its head and end before the chances run out.
LEMMA LimitesDaCartela ==
    ASSUME NEW h \in Nat, NEW k \in Nat \ {0}, NEW i \in Nat \ {0}
    PROVE  /\ h \in Cartela(h, k, i)
           /\ \A n \in Cartela(h, k, i) : n \in Nat /\ h <= n /\ n <= h + (k - 1) * i
<1>1. h \in Cartela(h, k, i)
  <2>1. 0 \in 0 .. k - 1 /\ h = h + 0 * i
    OBVIOUS
  <2> QED
    BY <2>1 DEF Cartela
<1>2. ASSUME NEW n \in Cartela(h, k, i) PROVE n \in Nat /\ h <= n /\ n <= h + (k - 1) * i
  <2>1. PICK c \in 0 .. k - 1 : n = h + c * i
    BY DEF Cartela
  <2>2. c * i \in Nat /\ c * i <= (k - 1) * i
    <3>1. c \in Nat /\ k - 1 - c \in Nat
      OBVIOUS
    <3>2. (k - 1 - c) * i \in Nat /\ c * i \in Nat
      BY <3>1
    <3>3. (k - 1 - c) * i = (k - 1) * i - c * i
      BY <3>1
    <3> QED
      BY <3>2, <3>3
  <2> QED
    BY <2>1, <2>2
<1> QED
  BY <1>1, <1>2

LEMMA LimitesDoCombo ==
    ASSUME NEW c \in Combo, NEW n \in TitulosDoCombo(c)
    PROVE  n \in Nat /\ Faixa(c).inicio <= n /\ n <= Faixa(c).fim
<1>1. PICK h \in Cabecas(c) : n \in Cartela(h, c.chances, c.intervalo)
  BY DEF TitulosDoCombo
<1>2. /\ h \in Nat /\ c.inicio <= h /\ h <= c.fim
      /\ c.chances \in Nat \ {0} /\ c.intervalo \in Nat \ {0} /\ c.inicio \in Nat /\ c.fim \in Nat
  BY DEF Combo, Cabecas
<1>3. n \in Nat /\ h <= n /\ n <= h + (c.chances - 1) * c.intervalo
  BY <1>1, <1>2, LimitesDaCartela
<1>4. (c.chances - 1) * c.intervalo \in Nat
  BY <1>2
<1> QED
  BY <1>2, <1>3, <1>4 DEF Faixa

\* Compared in the order of their first titles, each with the next, the combos are apart two
\* by two.
LEMMA ValidosNaoColidem ==
    ASSUME NEW combos, combos \subseteq Combo, FaixasSeparadas(combos),
           NEW a \in combos, NEW b \in combos, a # b
    PROVE  TitulosDoCombo(a) \cap TitulosDoCombo(b) = {}
<1>1. ASSUME NEW x \in combos, NEW y \in combos, x # y, x.inicio <= y.inicio
      PROVE  Faixa(y).inicio > Faixa(x).fim
  <2> DEFINE T == {c.inicio : c \in {d \in combos : d # x /\ x.inicio <= d.inicio}}
  <2>1. T \subseteq Nat /\ T # {} /\ y.inicio \in T
    BY <1>1 DEF Combo
  <2>2. PICK t \in T : \A u \in T : t <= u
    BY <2>1, MenorDosNaturais
  <2>3. PICK c \in combos : c # x /\ x.inicio <= c.inicio /\ t = c.inicio
    OBVIOUS
  <2>4. \A d \in combos : d.inicio <= x.inicio \/ d.inicio >= c.inicio
    <3> SUFFICES ASSUME NEW d \in combos, ~(d.inicio <= x.inicio) PROVE d.inicio >= c.inicio
      OBVIOUS
    <3>1. d.inicio \in Nat /\ x.inicio \in Nat /\ c.inicio \in Nat
      BY DEF Combo
    <3>2. d.inicio \in T
      BY <3>1
    <3> QED
      BY <3>1, <3>2, <2>2, <2>3
  <2>5. Seguidos(combos, x, c)
    BY <2>3, <2>4 DEF Seguidos
  <2>6. Faixa(c).inicio > Faixa(x).fim
    BY <2>5 DEF FaixasSeparadas
  <2>7. c.inicio <= y.inicio
    BY <2>1, <2>2, <2>3
  <2>8. Faixa(c).inicio = c.inicio /\ Faixa(y).inicio = y.inicio
    BY DEF Faixa
  <2>9. c.inicio \in Nat /\ y.inicio \in Nat /\ Faixa(x).fim \in Int
    <3>1. c \in Combo /\ y \in Combo /\ x \in Combo
      OBVIOUS
    <3>2. x.fim \in Nat /\ x.chances \in Nat /\ x.intervalo \in Nat
      BY <3>1 DEF Combo
    <3>3. (x.chances - 1) * x.intervalo \in Int
      BY <3>2
    <3> QED
      BY <3>1, <3>2, <3>3 DEF Combo, Faixa
  <2> QED
    BY <2>6, <2>7, <2>8, <2>9
<1>2. ASSUME NEW x \in combos, NEW y \in combos, x # y, x.inicio <= y.inicio
      PROVE  TitulosDoCombo(x) \cap TitulosDoCombo(y) = {}
  <2> SUFFICES ASSUME NEW n \in TitulosDoCombo(x), n \in TitulosDoCombo(y) PROVE FALSE
    OBVIOUS
  <2>1. x \in Combo /\ y \in Combo
    OBVIOUS
  <2>2. n \in Nat /\ n <= Faixa(x).fim
    BY <2>1, LimitesDoCombo
  <2>3. Faixa(y).inicio <= n
    BY <2>1, LimitesDoCombo
  <2>4. Faixa(y).inicio > Faixa(x).fim
    BY <1>1, <1>2
  <2>5. Faixa(y).inicio \in Nat /\ Faixa(x).fim \in Int
    <3>1. x.fim \in Nat /\ x.chances \in Nat /\ x.intervalo \in Nat /\ y.inicio \in Nat
      BY <2>1 DEF Combo
    <3>2. (x.chances - 1) * x.intervalo \in Int
      BY <3>1
    <3> QED
      BY <3>1, <3>2 DEF Faixa
  <2> QED
    BY <2>2, <2>3, <2>4, <2>5
<1>3. a.inicio \in Nat /\ b.inicio \in Nat
  BY DEF Combo
<1>4. CASE a.inicio <= b.inicio
  BY <1>2, <1>4
<1>5. CASE b.inicio <= a.inicio
  BY <1>2, <1>5
<1> QED
  BY <1>3, <1>4, <1>5

\* The heads are found one by one from the smallest title, so there is one way to find them.
LEMMA CabecasUnicas ==
    ASSUME NEW N, N \subseteq Nat, NEW k \in Nat \ {0}, NEW i \in Nat \ {0}, NEW H, H \subseteq N,
           \A n \in N : n \in H <=> ~ \E h \in H : h < n /\ n \in Cartela(h, k, i)
    PROVE  CabecasDaVenda(N, k, i) = H
<1> DEFINE Acham(C) == \A n \in N : n \in C <=> ~ \E h \in C : h < n /\ n \in Cartela(h, k, i)
           C0 == CabecasDaVenda(N, k, i)
<1>1. C0 \in SUBSET N /\ Acham(C0)
  <2>1. H \in SUBSET N /\ Acham(H)
    OBVIOUS
  <2>2. C0 = CHOOSE C \in SUBSET N : Acham(C)
    BY DEF CabecasDaVenda
  <2> HIDE DEF Acham, C0
  <2> QED
    BY <2>1, <2>2, Zenon
<1>2. SUFFICES ASSUME C0 # H PROVE FALSE
  OBVIOUS
<1> DEFINE T == {n \in N : ~(n \in C0 <=> n \in H)}
<1>3. T \subseteq Nat /\ T # {}
  BY <1>1, <1>2
<1>4. PICK m \in T : \A y \in T : m <= y
  BY <1>3, MenorDosNaturais
<1>5. \A h \in N : h < m => (h \in C0 <=> h \in H)
  BY <1>4
<1>6. (\E h \in C0 : h < m /\ m \in Cartela(h, k, i)) <=> (\E h \in H : h < m /\ m \in Cartela(h, k, i))
  BY <1>1, <1>5
<1>7. m \in N /\ ~(m \in C0 <=> m \in H)
  OBVIOUS
<1>8. m \in C0 <=> ~ \E h \in C0 : h < m /\ m \in Cartela(h, k, i)
  BY <1>1, <1>7
<1>9. m \in H <=> ~ \E h \in H : h < m /\ m \in Cartela(h, k, i)
  BY <1>7
<1> QED
  BY <1>6, <1>7, <1>8, <1>9

\* Cards that share no title are found again from the titles of them all.
LEMMA AchaAsCartelas ==
    ASSUME NEW k \in Nat \ {0}, NEW i \in Nat \ {0}, NEW H, H \subseteq Nat,
           \A g, h \in H : g = h \/ Cartela(g, k, i) \cap Cartela(h, k, i) = {}
    PROVE  ReconstruirCartelas(UNION {Cartela(h, k, i) : h \in H}, k, i) = {Cartela(h, k, i) : h \in H}
<1> DEFINE N == UNION {Cartela(h, k, i) : h \in H}
<1>1. \A h \in H : /\ h \in Cartela(h, k, i) /\ Cartela(h, k, i) \subseteq N
                   /\ \A n \in Cartela(h, k, i) : n \in Nat /\ h <= n
  BY LimitesDaCartela
<1>2. N \subseteq Nat /\ H \subseteq N
  BY <1>1
<1>3. \A n \in N : n \in H <=> ~ \E h \in H : h < n /\ n \in Cartela(h, k, i)
  <2>1. ASSUME NEW n \in H, NEW h \in H, h < n, n \in Cartela(h, k, i) PROVE FALSE
    <3>1. h # n
      BY <2>1
    <3>2. n \in Cartela(n, k, i)
      BY <1>1
    <3> QED
      BY <2>1, <3>1, <3>2
  <2>2. ASSUME NEW n \in N, n \notin H PROVE \E h \in H : h < n /\ n \in Cartela(h, k, i)
    <3>1. PICK h \in H : n \in Cartela(h, k, i)
      OBVIOUS
    <3>2. n \in Nat /\ h \in Nat /\ h <= n /\ h # n
      BY <3>1, <1>1, <2>2
    <3> QED
      BY <3>1, <3>2
  <2> QED
    BY <2>1, <2>2
<1>4. CabecasDaVenda(N, k, i) = H
  <2>1. N \subseteq Nat /\ H \subseteq N
    BY <1>2
  <2>2. \A n \in N : n \in H <=> ~ \E h \in H : h < n /\ n \in Cartela(h, k, i)
    BY <1>3
  <2> HIDE DEF N
  <2>3. \A M : (/\ M \subseteq Nat /\ H \subseteq M
                /\ \A n \in M : n \in H <=> ~ \E h \in H : h < n /\ n \in Cartela(h, k, i))
              => CabecasDaVenda(M, k, i) = H
    BY CabecasUnicas
  <2> QED
    BY <2>1, <2>2, <2>3, Zenon
<1> DEFINE tomados(h) == UNION {Cartela(g, k, i) : g \in {x \in H : x < h}}
<1>5. \A h \in H : Cartela(h, k, i) \cap (N \ tomados(h)) = Cartela(h, k, i)
  <2> SUFFICES ASSUME NEW h \in H, NEW n \in Cartela(h, k, i), n \in tomados(h) PROVE FALSE
    BY <1>1
  <2>1. PICK g \in H : g < h /\ n \in Cartela(g, k, i)
    OBVIOUS
  <2>2. g # h
    BY <2>1
  <2> QED
    BY <2>1, <2>2
<1>6. ReconstruirCartelas(N, k, i) = {Cartela(h, k, i) \cap (N \ tomados(h)) : h \in H}
  <2> HIDE DEF N
  <2> QED
    BY <1>4 DEF ReconstruirCartelas
<1>7. {Cartela(h, k, i) \cap (N \ tomados(h)) : h \in H} = {Cartela(h, k, i) : h \in H}
  <2> HIDE DEF N, tomados
  <2> QED
    BY <1>5
<1> QED
  BY <1>6, <1>7

(* The import of the matrix (Matriz). *)
LinhasBoas == {l \in Linhas : l.n \in Titulo}

LEMMA MinimoDe ==
    ASSUME NEW S, S \subseteq Nat, S # {}
    PROVE  Min(S) \in S
<1>1. \E t \in S : \A y \in S : t <= y
  BY MenorDosNaturais
<1> QED
  BY <1>1 DEF Min

LEMMA MaximoDe ==
    ASSUME NEW S, S \subseteq Nat, S # {}, IsFiniteSet(S)
    PROVE  Max(S) \in S
<1> DEFINE Acima(x) == {y \in S : y > x}
           T == {Cardinality(Acima(x)) : x \in S}
<1>1. \A x \in S : IsFiniteSet(Acima(x)) /\ Cardinality(Acima(x)) \in Nat
  <2> SUFFICES ASSUME NEW x \in S PROVE IsFiniteSet(Acima(x)) /\ Cardinality(Acima(x)) \in Nat
    OBVIOUS
  <2>1. Acima(x) \in SUBSET S
    OBVIOUS
  <2> HIDE DEF Acima
  <2>2. IsFiniteSet(Acima(x))
    BY <2>1, FS_Subset
  <2> QED
    BY <2>2, FS_CardinalityType
<1>2. T \subseteq Nat /\ T # {}
  BY <1>1
<1>3. PICK t \in T : \A u \in T : t <= u
  <2> HIDE DEF T
  <2> QED
    BY <1>2, MenorDosNaturais
<1>4. PICK x \in S : t = Cardinality(Acima(x))
  BY <1>3
<1>5. ASSUME NEW y \in S, y > x PROVE FALSE
  <2>1. Acima(y) \in SUBSET Acima(x) /\ y \in Acima(x) /\ y \notin Acima(y)
    <3>1. x \in Nat /\ y \in Nat
      OBVIOUS
    <3>2. \A z \in S : z \in Nat
      OBVIOUS
    <3>3. y > x /\ ~(y > y)
      BY <1>5, <3>1
    <3>4. y \in Acima(x)
      BY <3>3
    <3>5. y \notin Acima(y)
      BY <3>3
    <3>6. ASSUME NEW z \in Acima(y) PROVE z \in Acima(x)
      <4>1. z \in S /\ z > y
        OBVIOUS
      <4>2. z > x
        BY <3>1, <3>2, <3>3, <4>1
      <4> QED
        BY <4>1, <4>2
    <3>7. Acima(y) \in SUBSET Acima(x)
      BY <3>6
    <3> QED
      BY <3>4, <3>5, <3>7
  <2>2. Cardinality(Acima(x)) <= Cardinality(Acima(y))
    BY <1>3, <1>4
  <2>3. IsFiniteSet(Acima(x)) /\ Cardinality(Acima(x)) \in Nat /\ Cardinality(Acima(y)) \in Nat
    BY <1>1
  <2> HIDE DEF Acima
  <2>4. /\ Cardinality(Acima(y)) <= Cardinality(Acima(x))
        /\ Cardinality(Acima(x)) = Cardinality(Acima(y)) => Acima(x) = Acima(y)
    BY <2>1, <2>3, FS_Subset
  <2> QED
    BY <2>1, <2>2, <2>3, <2>4
<1>6. \A y \in S : x >= y
  BY <1>5
<1> QED
  BY <1>6 DEF Max

LEMMA NumerosFinitos ==
    ASSUME NEW ls \in Seq(LinhasBoas), ls # << >>
    PROVE  /\ IsFiniteSet(Numeros(ls)) /\ Cardinality(Numeros(ls)) <= Len(ls)
           /\ Numeros(ls) \subseteq Titulo /\ Numeros(ls) # {}
           /\ Cardinality(Numeros(ls)) = Len(ls) =>
                 \A i, k \in DOMAIN ls : ls[i].n = ls[k].n => i = k
<1> DEFINE D == 1 .. Len(ls)
           f == [i \in D |-> ls[i].n]
<1>1. DOMAIN ls = D /\ Len(ls) \in Nat /\ Len(ls) # 0
  OBVIOUS
<1>2. IsFiniteSet(D) /\ Cardinality(D) = Len(ls)
  <2>1. 1 \in Int /\ Len(ls) \in Int
    OBVIOUS
  <2> QED
    BY <1>1, <2>1, FS_Interval
<1>3. f \in Surjection(D, Numeros(ls))
  BY <1>1 DEF Surjection, Numeros
<1>4. /\ IsFiniteSet(Numeros(ls)) /\ Cardinality(Numeros(ls)) <= Cardinality(D)
      /\ Cardinality(Numeros(ls)) = Cardinality(D) <=> f \in Injection(D, Numeros(ls))
  <2> HIDE DEF D, f
  <2> QED
    BY <1>2, <1>3, FS_Surjection
<1>5. f \in Injection(D, Numeros(ls)) => \A i, k \in D : ls[i].n = ls[k].n => i = k
  BY DEF Injection, IsInjective
<1>6. Numeros(ls) \subseteq Titulo
  BY <1>1 DEF Numeros, LinhasBoas
<1>7. Numeros(ls) # {}
  <2>1. 1 \in DOMAIN ls
    BY <1>1
  <2> QED
    BY <2>1 DEF Numeros
<1> QED
  BY <1>1, <1>2, <1>4, <1>5, <1>6, <1>7

\* The batch that comes is what follows what was read.
LEMMA LoteSegue ==
    ASSUME NEW ls \in Seq(LinhasBoas), NEW k \in 0 .. Len(ls)
    PROVE  LET lote == SubSeq(ls, k + 1, Min({k + Lote, Len(ls)}))
           IN  /\ lote \in Seq(LinhasBoas) /\ Len(lote) \in Nat
               /\ k + Len(lote) <= Len(ls)
               /\ \A i \in 1 .. Len(lote) : lote[i] = ls[k + i]
               /\ lote = << >> => k = Len(ls)
<1> DEFINE m == Min({k + Lote, Len(ls)})
           lote == SubSeq(ls, k + 1, m)
<1>1. m \in {k + Lote, Len(ls)} /\ k <= m /\ m <= Len(ls) /\ m \in Nat
      /\ (m = k => k = Len(ls))
  <2>1. k + Lote \in Nat /\ k + Lote > k /\ Len(ls) \in Nat /\ k \in Nat
    BY MatrizAssumption
  <2>2. \E x \in {k + Lote, Len(ls)} : \A y \in {k + Lote, Len(ls)} : x =< y
    BY <2>1
  <2>3. m \in {k + Lote, Len(ls)} /\ \A y \in {k + Lote, Len(ls)} : m =< y
    BY <2>2 DEF Min
  <2> HIDE DEF m
  <2> QED
    BY <2>1, <2>3
<1> HIDE DEF m
<1>2. lote \in Seq(LinhasBoas) /\ Len(lote) = m - k /\ \A i \in 1 .. m - k : lote[i] = ls[k + i]
  BY <1>1
<1>3. Len(<< >>) = 0
  OBVIOUS
<1> HIDE DEF lote
<1>4. /\ lote \in Seq(LinhasBoas) /\ Len(lote) \in Nat
      /\ k + Len(lote) <= Len(ls)
      /\ \A i \in 1 .. Len(lote) : lote[i] = ls[k + i]
      /\ lote = << >> => k = Len(ls)
  BY <1>1, <1>2, <1>3
<1> QED
  BY <1>4 DEF lote, m

\* What the job of a process knows, given the matrix: how far it went in its file; that all it
\* read is in the matrix while no batch was lost; and, while no other process imported, with
\* the balls of the last line so far.
Estados == {"sem_importacao_ativa", "em_andamento", "concluido", "erro"}
Trabalho == [estado : Estados, arquivo : Arquivos \cup {Nada}, lidas : Nat, importados : Nat,
             inicio : Titulo \cup {0}, final : Titulo \cup {0}, perdeu : BOOLEAN, sozinha : BOOLEAN]
Lidas(j) == Validas(j.arquivo.linhas)
JobServe(j) ==
    /\ j.estado = "sem_importacao_ativa" => j = SemJob
    /\ j.estado # "sem_importacao_ativa" =>
          j.arquivo \in Arquivos /\ j.importados <= j.lidas /\ j.lidas <= Len(Lidas(j))
    /\ j.estado = "concluido" => j.lidas = Len(Lidas(j))
    /\ ~j.perdeu => j.importados = j.lidas
JobHonesto(j, tab) ==
    j.estado # "sem_importacao_ativa" /\ j.importados > 0 /\ ~j.perdeu =>
        /\ \A i \in 1 .. j.lidas : tab[Lidas(j)[i].n] # Nada
        /\ j.inicio = Min(Numeros(SubSeq(Lidas(j), 1, j.lidas)))
        /\ j.final = Max(Numeros(SubSeq(Lidas(j), 1, j.lidas)))
UltimasValem(j, tab) ==
    j.estado # "sem_importacao_ativa" /\ j.sozinha /\ ~j.perdeu =>
        \A i \in 1 .. j.lidas :
            (\A k \in 1 .. j.lidas : Lidas(j)[k].n = Lidas(j)[i].n => k <= i)
                => tab[Lidas(j)[i].n] = Lidas(j)[i].s
SozinhaMesmo ==
    \A w, x \in Processos :
        importacao[w].sozinha /\ x # w => importacao[x].estado # "em_andamento"

Tabela == [Titulo -> {l.s : l \in Linhas} \cup {Nada}]
ImportacaoInv ==
    /\ matriz \in Tabela
    /\ importacao \in [Processos -> Trabalho]
    /\ \A w \in Processos : JobServe(importacao[w])
    /\ \A w \in Processos : JobHonesto(importacao[w], matriz)
    /\ \A w \in Processos : UltimasValem(importacao[w], matriz)
    /\ SozinhaMesmo

LEMMA LinhasDoArquivo ==
    ASSUME NEW a \in Arquivos
    PROVE  Validas(a.linhas) \in Seq(LinhasBoas)
BY MatrizAssumption DEF LinhasBoas

\* What one row in the matrix means for what one line says.
LEMMA LinhaBoa ==
    ASSUME NEW l \in LinhasBoas
    PROVE  l.n \in Titulo /\ l.s \in {x.s : x \in Linhas} /\ l.s # Nada
BY MatrizAssumption DEF LinhasBoas

\* The batch of a running job.
LEMMA LoteDoJob ==
    ASSUME ImportacaoInv, NEW w \in Processos, EmAndamento(w)
    PROVE  /\ LinhasDe(w) \in Seq(LinhasBoas) /\ LinhasDe(w) = Lidas(importacao[w])
           /\ importacao[w].lidas \in 0 .. Len(LinhasDe(w))
           /\ LoteDe(w) \in Seq(LinhasBoas) /\ Len(LoteDe(w)) \in Nat
           /\ importacao[w].lidas + Len(LoteDe(w)) <= Len(LinhasDe(w))
           /\ \A i \in 1 .. Len(LoteDe(w)) : LoteDe(w)[i] = LinhasDe(w)[importacao[w].lidas + i]
           /\ LoteDe(w) = << >> => importacao[w].lidas = Len(LinhasDe(w))
<1>1. importacao[w].estado = "em_andamento" /\ importacao[w] \in Trabalho /\ JobServe(importacao[w])
  BY DEF EmAndamento, ImportacaoInv
<1>2. importacao[w].arquivo \in Arquivos /\ importacao[w].lidas \in Nat
      /\ importacao[w].lidas <= Len(Lidas(importacao[w]))
  BY <1>1 DEF JobServe, Trabalho
<1>3. LinhasDe(w) \in Seq(LinhasBoas) /\ LinhasDe(w) = Lidas(importacao[w])
  BY <1>2, LinhasDoArquivo DEF LinhasDe, Lidas
<1>4. importacao[w].lidas \in 0 .. Len(LinhasDe(w))
  BY <1>2, <1>3
<1> QED
  BY <1>3, <1>4, LoteSegue DEF LoteDe

\* A batch writes its lines, and leaves the other titles alone.
LEMMA InserirGrava ==
    ASSUME matriz \in Tabela, NEW lote \in Seq(LinhasBoas), lote # << >>, ~Repetido(lote)
    PROVE  /\ Inserir(lote) \in Tabela
           /\ \A i \in 1 .. Len(lote) : Inserir(lote)[lote[i].n] = lote[i].s
           /\ \A n \in Titulo : (\A i \in 1 .. Len(lote) : lote[i].n # n) => Inserir(lote)[n] = matriz[n]
           /\ \A n \in Titulo : matriz[n] # Nada => Inserir(lote)[n] # Nada
<1>1. DOMAIN lote = 1 .. Len(lote) /\ \A i \in 1 .. Len(lote) : lote[i] \in LinhasBoas
  OBVIOUS
<1>2. \A i, k \in DOMAIN lote : lote[i].n = lote[k].n => i = k
  <2>1. Cardinality(Numeros(lote)) \in Nat /\ Len(lote) \in Nat
    BY NumerosFinitos, FS_CardinalityType
  <2>2. Cardinality(Numeros(lote)) = Len(lote)
    BY <2>1, NumerosFinitos DEF Repetido
  <2> QED
    BY <2>2, NumerosFinitos
<1>3. \A i \in 1 .. Len(lote) : (CHOOSE k \in DOMAIN lote : lote[k].n = lote[i].n) = i
  <2> SUFFICES ASSUME NEW i \in 1 .. Len(lote)
               PROVE  (CHOOSE k \in DOMAIN lote : lote[k].n = lote[i].n) = i
    OBVIOUS
  <2> DEFINE c == CHOOSE k \in DOMAIN lote : lote[k].n = lote[i].n
  <2>1. c \in DOMAIN lote /\ lote[c].n = lote[i].n
    BY <1>1
  <2> QED
    BY <1>1, <1>2, <2>1
<1>4. \A i \in 1 .. Len(lote) : Inserir(lote)[lote[i].n] = lote[i].s
  <2> SUFFICES ASSUME NEW i \in 1 .. Len(lote) PROVE Inserir(lote)[lote[i].n] = lote[i].s
    OBVIOUS
  <2>1. lote[i].n \in Titulo /\ lote[i].n \in Numeros(lote)
    BY <1>1, LinhaBoa DEF Numeros
  <2>2. Inserir(lote)[lote[i].n] = lote[CHOOSE k \in DOMAIN lote : lote[k].n = lote[i].n].s
    BY <2>1 DEF Inserir
  <2> QED
    BY <1>3, <2>2
<1>5. \A n \in Titulo : (\A i \in 1 .. Len(lote) : lote[i].n # n) => Inserir(lote)[n] = matriz[n]
  BY <1>1 DEF Inserir, Numeros
<1>6. \A n \in Titulo : n \in Numeros(lote) => \E i \in 1 .. Len(lote) : n = lote[i].n
  BY <1>1 DEF Numeros
<1>7. \A n \in Titulo : /\ Inserir(lote)[n] \in {l.s : l \in Linhas} \cup {Nada}
                        /\ matriz[n] # Nada => Inserir(lote)[n] # Nada
  <2> SUFFICES ASSUME NEW n \in Titulo
               PROVE  /\ Inserir(lote)[n] \in {l.s : l \in Linhas} \cup {Nada}
                      /\ matriz[n] # Nada => Inserir(lote)[n] # Nada
    OBVIOUS
  <2>1. CASE \A i \in 1 .. Len(lote) : lote[i].n # n
    BY <1>5, <2>1 DEF Tabela
  <2>2. ASSUME NEW i \in 1 .. Len(lote), lote[i].n = n
        PROVE  Inserir(lote)[n] \in {l.s : l \in Linhas} /\ Inserir(lote)[n] # Nada
    BY <2>2, <1>1, <1>4, LinhaBoa
  <2> QED
    BY <2>1, <2>2
<1>8. Inserir(lote) \in Tabela
  <2>1. Inserir(lote) = [n \in Titulo |-> Inserir(lote)[n]]
    BY DEF Inserir
  <2> QED
    BY <1>7, <2>1 DEF Tabela
<1> QED
  BY <1>4, <1>5, <1>7, <1>8

\* Titles that are in the matrix stay there.
Cresce(antes, depois) == \A n \in Titulo : antes[n] # Nada => depois[n] # Nada

LEMMA HonestoFica ==
    ASSUME NEW j \in Trabalho, JobServe(j), NEW t1, NEW t2, JobHonesto(j, t1), Cresce(t1, t2)
    PROVE  JobHonesto(j, t2)
<1> SUFFICES ASSUME j.estado # "sem_importacao_ativa", j.importados > 0, ~j.perdeu,
                    NEW i \in 1 .. j.lidas
             PROVE  t2[Lidas(j)[i].n] # Nada
  BY DEF JobHonesto
<1>1. t1[Lidas(j)[i].n] # Nada
  BY DEF JobHonesto
<1>2. Lidas(j) \in Seq(LinhasBoas) /\ j.lidas \in Nat /\ j.lidas <= Len(Lidas(j))
  BY LinhasDoArquivo DEF JobServe, Lidas, Trabalho
<1>3. Lidas(j)[i] \in LinhasBoas
  BY <1>2
<1> QED
  BY <1>1, <1>3, LinhaBoa DEF Cresce

\* One process moves on and the others stay.
LEMMA UmJobAnda ==
    ASSUME ImportacaoInv, NEW w \in Processos, NEW j \in Trabalho,
           importacao' = [importacao EXCEPT ![w] = j],
           JobServe(j), JobHonesto(j, matriz'), UltimasValem(j, matriz'),
           j.sozinha => importacao[w].sozinha,
           j.estado = "em_andamento" => importacao[w].estado = "em_andamento",
           matriz' \in Tabela, Cresce(matriz, matriz'),
           \A x \in Processos : x # w => UltimasValem(importacao[x], matriz')
    PROVE  ImportacaoInv'
<1>1. importacao \in [Processos -> Trabalho]
  BY DEF ImportacaoInv
<1>2. /\ importacao' \in [Processos -> Trabalho]
      /\ importacao'[w] = j
      /\ \A x \in Processos : x # w => importacao'[x] = importacao[x]
  BY <1>1
<1>3. \A x \in Processos : JobServe(importacao'[x])
  BY <1>2 DEF ImportacaoInv
<1>4. \A x \in Processos : JobHonesto(importacao'[x], matriz')
  <2> SUFFICES ASSUME NEW x \in Processos, x # w PROVE JobHonesto(importacao[x], matriz')
    BY <1>2
  <2>1. importacao[x] \in Trabalho /\ JobServe(importacao[x]) /\ JobHonesto(importacao[x], matriz)
    BY <1>1 DEF ImportacaoInv
  <2> QED
    BY <2>1, HonestoFica
<1>5. \A x \in Processos : UltimasValem(importacao'[x], matriz')
  BY <1>2
<1>6. SozinhaMesmo'
  BY <1>2 DEF ImportacaoInv, SozinhaMesmo
<1> QED
  BY <1>2, <1>3, <1>4, <1>5, <1>6 DEF ImportacaoInv

LEMMA FicaComo ==
    ASSUME matriz' = matriz, ImportacaoInv
    PROVE  /\ matriz' \in Tabela /\ Cresce(matriz, matriz')
           /\ \A x \in Processos : UltimasValem(importacao[x], matriz')
BY DEF ImportacaoInv, Cresce

LEMMA SemJobServe ==
    ASSUME NEW tab
    PROVE  SemJob \in Trabalho /\ JobServe(SemJob) /\ JobHonesto(SemJob, tab) /\ UltimasValem(SemJob, tab)
<1>1. SemJob \in Trabalho
  BY DEF SemJob, Trabalho, Estados
<1>2. SemJob.estado = "sem_importacao_ativa" /\ SemJob.perdeu = FALSE
      /\ SemJob.importados = 0 /\ SemJob.lidas = 0
  BY DEF SemJob
<1> QED
  BY <1>1, <1>2 DEF JobServe, JobHonesto, UltimasValem

LEMMA PassoEnviar ==
    ASSUME ImportacaoInv, NEW w \in Processos, NEW a \in Arquivos, Enviar(w, a)
    PROVE  ImportacaoInv'
<1> DEFINE s == \A y \in Processos : ~EmAndamento(y)
           j == [SemJob EXCEPT !.estado = "em_andamento", !.arquivo = a, !.sozinha = s]
<1>1. importacao \in [Processos -> Trabalho]
  BY DEF ImportacaoInv
<1>2. /\ j \in Trabalho /\ j.estado = "em_andamento" /\ j.arquivo = a /\ j.lidas = 0 /\ j.importados = 0
      /\ j.perdeu = FALSE /\ j.sozinha = s
  BY DEF SemJob, Trabalho, Estados
<1>3. JobServe(j)
  <2>1. Lidas(j) \in Seq(LinhasBoas)
    BY <1>2, LinhasDoArquivo DEF Lidas
  <2>2. Len(Lidas(j)) \in Nat
    BY <2>1
  <2> HIDE DEF j
  <2> QED
    BY <1>2, <2>2 DEF JobServe
<1>4. JobHonesto(j, matriz') /\ UltimasValem(j, matriz')
  <2> HIDE DEF j
  <2> QED
    BY <1>2 DEF JobHonesto, UltimasValem
<1> HIDE DEF j
<1>5. /\ importacao' = [x \in Processos |-> IF x = w THEN j ELSE [importacao[x] EXCEPT !.sozinha = FALSE]]
      /\ matriz' = matriz
  BY DEF Enviar, j
<1>6. ASSUME NEW x \in Processos, x # w
      PROVE  /\ importacao'[x] \in Trabalho /\ importacao'[x].sozinha = FALSE
             /\ importacao'[x].estado = importacao[x].estado
             /\ JobServe(importacao'[x]) /\ JobHonesto(importacao'[x], matriz)
             /\ UltimasValem(importacao'[x], matriz)
  <2> DEFINE i == importacao[x]
             k == [i EXCEPT !.sozinha = FALSE]
  <2>1. i \in Trabalho /\ JobServe(i) /\ JobHonesto(i, matriz)
    BY <1>1 DEF ImportacaoInv
  <2> HIDE DEF i
  <2>2. /\ k \in Trabalho /\ k.sozinha = FALSE
        /\ k.estado = i.estado /\ k.arquivo = i.arquivo /\ k.lidas = i.lidas
        /\ k.importados = i.importados /\ k.perdeu = i.perdeu
        /\ k.inicio = i.inicio /\ k.final = i.final
    BY <2>1 DEF Trabalho
  <2>3. i = SemJob => k = SemJob
    <3>1. SemJob.sozinha = FALSE
      BY DEF SemJob
    <3>2. i.sozinha = FALSE => k = i
      BY <2>1 DEF Trabalho
    <3> QED
      BY <3>1, <3>2
  <2>4. importacao'[x] = k
    BY <1>5, <1>6 DEF i
  <2> HIDE DEF k
  <2>5. JobServe(k)
    BY <2>1, <2>2, <2>3 DEF JobServe, Lidas
  <2>6. JobHonesto(k, matriz)
    BY <2>1, <2>2 DEF JobHonesto, Lidas
  <2>7. UltimasValem(k, matriz)
    BY <2>2 DEF UltimasValem
  <2> QED
    BY <2>2, <2>4, <2>5, <2>6, <2>7 DEF i
<1>7. importacao'[w] = j
  BY <1>5
<1>8. importacao' \in [Processos -> Trabalho]
  <2>1. \A x \in Processos : importacao'[x] \in Trabalho
    BY <1>2, <1>6, <1>7
  <2>2. DOMAIN importacao' = Processos /\ importacao' = [x \in Processos |-> importacao'[x]]
    BY <1>5
  <2> QED
    BY <2>1, <2>2
<1>9. SozinhaMesmo'
  <2> SUFFICES ASSUME NEW y \in Processos, NEW x \in Processos, importacao'[y].sozinha, x # y
               PROVE  importacao'[x].estado # "em_andamento"
    BY DEF SozinhaMesmo
  <2>1. y = w
    BY <1>6
  <2>2. s
    BY <2>1, <1>2, <1>7
  <2> QED
    BY <2>1, <2>2, <1>6 DEF EmAndamento
<1> QED
  BY <1>3, <1>4, <1>5, <1>6, <1>7, <1>8, <1>9 DEF ImportacaoInv

LEMMA PassoFalharImportacao ==
    ASSUME ImportacaoInv, NEW w \in Processos, FalharImportacao(w)
    PROVE  ImportacaoInv'
<1> DEFINE i == importacao[w]
           j == [i EXCEPT !.estado = "erro"]
<1>1. i \in Trabalho /\ JobServe(i) /\ JobHonesto(i, matriz) /\ UltimasValem(i, matriz)
      /\ i.estado = "em_andamento"
  BY DEF ImportacaoInv, FalharImportacao, EmAndamento
<1>2. importacao' = [importacao EXCEPT ![w] = j] /\ matriz' = matriz
  BY DEF FalharImportacao
<1> HIDE DEF i
<1>3. /\ j \in Trabalho /\ j.sozinha = i.sozinha /\ j.estado = "erro" /\ j.arquivo = i.arquivo
      /\ j.lidas = i.lidas /\ j.importados = i.importados /\ j.perdeu = i.perdeu
      /\ j.inicio = i.inicio /\ j.final = i.final
  BY <1>1 DEF Trabalho, Estados
<1> HIDE DEF j
<1>4. JobServe(j)
  BY <1>1, <1>3 DEF JobServe, Lidas
<1>5. JobHonesto(j, matriz)
  BY <1>1, <1>3 DEF JobHonesto, Lidas
<1>6. UltimasValem(j, matriz)
  BY <1>1, <1>3 DEF UltimasValem, Lidas
<1> QED
  BY <1>2, <1>3, <1>4, <1>5, <1>6, FicaComo, UmJobAnda DEF i

LEMMA PassoConcluirImportacao ==
    ASSUME ImportacaoInv, NEW w \in Processos, ConcluirImportacao(w)
    PROVE  ImportacaoInv'
<1> DEFINE i == importacao[w]
           f == IF i.importados = 0 THEN "erro" ELSE "concluido"
           j == [i EXCEPT !.estado = f]
<1>1. i \in Trabalho /\ JobServe(i) /\ JobHonesto(i, matriz) /\ UltimasValem(i, matriz)
      /\ i.estado = "em_andamento"
  BY DEF ImportacaoInv, ConcluirImportacao, EmAndamento
<1>2. importacao' = [importacao EXCEPT ![w] = j] /\ matriz' = matriz
  BY DEF ConcluirImportacao
<1>3. i.lidas = Len(Lidas(i))
  BY LoteDoJob DEF ConcluirImportacao
<1>4. f \in {"erro", "concluido"}
  OBVIOUS
<1> HIDE DEF i, f
<1>5. /\ j \in Trabalho /\ j.sozinha = i.sozinha /\ j.estado = f /\ j.arquivo = i.arquivo
      /\ j.lidas = i.lidas /\ j.importados = i.importados /\ j.perdeu = i.perdeu
      /\ j.inicio = i.inicio /\ j.final = i.final
  BY <1>1, <1>4 DEF Trabalho, Estados
<1> HIDE DEF j
<1>6. JobServe(j)
  BY <1>1, <1>3, <1>4, <1>5 DEF JobServe, Lidas
<1>7. JobHonesto(j, matriz)
  BY <1>1, <1>4, <1>5 DEF JobHonesto, Lidas
<1>8. UltimasValem(j, matriz)
  BY <1>1, <1>4, <1>5 DEF UltimasValem, Lidas
<1>9. j.estado # "em_andamento"
  BY <1>4, <1>5
<1> QED
  BY <1>2, <1>5, <1>6, <1>7, <1>8, <1>9, FicaComo, UmJobAnda DEF i

LEMMA PassoReiniciarProcesso ==
    ASSUME ImportacaoInv, NEW w \in Processos, ReiniciarProcesso(w)
    PROVE  ImportacaoInv'
<1>1. importacao' = [importacao EXCEPT ![w] = SemJob] /\ matriz' = matriz
  BY DEF ReiniciarProcesso
<1>2. /\ SemJob \in Trabalho /\ JobServe(SemJob) /\ JobHonesto(SemJob, matriz')
      /\ UltimasValem(SemJob, matriz')
  BY SemJobServe
<1>3. ~SemJob.sozinha /\ SemJob.estado # "em_andamento"
  BY DEF SemJob
<1> QED
  BY <1>1, <1>2, <1>3, FicaComo, UmJobAnda

LEMMA PassoPerderLote ==
    ASSUME ImportacaoInv, NEW w \in Processos, PerderLote(w)
    PROVE  ImportacaoInv'
<1> DEFINE i == importacao[w]
           n == i.lidas + Lote
           j == [i EXCEPT !.lidas = n, !.perdeu = TRUE]
<1>1. i \in Trabalho /\ JobServe(i) /\ i.estado = "em_andamento"
  BY DEF ImportacaoInv, PerderLote, EmAndamento
<1>2. importacao' = [importacao EXCEPT ![w] = j] /\ matriz' = matriz
  <2>1. importacao \in [Processos -> Trabalho]
    BY DEF ImportacaoInv
  <2> QED
    BY <2>1 DEF PerderLote, Trabalho
<1>3. n \in Nat /\ i.lidas <= n /\ n <= Len(Lidas(i)) /\ i.lidas \in Nat
  <2>1. Len(LoteDe(w)) = Lote /\ EmAndamento(w)
    BY DEF PerderLote
  <2>2. i.lidas + Lote <= Len(Lidas(i))
    BY <2>1, LoteDoJob
  <2> QED
    BY <1>1, <2>2, MatrizAssumption DEF Trabalho
<1> HIDE DEF i, n
<1>4. /\ j \in Trabalho /\ j.sozinha = i.sozinha /\ j.estado = i.estado /\ j.arquivo = i.arquivo
      /\ j.lidas = n /\ j.importados = i.importados /\ j.perdeu = TRUE
  BY <1>1, <1>3 DEF Trabalho
<1> HIDE DEF j
<1>5. JobServe(j)
  <2>1. i.importados \in Nat
    BY <1>1 DEF Trabalho
  <2> QED
    BY <1>1, <1>3, <1>4, <2>1 DEF JobServe, Lidas
<1>6. JobHonesto(j, matriz) /\ UltimasValem(j, matriz)
  BY <1>4 DEF JobHonesto, UltimasValem
<1> QED
  BY <1>1, <1>2, <1>4, <1>5, <1>6, FicaComo, UmJobAnda DEF i

\* What the panel shows after a batch: the least and the greatest number of the lines read.
LEMMA FaixaAposLote ==
    ASSUME ImportacaoInv, NEW w \in Processos, EmAndamento(w), LoteDe(w) # << >>
    PROVE  LET ns == Numeros(SubSeq(LinhasDe(w), 1, importacao[w].lidas + Len(LoteDe(w))))
           IN  /\ FaixaLida(w)[1] = Min(ns) /\ FaixaLida(w)[2] = Max(ns)
               /\ Min(ns) \in Titulo /\ Max(ns) \in Titulo
<1> DEFINE m == importacao[w].lidas + Len(LoteDe(w))
           s == SubSeq(LinhasDe(w), 1, m)
<1>1. /\ LinhasDe(w) \in Seq(LinhasBoas) /\ importacao[w].lidas \in 0 .. Len(LinhasDe(w))
      /\ LoteDe(w) \in Seq(LinhasBoas) /\ Len(LoteDe(w)) \in Nat /\ m <= Len(LinhasDe(w))
  BY LoteDoJob
<1>2. Len(LoteDe(w)) # 0
  BY <1>1
<1>3. m \in Nat /\ 1 <= m
  BY <1>1, <1>2
<1> HIDE DEF m
<1>4. s \in Seq(LinhasBoas) /\ Len(s) = m
  BY <1>1, <1>3
<1> HIDE DEF s
<1>5. s # << >>
  <2>1. Len(<< >>) = 0
    OBVIOUS
  <2> QED
    BY <1>3, <1>4, <2>1
<1>6. IsFiniteSet(Numeros(s)) /\ Numeros(s) \subseteq Titulo /\ Numeros(s) # {}
  BY <1>4, <1>5, NumerosFinitos
<1>7. Numeros(s) \subseteq Nat
  BY <1>6, MatrizAssumption
<1>8. Min(Numeros(s)) \in Titulo /\ Max(Numeros(s)) \in Titulo
  BY <1>6, <1>7, MinimoDe, MaximoDe
<1>9. FaixaLida(w)[1] = Min(Numeros(s)) /\ FaixaLida(w)[2] = Max(Numeros(s))
  BY DEF FaixaLida, s, m
<1> QED
  BY <1>8, <1>9 DEF s, m

LEMMA PassoInserirLote ==
    ASSUME ImportacaoInv, NEW w \in Processos, InserirLote(w)
    PROVE  ImportacaoInv'
<1> DEFINE i == importacao[w]
           ls == LinhasDe(w)
           lote == LoteDe(w)
           m == i.lidas + Len(lote)
           q == i.importados + Len(lote)
           a == Min(Numeros(SubSeq(ls, 1, m)))
           b == Max(Numeros(SubSeq(ls, 1, m)))
           j == [i EXCEPT !.lidas = m, !.importados = q, !.inicio = a, !.final = b]
<1>1. importacao \in [Processos -> Trabalho] /\ matriz \in Tabela
  BY DEF ImportacaoInv
<1>2. EmAndamento(w) /\ lote # << >> /\ ~Repetido(lote) /\ matriz' = Inserir(lote)
  BY DEF InserirLote
<1>3. /\ ls \in Seq(LinhasBoas) /\ ls = Lidas(i) /\ i.lidas \in 0 .. Len(ls)
      /\ lote \in Seq(LinhasBoas) /\ Len(lote) \in Nat /\ m <= Len(ls)
      /\ \A x \in 1 .. Len(lote) : lote[x] = ls[i.lidas + x]
  BY <1>2, LoteDoJob
<1>4. a \in Titulo /\ b \in Titulo /\ FaixaLida(w)[1] = a /\ FaixaLida(w)[2] = b
  BY <1>2, FaixaAposLote
<1>5. importacao' = [importacao EXCEPT ![w] = j]
  <2>1. importacao' = [importacao EXCEPT
           ![w].lidas = @ + Len(LoteDe(w)), ![w].importados = @ + Len(LoteDe(w)),
           ![w].inicio = FaixaLida(w)[1], ![w].final = FaixaLida(w)[2]]
    BY DEF InserirLote
  <2>2. importacao' = [importacao EXCEPT ![w].lidas = m, ![w].importados = q, ![w].inicio = a, ![w].final = b]
    BY <2>1, <1>4
  <2> HIDE DEF m, q, a, b
  <2> QED
    BY <2>2, <1>1 DEF Trabalho
<1>6. /\ i \in Trabalho /\ JobServe(i) /\ JobHonesto(i, matriz) /\ UltimasValem(i, matriz)
      /\ i.estado = "em_andamento"
  BY <1>2 DEF ImportacaoInv, EmAndamento
<1>7. i.importados \in Nat /\ i.importados <= i.lidas /\ i.lidas \in Nat /\ i.arquivo \in Arquivos
      /\ m \in Nat /\ q \in Nat /\ q <= m /\ (~i.perdeu => q = m)
  BY <1>3, <1>6 DEF JobServe, Trabalho
<1>8. /\ matriz' \in Tabela
      /\ \A x \in 1 .. Len(lote) : matriz'[lote[x].n] = lote[x].s
      /\ \A n \in Titulo : (\A x \in 1 .. Len(lote) : lote[x].n # n) => matriz'[n] = matriz[n]
      /\ Cresce(matriz, matriz')
  <2> HIDE DEF lote
  <2> QED
    BY <1>1, <1>2, <1>3, InserirGrava DEF Cresce
<1>9. \A x \in Processos : x # w => UltimasValem(importacao[x], matriz')
  BY <1>2 DEF ImportacaoInv, SozinhaMesmo, EmAndamento, UltimasValem
<1>10. /\ j \in Trabalho /\ j.estado = i.estado /\ j.arquivo = i.arquivo /\ j.lidas = m /\ j.importados = q
       /\ j.inicio = a /\ j.final = b /\ j.perdeu = i.perdeu /\ j.sozinha = i.sozinha
  <2> HIDE DEF i, m, q, a, b
  <2> QED
    BY <1>4, <1>6, <1>7 DEF Trabalho
<1>11. Lidas(j) = ls
  BY <1>3, <1>10 DEF Lidas
<1> HIDE DEF j, a, b
\* A line was read before this batch, or is of it.
<1>12. \A x \in 1 .. m :
          /\ ls[x] \in LinhasBoas
          /\ x <= i.lidas \/ \E y \in 1 .. Len(lote) : x = i.lidas + y /\ ls[x] = lote[y]
  <2> SUFFICES ASSUME NEW x \in 1 .. m
               PROVE  /\ ls[x] \in LinhasBoas
                      /\ x <= i.lidas \/ \E y \in 1 .. Len(lote) : x = i.lidas + y /\ ls[x] = lote[y]
    OBVIOUS
  <2>1. x \in 1 .. Len(ls)
    BY <1>3, <1>7
  <2>2. ls[x] \in LinhasBoas
    BY <2>1, <1>3
  <2>3. ASSUME ~(x <= i.lidas) PROVE \E y \in 1 .. Len(lote) : x = i.lidas + y /\ ls[x] = lote[y]
    <3>1. x - i.lidas \in 1 .. Len(lote) /\ x = i.lidas + (x - i.lidas)
      BY <1>3, <1>7, <2>3
    <3> QED
      BY <3>1, <1>3
  <2> QED
    BY <2>2, <2>3
<1>13. JobServe(j)
  BY <1>3, <1>6, <1>7, <1>10, <1>11 DEF JobServe
<1>14. JobHonesto(j, matriz')
  <2> SUFFICES ASSUME ~i.perdeu, NEW x \in 1 .. m PROVE matriz'[ls[x].n] # Nada
    BY <1>10, <1>11 DEF JobHonesto, a, b
  <2>1. CASE x <= i.lidas
    <3>1. i.importados = i.lidas /\ i.importados > 0 /\ x \in 1 .. i.lidas
      BY <1>6, <1>7, <2>1 DEF JobServe
    <3>2. matriz[ls[x].n] # Nada
      BY <3>1, <1>3, <1>6 DEF JobHonesto
    <3>3. ls[x].n \in Titulo
      BY <1>12, LinhaBoa
    <3> QED
      BY <3>2, <3>3, <1>8 DEF Cresce
  <2>2. ASSUME NEW y \in 1 .. Len(lote), ls[x] = lote[y] PROVE matriz'[ls[x].n] # Nada
    <3>1. lote[y] \in LinhasBoas
      BY <2>2, <1>12
    <3> QED
      BY <2>2, <3>1, <1>8, LinhaBoa
  <2> QED
    BY <2>1, <2>2, <1>12
<1>15. UltimasValem(j, matriz')
  <2> SUFFICES ASSUME i.sozinha, ~i.perdeu, NEW x \in 1 .. m,
                      \A k \in 1 .. m : ls[k].n = ls[x].n => k <= x
               PROVE  matriz'[ls[x].n] = ls[x].s
    BY <1>10, <1>11 DEF UltimasValem
  <2>1. CASE x <= i.lidas
    <3>1. x \in 1 .. i.lidas /\ \A k \in 1 .. i.lidas : k \in 1 .. m
      BY <1>3, <1>7, <2>1
    <3>2. matriz[ls[x].n] = ls[x].s
      BY <3>1, <1>3, <1>6 DEF UltimasValem
    <3>3. ASSUME NEW y \in 1 .. Len(lote), lote[y].n = ls[x].n PROVE FALSE
      <4>1. i.lidas + y \in 1 .. m /\ i.lidas + y > x
        BY <1>3, <1>7, <2>1
      <4>2. ls[i.lidas + y] = lote[y]
        BY <1>3
      <4> QED
        BY <3>3, <4>1, <4>2
    <3>4. ls[x].n \in Titulo
      BY <1>12, LinhaBoa
    <3> QED
      BY <3>2, <3>3, <3>4, <1>8
  <2>2. ASSUME NEW y \in 1 .. Len(lote), ls[x] = lote[y] PROVE matriz'[ls[x].n] = ls[x].s
    BY <2>2, <1>8
  <2> QED
    BY <2>1, <2>2, <1>12
<1> QED
  BY <1>5, <1>6, <1>8, <1>9, <1>10, <1>13, <1>14, <1>15, UmJobAnda

LEMMA PassoImportacao ==
    ASSUME ImportacaoInv, [MatrizNext]_matrizVars
    PROVE  ImportacaoInv' /\ Cresce(matriz, matriz')
<1>1. ASSUME NEW w \in Processos, InserirLote(w) PROVE ImportacaoInv' /\ Cresce(matriz, matriz')
  <2>1. matriz \in Tabela /\ LoteDe(w) \in Seq(LinhasBoas) /\ LoteDe(w) # << >> /\ ~Repetido(LoteDe(w))
        /\ matriz' = Inserir(LoteDe(w))
    BY <1>1, LoteDoJob DEF InserirLote, ImportacaoInv
  <2>2. Cresce(matriz, matriz')
    BY <2>1, InserirGrava DEF Cresce
  <2> QED
    BY <1>1, <2>2, PassoInserirLote
<1>2. CASE UNCHANGED <<matriz, importacao>>
  BY <1>2 DEF ImportacaoInv, SozinhaMesmo, Cresce
<1>3. ASSUME NEW w \in Processos,
             (\E a \in Arquivos : Enviar(w, a)) \/ PerderLote(w) \/ FalharImportacao(w)
             \/ ConcluirImportacao(w) \/ ReiniciarProcesso(w)
      PROVE  ImportacaoInv' /\ Cresce(matriz, matriz')
  <2>1. matriz' = matriz
    BY <1>3 DEF Enviar, PerderLote, FalharImportacao, ConcluirImportacao, ReiniciarProcesso
  <2>2. ImportacaoInv'
    BY <1>3, PassoEnviar, PassoPerderLote, PassoFalharImportacao, PassoConcluirImportacao,
       PassoReiniciarProcesso
  <2> QED
    BY <2>1, <2>2 DEF Cresce
<1>4. ASSUME NEW combos \in Ofertas, CriarEdicao(combos) \/ TrocarCombos(combos)
      PROVE  UNCHANGED <<matriz, importacao>>
  BY <1>4 DEF CriarEdicao, TrocarCombos
<1>5. ASSUME PedirAtivacao \/ AtivarEdicao \/ DesativarEdicao \/ RemoverEdicao
      PROVE  UNCHANGED <<matriz, importacao>>
  BY <1>5 DEF PedirAtivacao, AtivarEdicao, DesativarEdicao, RemoverEdicao
<1>6. ASSUME NEW combo, VenderCombo(combo) \/ \E i \in DOMAIN vendas, cartelas \in Entregas(combo) :
                                                   AprovarVenda(i, combo, cartelas)
      PROVE  UNCHANGED <<matriz, importacao>>
  BY <1>6 DEF VenderCombo, AprovarVenda
<1>7. CASE UNCHANGED matrizVars
  BY <1>2, <1>7 DEF matrizVars
<1> QED
  BY <1>1, <1>2, <1>3, <1>4, <1>5, <1>6, <1>7 DEF MatrizNext

\* What the invariant says of the import is what the panel shows.
LEMMA InvConfere ==
    ASSUME ImportacaoInv
    PROVE  /\ \A w \in Processos :
                \/ importacao[w] = [SemJob EXCEPT !.sozinha = importacao[w].sozinha]
                \/ /\ importacao[w].estado \in {"em_andamento", "concluido", "erro"}
                   /\ importacao[w].arquivo \in Arquivos
                   /\ 0 <= importacao[w].importados /\ importacao[w].importados <= importacao[w].lidas
                   /\ importacao[w].lidas <= Len(LinhasDe(w))
                   /\ {importacao[w].inicio, importacao[w].final} \subseteq Titulo \cup {0}
           /\ ImportacaoHonesta /\ UltimaLinhaVale
<1>1. ASSUME NEW w \in Processos
      PROVE  /\ importacao[w] \in Trabalho /\ JobServe(importacao[w])
             /\ JobHonesto(importacao[w], matriz) /\ UltimasValem(importacao[w], matriz)
             /\ LinhasDe(w) = Lidas(importacao[w])
  BY DEF ImportacaoInv, LinhasDe, Lidas
<1>2. ASSUME NEW w \in Processos, importacao[w].estado # "sem_importacao_ativa"
      PROVE  /\ importacao[w].lidas \in 0 .. Len(LinhasDe(w))
             /\ LinhasDe(w) \in Seq(LinhasBoas) /\ DOMAIN LinhasDe(w) = 1 .. Len(LinhasDe(w))
  <2>1. importacao[w].arquivo \in Arquivos
    BY <1>1, <1>2 DEF JobServe
  <2>2. LinhasDe(w) \in Seq(LinhasBoas)
    BY <2>1, LinhasDoArquivo DEF LinhasDe
  <2> QED
    BY <1>1, <1>2, <2>2 DEF JobServe, Trabalho
<1>3. ASSUME NEW w \in Processos
      PROVE  \/ importacao[w] = [SemJob EXCEPT !.sozinha = importacao[w].sozinha]
             \/ /\ importacao[w].estado \in {"em_andamento", "concluido", "erro"}
                /\ importacao[w].arquivo \in Arquivos
                /\ 0 <= importacao[w].importados /\ importacao[w].importados <= importacao[w].lidas
                /\ importacao[w].lidas <= Len(LinhasDe(w))
                /\ {importacao[w].inicio, importacao[w].final} \subseteq Titulo \cup {0}
  <2> DEFINE j == importacao[w]
  <2>1. j \in Trabalho /\ JobServe(j) /\ LinhasDe(w) = Lidas(j)
    BY <1>1
  <2> HIDE DEF j
  <2>2. CASE j.estado = "sem_importacao_ativa"
    <3>1. j = SemJob
      BY <2>1, <2>2 DEF JobServe
    <3>2. j = [j EXCEPT !.sozinha = j.sozinha]
      BY <2>1 DEF Trabalho
    <3> QED
      BY <3>1, <3>2 DEF j
  <2>3. CASE j.estado # "sem_importacao_ativa"
    BY <2>1, <2>3 DEF JobServe, Trabalho, Estados, j
  <2> QED
    BY <2>2, <2>3
<1>4. ImportacaoHonesta
  <2> SUFFICES ASSUME NEW w \in Processos, importacao[w].importados > 0, ~importacao[w].perdeu
               PROVE  LET ns == Numeros(Gravadas(w)) IN
                      /\ ns \subseteq NaMatriz(ns)
                      /\ <<Min(ns), Max(ns)>> = <<importacao[w].inicio, importacao[w].final>>
                      /\ importacao[w].estado = "concluido" => ns = Numeros(LinhasDe(w))
    BY DEF ImportacaoHonesta
  <2> DEFINE j == importacao[w]
             ls == LinhasDe(w)
             g == SubSeq(ls, 1, j.lidas)
  <2>1. j.estado # "sem_importacao_ativa"
    BY <1>1 DEF JobServe, SemJob
  <2>2. j.lidas \in 0 .. Len(ls) /\ ls \in Seq(LinhasBoas) /\ ls = Lidas(j)
    BY <1>1, <1>2, <2>1
  <2>3. Gravadas(w) = g
    BY <1>1 DEF Gravadas, JobServe
  <2>4. g \in Seq(LinhasBoas) /\ Len(g) = j.lidas /\ \A i \in 1 .. j.lidas : g[i] = ls[i]
    BY <2>2
  <2>5. Min(Numeros(g)) = j.inicio /\ Max(Numeros(g)) = j.final
    BY <1>1, <2>1, <2>2 DEF JobHonesto
  <2>6. \A n \in Numeros(g) : n \in Titulo /\ matriz[n] # Nada
    <3> SUFFICES ASSUME NEW n \in Numeros(g) PROVE n \in Titulo /\ matriz[n] # Nada
      OBVIOUS
    <3>1. DOMAIN g = 1 .. j.lidas
      BY <2>4
    <3>2. PICK i \in 1 .. j.lidas : n = g[i].n
      BY <3>1 DEF Numeros
    <3>3. g[i] = ls[i] /\ g[i] \in LinhasBoas
      BY <2>2, <2>4
    <3>4. matriz[ls[i].n] # Nada
      BY <1>1, <2>1, <2>2 DEF JobHonesto
    <3> QED
      BY <3>2, <3>3, <3>4, LinhaBoa
  <2>7. j.estado = "concluido" => g = ls
    <3> SUFFICES ASSUME j.estado = "concluido" PROVE g = ls
      OBVIOUS
    <3>1. j.lidas = Len(ls)
      BY <1>1 DEF JobServe
    <3> HIDE DEF j, ls
    <3> QED
      BY <2>2, <3>1
  <2> HIDE DEF g, ls, j
  <2>8. Numeros(g) \subseteq NaMatriz(Numeros(g))
    BY <2>6 DEF NaMatriz
  <2> QED
    BY <2>3, <2>5, <2>7, <2>8 DEF j, ls
<1>5. UltimaLinhaVale
  <2> SUFFICES ASSUME NEW w \in Processos, importacao[w].estado = "concluido", importacao[w].sozinha,
                      ~importacao[w].perdeu, NEW i \in DOMAIN LinhasDe(w),
                      \A k \in DOMAIN LinhasDe(w) : LinhasDe(w)[k].n = LinhasDe(w)[i].n => k <= i
               PROVE  matriz[LinhasDe(w)[i].n] = LinhasDe(w)[i].s
    BY DEF UltimaLinhaVale
  <2>1. importacao[w].lidas = Len(LinhasDe(w)) /\ UltimasValem(importacao[w], matriz)
        /\ LinhasDe(w) = Lidas(importacao[w])
    BY <1>1 DEF JobServe
  <2>2. DOMAIN LinhasDe(w) = 1 .. Len(LinhasDe(w))
    BY <1>2
  <2> QED
    BY <2>1, <2>2 DEF UltimasValem
<1> QED
  BY <1>3, <1>4, <1>5

(* The edition, its combos and its sales (Matriz). *)
Estocado(combos, tab) == \A c \in combos : \A n \in Cabecas(c) : n \in Titulo /\ tab[n] # Nada

EdicaoInv ==
    /\ edicao \in [status : {"nenhuma", "RASCUNHO", "ATIVA"}, combos : Ofertas \cup {{}}]
    /\ edicao.status # "nenhuma" => edicao.combos \in Ofertas
    /\ edicao.combos # {} => FaixasSeparadas(edicao.combos)
    /\ ativacao \in Ofertas \cup {Nada}
    /\ ativacao # Nada => /\ edicao.status = "RASCUNHO" /\ Estocado(ativacao, matriz)
                          /\ ~trocada => edicao.combos = ativacao
    /\ edicao.status = "ATIVA" /\ ~trocada => Estocado(edicao.combos, matriz)
    /\ trocada \in BOOLEAN

Venda == [chave : {"DIGITAL", "FISICO"} \X (Nat \ {0}), intervalo : Nat, cartelas : SUBSET SUBSET Nat]
\* What an approved sale took: cards of its combo, apart from each other.
VendaServe(v) ==
    v.cartelas # {} =>
        /\ v.intervalo # 0
        /\ \E H \in SUBSET Nat :
             /\ v.cartelas = {Cartela(h, v.chave[2], v.intervalo) : h \in H}
             /\ \A g, h \in H : g = h \/ Cartela(g, v.chave[2], v.intervalo)
                                         \cap Cartela(h, v.chave[2], v.intervalo) = {}
VendasInv ==
    /\ vendas \in Seq(Venda) /\ Len(vendas) <= MaxVendas
    /\ \A i \in DOMAIN vendas : VendaServe(vendas[i])

LEMMA CombosDaOferta ==
    ASSUME NEW combos \in Ofertas
    PROVE  IsFiniteSet(combos) /\ combos \subseteq Combo
BY MatrizAssumption DEF Combo

\* As many titles in the matrix as the ranges have: all of them, and each of one range.
LEMMA ProntoEstoca ==
    ASSUME NEW combos \in Ofertas, Pronto(combos)
    PROVE  Estocado(combos, matriz)
<1> DEFINE U == UNION {Cabecas(c) : c \in combos}
           P == CabecasPorCombo(combos)
           ParesDe(c) == {<<c, h>> : h \in Cabecas(c)}
           f == [p \in P |-> p[2]]
<1>1. IsFiniteSet(combos) /\ combos \subseteq Combo
  BY CombosDaOferta
<1>2. ASSUME NEW c \in combos PROVE IsFiniteSet(ParesDe(c))
  <2> DEFINE r == [h \in Cabecas(c) |-> <<c, h>>]
  <2>1. c.inicio \in Int /\ c.fim \in Int
    BY <1>1 DEF Combo
  <2>2. IsFiniteSet(Cabecas(c))
    BY <2>1, FS_Interval DEF Cabecas
  <2>3. r \in Surjection(Cabecas(c), ParesDe(c))
    BY DEF Surjection
  <2> HIDE DEF r
  <2> QED
    BY <2>2, <2>3, FS_Surjection
<1>3. IsFiniteSet({ParesDe(c) : c \in combos})
  <2> DEFINE r == [c \in combos |-> ParesDe(c)]
  <2>1. r \in Surjection(combos, {ParesDe(c) : c \in combos})
    BY DEF Surjection
  <2> HIDE DEF r, ParesDe
  <2> QED
    BY <1>1, <2>1, FS_Surjection
<1>4. IsFiniteSet(P)
  <2>1. P = UNION {ParesDe(c) : c \in combos}
    BY DEF CabecasPorCombo
  <2>2. \A T \in {ParesDe(c) : c \in combos} : IsFiniteSet(T)
    BY <1>2
  <2> HIDE DEF ParesDe, P
  <2> QED
    BY <1>3, <2>1, <2>2, FS_UNION
<1>5. f \in Surjection(P, U)
  <2>1. \A p \in P : f[p] \in U
    BY DEF CabecasPorCombo
  <2>2. ASSUME NEW n \in U PROVE \E p \in P : f[p] = n
    <3>1. PICK c \in combos : n \in Cabecas(c)
      OBVIOUS
    <3>2. <<c, n>> \in P
      BY <3>1 DEF CabecasPorCombo
    <3>3. f[<<c, n>>] = n
      BY <3>2
    <3> QED
      BY <3>2, <3>3
  <2> HIDE DEF P, U
  <2> QED
    BY <2>1, <2>2 DEF Surjection
<1>6. IsFiniteSet(U) /\ Cardinality(U) <= Cardinality(P)
  <2> HIDE DEF P, U, f
  <2> QED
    BY <1>4, <1>5, FS_Surjection
<1>7. Cardinality(NaMatriz(U)) >= Cardinality(P)
  BY DEF Pronto
<1>8. NaMatriz(U) \in SUBSET U
  BY DEF NaMatriz
<1>9. NaMatriz(U) = U
  <2> HIDE DEF P, U, f
  <2>1. Cardinality(U) \in Nat /\ Cardinality(P) \in Nat /\ IsFiniteSet(NaMatriz(U))
        /\ Cardinality(NaMatriz(U)) <= Cardinality(U)
        /\ (Cardinality(U) = Cardinality(NaMatriz(U)) => U = NaMatriz(U))
    BY <1>4, <1>6, <1>8, FS_CardinalityType, FS_Subset
  <2>2. Cardinality(NaMatriz(U)) \in Nat
    BY <2>1, FS_CardinalityType
  <2> QED
    BY <1>6, <1>7, <2>1, <2>2
<1>10. ASSUME NEW c \in combos, NEW n \in Cabecas(c) PROVE n \in Titulo /\ matriz[n] # Nada
  <2>1. n \in U
    OBVIOUS
  <2> HIDE DEF U
  <2> QED
    BY <2>1, <1>9 DEF NaMatriz
<1> QED
  BY <1>10 DEF Estocado

LEMMA EstocadoFica ==
    ASSUME NEW combos, NEW t1, NEW t2, Estocado(combos, t1), Cresce(t1, t2)
    PROVE  Estocado(combos, t2)
BY DEF Estocado, Cresce

LEMMA PassoEdicao ==
    ASSUME EdicaoInv, Cresce(matriz, matriz'), [MatrizNext]_matrizVars
    PROVE  EdicaoInv'
<1>1. CASE UNCHANGED <<edicao, ativacao, trocada>>
  BY <1>1, EstocadoFica DEF EdicaoInv
<1>2. ASSUME NEW combos \in Ofertas, CriarEdicao(combos) PROVE EdicaoInv'
  <2>1. /\ edicao.status = "nenhuma" /\ FaixasSeparadas(combos)
        /\ edicao' = [status |-> "RASCUNHO", combos |-> combos] /\ UNCHANGED <<ativacao, trocada, matriz>>
    BY <1>2 DEF CriarEdicao, EdicaoExiste, CombosValidos
  <2>2. ativacao = Nada
    BY <2>1 DEF EdicaoInv
  <2> QED
    BY <2>1, <2>2 DEF EdicaoInv
<1>3. ASSUME NEW combos \in Ofertas, TrocarCombos(combos) PROVE EdicaoInv'
  <2>1. /\ edicao.status # "nenhuma" /\ FaixasSeparadas(combos)
        /\ edicao' = [edicao EXCEPT !.combos = combos]
        /\ trocada' = (edicao.status = "ATIVA" \/ ativacao # Nada) /\ UNCHANGED <<ativacao, matriz>>
    BY <1>3 DEF TrocarCombos, EdicaoExiste, CombosValidos
  <2>2. edicao'.combos = combos /\ edicao'.status = edicao.status
        /\ edicao' \in [status : {"nenhuma", "RASCUNHO", "ATIVA"}, combos : Ofertas \cup {{}}]
    BY <2>1 DEF EdicaoInv
  <2>3. trocada' \in BOOLEAN
    BY <2>1
  <2>4. ativacao # Nada => trocada'
    BY <2>1
  <2>5. edicao.status = "ATIVA" => trocada'
    BY <2>1
  <2> QED
    BY <2>1, <2>2, <2>3, <2>4, <2>5 DEF EdicaoInv
<1>4. ASSUME PedirAtivacao PROVE EdicaoInv'
  <2>1. /\ edicao.status = "RASCUNHO" /\ Pronto(edicao.combos) /\ ativacao' = edicao.combos
        /\ UNCHANGED <<matriz, edicao, trocada>>
    BY <1>4 DEF PedirAtivacao
  <2>2. edicao.combos \in Ofertas
    BY <2>1 DEF EdicaoInv
  <2>3. Estocado(edicao.combos, matriz)
    BY <2>1, <2>2, ProntoEstoca
  <2> QED
    BY <2>1, <2>2, <2>3 DEF EdicaoInv
<1>5. ASSUME AtivarEdicao PROVE EdicaoInv'
  <2>1. /\ ativacao # Nada /\ edicao' = [edicao EXCEPT !.status = "ATIVA"] /\ ativacao' = Nada
        /\ trocada' = (trocada /\ edicao.combos # ativacao) /\ UNCHANGED matriz
    BY <1>5 DEF AtivarEdicao
  <2>2. edicao'.combos = edicao.combos /\ edicao'.status = "ATIVA" /\ edicao.status = "RASCUNHO"
        /\ edicao' \in [status : {"nenhuma", "RASCUNHO", "ATIVA"}, combos : Ofertas \cup {{}}]
    BY <2>1 DEF EdicaoInv
  <2>3. ~trocada' => edicao.combos = ativacao
    BY <2>1 DEF EdicaoInv
  <2>4. trocada' \in BOOLEAN
    BY <2>1
  <2> QED
    BY <2>1, <2>2, <2>3, <2>4 DEF EdicaoInv
<1>6. ASSUME DesativarEdicao PROVE EdicaoInv'
  <2>1. edicao.status = "ATIVA" /\ edicao' = [edicao EXCEPT !.status = "RASCUNHO"]
        /\ UNCHANGED <<matriz, ativacao, trocada>>
    BY <1>6 DEF DesativarEdicao
  <2>2. edicao'.combos = edicao.combos /\ edicao'.status = "RASCUNHO"
        /\ edicao' \in [status : {"nenhuma", "RASCUNHO", "ATIVA"}, combos : Ofertas \cup {{}}]
    BY <2>1 DEF EdicaoInv
  <2> QED
    BY <2>1, <2>2 DEF EdicaoInv
<1>7. ASSUME RemoverEdicao PROVE EdicaoInv'
  BY <1>7 DEF RemoverEdicao, SemEdicao, EdicaoInv
<1>8. ASSUME NEW w, (\E a \in Arquivos : Enviar(w, a)) \/ InserirLote(w) \/ PerderLote(w)
                    \/ FalharImportacao(w) \/ ConcluirImportacao(w) \/ ReiniciarProcesso(w)
      PROVE  UNCHANGED <<edicao, ativacao, trocada>>
  BY <1>8 DEF Enviar, InserirLote, PerderLote, FalharImportacao, ConcluirImportacao, ReiniciarProcesso
<1>9. ASSUME NEW combo, VenderCombo(combo) \/ \E i \in DOMAIN vendas, cartelas \in Entregas(combo) :
                                                   AprovarVenda(i, combo, cartelas)
      PROVE  UNCHANGED <<edicao, ativacao, trocada>>
  BY <1>9 DEF VenderCombo, AprovarVenda
<1>10. CASE UNCHANGED matrizVars
  BY <1>1, <1>10 DEF matrizVars
<1> QED
  BY <1>1, <1>2, <1>3, <1>4, <1>5, <1>6, <1>7, <1>8, <1>9, <1>10 DEF MatrizNext

LEMMA EntregaServe ==
    ASSUME NEW combo \in Combo, NEW gs \in Entregas(combo)
    PROVE  \E H \in SUBSET Nat :
             /\ gs = {Cartela(h, combo.chances, combo.intervalo) : h \in H}
             /\ \A g, h \in H : g = h \/ Cartela(g, combo.chances, combo.intervalo)
                                         \cap Cartela(h, combo.chances, combo.intervalo) = {}
<1> DEFINE C(h) == Cartela(h, combo.chances, combo.intervalo)
           H == {h \in Cabecas(combo) : C(h) \in gs}
<1>1. combo.chances \in Nat \ {0} /\ combo.intervalo \in Nat \ {0} /\ combo.inicio \in Nat
  BY DEF Combo
<1>2. H \in SUBSET Nat
  BY <1>1 DEF Cabecas
<1>3. gs \subseteq {C(h) : h \in Cabecas(combo)} /\ \A a, b \in gs : a = b \/ a \cap b = {}
  BY DEF Entregas
<1>4. gs = {C(h) : h \in H}
  BY <1>3
<1>5. ASSUME NEW g \in H, NEW h \in H PROVE g = h \/ C(g) \cap C(h) = {}
  <2>1. /\ g \in Nat /\ h \in Nat /\ g \in C(g) /\ h \in C(h)
        /\ (g \in C(h) => h <= g) /\ (h \in C(g) => g <= h)
    BY <1>1, <1>2, LimitesDaCartela
  <2>2. C(g) = C(h) \/ C(g) \cap C(h) = {}
    BY <1>3
  <2> HIDE DEF C
  <2> QED
    BY <2>1, <2>2
<1> QED
  BY <1>2, <1>4, <1>5

LEMMA PassoVendas ==
    ASSUME VendasInv, EdicaoInv, [MatrizNext]_matrizVars
    PROVE  VendasInv'
<1>0. edicao.combos \subseteq Combo
  BY CombosDaOferta DEF EdicaoInv
<1>1. CASE UNCHANGED vendas
  BY <1>1 DEF VendasInv
<1>2. ASSUME NEW combo \in edicao.combos, VenderCombo(combo) PROVE VendasInv'
  <2> DEFINE v == [chave |-> <<combo.origem, combo.chances>>, intervalo |-> 0, cartelas |-> {}]
  <2>1. combo.origem \in {"DIGITAL", "FISICO"} /\ combo.chances \in Nat \ {0}
    BY <1>0 DEF Combo
  <2>2. v \in Venda /\ v.cartelas = {}
    BY <2>1 DEF Venda
  <2>3. vendas' = Append(vendas, v) /\ Len(vendas) < MaxVendas
    BY <1>2 DEF VenderCombo
  <2> HIDE DEF v
  <2>4. /\ vendas \in Seq(Venda) /\ Len(vendas) \in Nat /\ MaxVendas \in Nat
        /\ \A i \in DOMAIN vendas : VendaServe(vendas[i])
    BY MatrizAssumption DEF VendasInv
  <2>5. /\ vendas' \in Seq(Venda) /\ Len(vendas') = Len(vendas) + 1
        /\ \A i \in 1 .. Len(vendas) : vendas'[i] = vendas[i]
        /\ vendas'[Len(vendas) + 1] = v
    BY <2>2, <2>3, <2>4
  <2>6. VendaServe(v)
    BY <2>2 DEF VendaServe
  <2>7. \A i \in DOMAIN vendas' : VendaServe(vendas'[i])
    <3> SUFFICES ASSUME NEW i \in DOMAIN vendas' PROVE VendaServe(vendas'[i])
      OBVIOUS
    <3>1. i \in 1 .. Len(vendas) \/ i = Len(vendas) + 1
      BY <2>4, <2>5
    <3>2. DOMAIN vendas = 1 .. Len(vendas)
      BY <2>4
    <3> QED
      BY <2>4, <2>5, <2>6, <3>1, <3>2
  <2>8. Len(vendas') <= MaxVendas
    BY <2>3, <2>4, <2>5
  <2> QED
    BY <2>5, <2>7, <2>8 DEF VendasInv
<1>3. ASSUME NEW combo \in edicao.combos, NEW i \in DOMAIN vendas, NEW gs \in Entregas(combo),
             AprovarVenda(i, combo, gs)
      PROVE  VendasInv'
  <2> DEFINE v == [vendas[i] EXCEPT !.intervalo = combo.intervalo, !.cartelas = gs]
  <2>1. /\ vendas \in Seq(Venda) /\ Len(vendas) \in Nat /\ Len(vendas) <= MaxVendas
        /\ i \in 1 .. Len(vendas) /\ vendas[i] \in Venda
        /\ \A k \in DOMAIN vendas : VendaServe(vendas[k])
    BY DEF VendasInv
  <2>2. combo \in Combo /\ combo.intervalo \in Nat \ {0} /\ combo.chances \in Nat \ {0}
    BY <1>0 DEF Combo
  <2>3. PICK H \in SUBSET Nat :
             /\ gs = {Cartela(h, combo.chances, combo.intervalo) : h \in H}
             /\ \A g, h \in H : g = h \/ Cartela(g, combo.chances, combo.intervalo)
                                         \cap Cartela(h, combo.chances, combo.intervalo) = {}
    BY <2>2, EntregaServe
  <2>4. gs \in SUBSET SUBSET Nat
    <3>1. \A h \in H : Cartela(h, combo.chances, combo.intervalo) \subseteq Nat
      BY <2>2, LimitesDaCartela
    <3> QED
      BY <2>3, <3>1
  <2>5. combo.chances = vendas[i].chave[2]
    <3>1. <<combo.origem, combo.chances>> = vendas[i].chave
      BY <1>3 DEF AprovarVenda, ComboDe
    <3>2. <<combo.origem, combo.chances>>[2] = combo.chances
      OBVIOUS
    <3> QED
      BY <3>1, <3>2
  <2>6. /\ v \in Venda /\ v.chave = vendas[i].chave /\ v.intervalo = combo.intervalo /\ v.cartelas = gs
    BY <2>1, <2>2, <2>4 DEF Venda
  <2>7. vendas' = [vendas EXCEPT ![i] = v]
    BY <1>3, <2>1 DEF AprovarVenda, Venda
  <2> HIDE DEF v
  <2>8. VendaServe(v)
    BY <2>2, <2>3, <2>5, <2>6 DEF VendaServe
  <2>9. /\ vendas' \in Seq(Venda) /\ Len(vendas') = Len(vendas)
        /\ \A k \in 1 .. Len(vendas) : vendas'[k] = IF k = i THEN v ELSE vendas[k]
    BY <2>1, <2>6, <2>7
  <2>10. DOMAIN vendas = 1 .. Len(vendas) /\ DOMAIN vendas' = 1 .. Len(vendas)
    BY <2>1, <2>9
  <2>11. \A k \in DOMAIN vendas' : VendaServe(vendas'[k])
    BY <2>1, <2>8, <2>9, <2>10
  <2> QED
    BY <2>1, <2>9, <2>11 DEF VendasInv
<1>4. ASSUME RemoverEdicao PROVE VendasInv'
  <2>1. vendas' = << >>
    BY <1>4 DEF RemoverEdicao
  <2>2. << >> \in Seq(Venda) /\ Len(<< >>) = 0 /\ DOMAIN << >> = {}
    OBVIOUS
  <2> QED
    BY <2>1, <2>2, MatrizAssumption DEF VendasInv
<1>5. ASSUME NEW w, (\E a \in Arquivos : Enviar(w, a)) \/ InserirLote(w) \/ PerderLote(w)
                    \/ FalharImportacao(w) \/ ConcluirImportacao(w) \/ ReiniciarProcesso(w)
      PROVE  UNCHANGED vendas
  BY <1>5 DEF Enviar, InserirLote, PerderLote, FalharImportacao, ConcluirImportacao, ReiniciarProcesso
<1>6. ASSUME NEW combos, CriarEdicao(combos) \/ TrocarCombos(combos) PROVE UNCHANGED vendas
  BY <1>6 DEF CriarEdicao, TrocarCombos
<1>7. ASSUME PedirAtivacao \/ AtivarEdicao \/ DesativarEdicao PROVE UNCHANGED vendas
  BY <1>7 DEF PedirAtivacao, AtivarEdicao, DesativarEdicao
<1>8. CASE UNCHANGED matrizVars
  BY <1>1, <1>8 DEF matrizVars
<1> QED
  BY <1>1, <1>2, <1>3, <1>4, <1>5, <1>6, <1>7, <1>8 DEF MatrizNext

LEMMA InvServe ==
    ASSUME EdicaoInv, VendasInv
    PROVE  CombosServem
<1>1. AtivaComEstoque
  BY DEF EdicaoInv, Estocado, AtivaComEstoque, NaMatriz
<1>2. CombosNaoColidem
  <2> SUFFICES ASSUME NEW a \in edicao.combos, NEW b \in edicao.combos, a # b
               PROVE  TitulosDoCombo(a) \cap TitulosDoCombo(b) = {}
    BY DEF CombosNaoColidem
  <2>1. edicao.combos \subseteq Combo /\ FaixasSeparadas(edicao.combos)
    BY CombosDaOferta DEF EdicaoInv
  <2> QED
    BY <2>1, ValidosNaoColidem
<1>3. RelatorioAchaAsCartelas
  <2> SUFFICES ASSUME NEW i \in DOMAIN vendas, vendas[i].intervalo = IntervaloDe(vendas[i].chave)
               PROVE  CartelasDoRelatorio(vendas[i]) = vendas[i].cartelas
    BY DEF RelatorioAchaAsCartelas
  <2> DEFINE v == vendas[i]
             k == v.chave[2]
             d == v.intervalo
  <2>1. v \in Venda /\ VendaServe(v)
    BY DEF VendasInv
  <2>2. k \in Nat \ {0} /\ d \in Nat /\ v.cartelas \subseteq SUBSET Nat
    BY <2>1 DEF Venda
  <2>3. CartelasDoRelatorio(v) = ReconstruirCartelas(UNION v.cartelas, k, d)
    BY DEF CartelasDoRelatorio
  <2> HIDE DEF v
  <2>4. CASE v.cartelas = {}
    <3>1. UNION v.cartelas = {}
      BY <2>4
    <3>2. CabecasDaVenda({}, k, d) = {}
      <4>1. \E C \in SUBSET {} : \A n \in {} : n \in C <=> ~ \E h \in C : h < n /\ n \in Cartela(h, k, d)
        OBVIOUS
      <4>2. CabecasDaVenda({}, k, d) \in SUBSET {}
        BY <4>1 DEF CabecasDaVenda
      <4> QED
        BY <4>2
    <3>3. ReconstruirCartelas({}, k, d) = {}
      BY <3>2 DEF ReconstruirCartelas
    <3> QED
      BY <2>3, <2>4, <3>1, <3>3 DEF v
  <2>5. CASE v.cartelas # {}
    <3>1. d \in Nat \ {0}
      BY <2>1, <2>2, <2>5 DEF VendaServe
    <3>2. PICK H \in SUBSET Nat :
             /\ v.cartelas = {Cartela(h, k, d) : h \in H}
             /\ \A g, h \in H : g = h \/ Cartela(g, k, d) \cap Cartela(h, k, d) = {}
      BY <2>1, <2>5 DEF VendaServe
    <3> HIDE DEF k, d
    <3>3. ReconstruirCartelas(UNION {Cartela(h, k, d) : h \in H}, k, d) = {Cartela(h, k, d) : h \in H}
      BY <2>2, <3>1, <3>2, AchaAsCartelas
    <3> QED
      BY <2>3, <3>2, <3>3 DEF v
  <2> QED
    BY <2>4, <2>5
<1> QED
  BY <1>1, <1>2, <1>3 DEF CombosServem

LEMMA MatrizInvariante == MatrizSpec => [](ImportacaoInv /\ EdicaoInv /\ VendasInv)
<1>1. MatrizInit => ImportacaoInv /\ EdicaoInv /\ VendasInv
  <2> SUFFICES ASSUME MatrizInit PROVE ImportacaoInv /\ EdicaoInv /\ VendasInv
    OBVIOUS
  <2>1. ImportacaoInv
    <3>1. matriz \in Tabela
      BY DEF MatrizInit, Tabela
    <3>2. \A w \in Processos : importacao[w] = SemJob
      BY DEF MatrizInit
    <3>3. importacao \in [Processos -> Trabalho]
      BY SemJobServe DEF MatrizInit
    <3>4. SozinhaMesmo
      BY <3>2 DEF SozinhaMesmo, SemJob
    <3> QED
      BY <3>1, <3>2, <3>3, <3>4, SemJobServe DEF ImportacaoInv
  <2>2. EdicaoInv
    BY DEF MatrizInit, EdicaoInv, SemEdicao
  <2>3. VendasInv
    <3>1. << >> \in Seq(Venda) /\ Len(<< >>) = 0 /\ DOMAIN << >> = {}
      OBVIOUS
    <3> QED
      BY <3>1, MatrizAssumption DEF MatrizInit, VendasInv
  <2> QED
    BY <2>1, <2>2, <2>3
<1>2. ImportacaoInv /\ EdicaoInv /\ VendasInv /\ [MatrizNext]_matrizVars
         => (ImportacaoInv /\ EdicaoInv /\ VendasInv)'
  BY PassoImportacao, PassoEdicao, PassoVendas
<1> QED
  BY <1>1, <1>2, PTL DEF MatrizSpec

\* While no batch is lost, the lines that the panel counts are in the matrix and lie between
\* the numbers it shows, and a title has the balls of its last line; whatever the processes
\* import at once, wherever a batch fails or a process starts again.
THEOREM ImportacaoSempreConfere == MatrizSpec => []ImportacaoConfere
<1>1. ImportacaoInv /\ EdicaoInv /\ VendasInv => ImportacaoConfere
  <2> SUFFICES ASSUME ImportacaoInv, EdicaoInv, VendasInv PROVE ImportacaoConfere
    OBVIOUS
  <2>1. MatrizTypeOK
    BY InvConfere DEF ImportacaoInv, Tabela, EdicaoInv, VendasInv, MatrizTypeOK
  <2> QED
    BY <2>1, InvConfere DEF ImportacaoConfere
<1> QED
  BY <1>1, MatrizInvariante, PTL

\* An edition goes on sale with every head of its combos in the matrix; no title is of two
\* combos; and the cards of a sale are found again from its titles, whatever the ADMIN sends
\* and in whichever order it is sold.
THEOREM CombosSempreServem == MatrizSpec => []CombosServem
<1>1. ImportacaoInv /\ EdicaoInv /\ VendasInv => CombosServem
  BY InvServe
<1> QED
  BY <1>1, MatrizInvariante, PTL
-----------------------------------------------------------------------------
(* The panels. *)

\* What the commissions and the credit of a sale say of each other: a seller's commission is
\* there exactly while the sale is approved, the distributor's from the approval on; and a
\* sale names the network its seller is in, unless the seller moved.
CreditoDaVenda(v) ==
    LET x == venda[v]
    IN  /\ comissao[v] # 0 <=> x.status = "APROVADO" /\ x.vendedor # Vazio
        /\ comissaoDist[v] # 0 => x.status \in {"APROVADO", "CANCELADO"} /\ x.rede # Vazio
        /\ x.status = "APROVADO" /\ x.rede # Vazio => comissaoDist[v] # 0
        /\ x.vendedor \notin transferidos \cup {Vazio} => x.rede = redeDe[x.vendedor]

PaineisInv == PaineisTypeOK /\ \A v \in Vendas : CreditoDaVenda(v)

LEMMA PaineisComecam == PaineisInit => PaineisInv
<1> SUFFICES ASSUME PaineisInit PROVE PaineisInv
  OBVIOUS
<1>1. SemVenda \in [status : Situacoes, vendedor : Vendedores \cup {Vazio},
                    rede : Redes \cup {Vazio}, mes : 0 .. MaxMes]
  BY PaineisAssumption DEF SemVenda, Situacoes
<1>2. PaineisTypeOK
  BY <1>1, PaineisAssumption DEF PaineisInit, PaineisTypeOK, Meses
<1>3. ASSUME NEW v \in Vendas PROVE CreditoDaVenda(v)
  BY <1>3 DEF PaineisInit, CreditoDaVenda, SemVenda
<1> QED
  BY <1>2, <1>3 DEF PaineisInv

LEMMA VendaNoPainel ==
    ASSUME PaineisInv, NEW v \in Vendas, NEW s \in Vendedores \cup {Vazio},
           NEW d \in Redes \cup {Vazio}, VenderNoPainel(v, s, d)
    PROVE  PaineisInv'
<1> DEFINE nova == [status |-> "PENDENTE", vendedor |-> s, rede |-> d, mes |-> mes]
<1>1. nova \in [status : Situacoes, vendedor : Vendedores \cup {Vazio},
                rede : Redes \cup {Vazio}, mes : 0 .. MaxMes]
  BY PaineisAssumption DEF PaineisInv, PaineisTypeOK, Meses, Situacoes
<1>2. PaineisTypeOK'
  <2>1. vinculo' \in [Clientes -> Vendedores \cup {Vazio}]
    BY PaineisAssumption DEF PaineisInv, PaineisTypeOK, VenderNoPainel
  <2> QED
    BY <1>1, <2>1 DEF PaineisInv, PaineisTypeOK, VenderNoPainel, Meses
<1>3. ASSUME NEW w \in Vendas PROVE CreditoDaVenda(w)'
  <2>1. CASE w = v
    <3>1. venda'[v] = nova /\ comissao'[v] = 0 /\ comissaoDist'[v] = 0
      BY DEF PaineisInv, PaineisTypeOK, CreditoDaVenda, VenderNoPainel
    <3> QED
      BY <2>1, <3>1 DEF CreditoDaVenda, VenderNoPainel
  <2>2. CASE w # v
    BY <2>2 DEF PaineisInv, PaineisTypeOK, CreditoDaVenda, VenderNoPainel
  <2> QED
    BY <2>1, <2>2
<1> QED
  BY <1>2, <1>3 DEF PaineisInv

LEMMA AprovacaoNoPainel ==
    ASSUME PaineisInv, NEW v \in Vendas, Aprovar(v)
    PROVE  PaineisInv'
<1>1. PaineisTypeOK'
  BY PaineisAssumption DEF PaineisInv, PaineisTypeOK, Aprovar, Meses, Situacoes
<1>2. ASSUME NEW w \in Vendas PROVE CreditoDaVenda(w)'
  <2>1. CASE w = v
    <3>1. mes \in Meses /\ mes # 0
      BY PaineisAssumption DEF PaineisInv, PaineisTypeOK, Meses
    <3>2. /\ venda'[v].status = "APROVADO"
          /\ venda'[v].vendedor = venda[v].vendedor /\ venda'[v].rede = venda[v].rede
      BY DEF PaineisInv, PaineisTypeOK, Aprovar
    <3>3. /\ comissao'[v] = IF venda[v].vendedor = Vazio THEN comissao[v] ELSE mes
          /\ comissaoDist'[v] = IF venda[v].rede = Vazio THEN comissaoDist[v] ELSE mes
      BY DEF PaineisInv, PaineisTypeOK, Aprovar
    <3>4. comissao[v] = 0 /\ comissaoDist[v] = 0
      BY DEF PaineisInv, CreditoDaVenda, Aprovar
    <3> QED
      BY <2>1, <3>1, <3>2, <3>3, <3>4 DEF PaineisInv, CreditoDaVenda, Aprovar
  <2>2. CASE w # v
    BY <2>2 DEF PaineisInv, PaineisTypeOK, CreditoDaVenda, Aprovar
  <2> QED
    BY <2>1, <2>2
<1> QED
  BY <1>1, <1>2 DEF PaineisInv

LEMMA CancelamentoNoPainel ==
    ASSUME PaineisInv, NEW v \in Vendas, CancelarNoPainel(v)
    PROVE  PaineisInv'
<1>1. PaineisTypeOK'
  <2>1. venda' \in [Vendas -> [status : Situacoes, vendedor : Vendedores \cup {Vazio},
                               rede : Redes \cup {Vazio}, mes : 0 .. MaxMes]]
    BY DEF PaineisInv, PaineisTypeOK, CancelarNoPainel, Situacoes
  <2>2. comissao' \in [Vendas -> 0 .. MaxMes]
    BY PaineisAssumption DEF PaineisInv, PaineisTypeOK, CancelarNoPainel
  <2> QED
    BY <2>1, <2>2 DEF PaineisInv, PaineisTypeOK, CancelarNoPainel, Meses
<1>2. ASSUME NEW w \in Vendas PROVE CreditoDaVenda(w)'
  BY DEF PaineisInv, PaineisTypeOK, CreditoDaVenda, CancelarNoPainel
<1> QED
  BY <1>1, <1>2 DEF PaineisInv

LEMMA PassoDosPaineis == PaineisInv /\ [PaineisNext]_paineisVars => PaineisInv'
<1> SUFFICES ASSUME PaineisInv, [PaineisNext]_paineisVars PROVE PaineisInv'
  OBVIOUS
<1>1. CASE \E v \in Vendas : Aprovar(v) \/ CancelarNoPainel(v)
  BY <1>1, AprovacaoNoPainel, CancelamentoNoPainel
<1>2. CASE \E v \in Vendas, s \in Vendedores \cup {Vazio}, d \in Redes \cup {Vazio} :
               VenderNoPainel(v, s, d)
  BY <1>2, VendaNoPainel
<1>3. ASSUME NEW s \in Vendedores, Excluir(s) \/ Restaurar(s) PROVE PaineisInv'
  BY <1>3 DEF PaineisInv, PaineisTypeOK, CreditoDaVenda, Excluir, Restaurar, Meses
<1>4. ASSUME NEW s \in Vendedores, NEW d \in Redes, Transferir(s, d) PROVE PaineisInv'
  <2>1. PaineisTypeOK'
    BY <1>4 DEF PaineisInv, PaineisTypeOK, Transferir, Meses
  <2>2. ASSUME NEW w \in Vendas PROVE CreditoDaVenda(w)'
    BY <1>4 DEF PaineisInv, PaineisTypeOK, CreditoDaVenda, Transferir
  <2> QED
    BY <2>1, <2>2 DEF PaineisInv
<1>5. CASE Virar
  BY <1>5, PaineisAssumption DEF PaineisInv, PaineisTypeOK, CreditoDaVenda, Virar, Meses
<1>6. CASE UNCHANGED paineisVars
  BY <1>6 DEF PaineisInv, PaineisTypeOK, CreditoDaVenda, paineisVars, Meses
<1> QED
  BY <1>1, <1>2, <1>3, <1>4, <1>5, <1>6 DEF PaineisNext

\* Without a filter by month, the filter by edition alone decides.
LEMMA SemPeriodo ==
    \A e : NoFiltro(e, 0) = {v \in Aprovadas : e \in {Vazio, EdicaoDe[v]}}
BY DEF NoFiltro

LEMMA SomamPorRede == PaineisInv => SomaDaRede
<1> SUFFICES ASSUME PaineisInv, NEW d \in Redes, NEW f \in Filtros
             PROVE  LET linha == TimelineDaRede(d, f[1], f[2])
                        equipe == Uniao(VendasPorVendedor(d, f[1], f[2]))
                    IN  /\ produto = "CDP" => equipe = PerformanceDaRede(d, f[1], f[2])
                        /\ {v \in linha \ equipe : venda[v].vendedor \notin transferidos \cup {Vazio}} = {}
                        /\ {v \in equipe \ linha : venda[v].vendedor \notin transferidos} = {}
  BY DEF SomaDaRede
<1> DEFINE todas == NoFiltro(f[1], f[2])
           linha == TimelineDaRede(d, f[1], f[2])
           equipe == Uniao(VendasPorVendedor(d, f[1], f[2]))
<1>1. equipe = UNION {todas \cap De(s) : s \in Equipe(d)}
  BY DEF Uniao, VendasPorVendedor
<1>2. produto = "CDP" => equipe = PerformanceDaRede(d, f[1], f[2])
  BY <1>1 DEF PerformanceDaRede, DosPremios
<1>3. \A v : v \in equipe <=> v \in todas /\ \E s \in Equipe(d) : v \in De(s)
  <2> HIDE DEF todas, equipe
  <2> QED
    BY <1>1
<1>4. \A v : v \in linha <=> v \in todas /\ v \in Vendas /\ venda[v].rede = d
  BY DEF TimelineDaRede, DaRede, NoFiltro, Aprovadas
<1>5. todas \subseteq Vendas
  BY DEF NoFiltro, Aprovadas
<1> HIDE DEF todas, linha, equipe
<1>6. ASSUME NEW v \in linha \ equipe, venda[v].vendedor \notin transferidos \cup {Vazio} PROVE FALSE
  <2>1. v \in todas /\ v \in Vendas /\ venda[v].rede = d
    BY <1>4, <1>6
  <2>2. venda[v].vendedor \in Vendedores /\ redeDe[venda[v].vendedor] = d
    BY <1>6, <2>1 DEF PaineisInv, PaineisTypeOK, CreditoDaVenda
  <2> QED
    BY <1>3, <1>6, <2>1, <2>2 DEF Equipe, De
<1>7. ASSUME NEW v \in equipe \ linha, venda[v].vendedor \notin transferidos PROVE FALSE
  <2>1. v \in todas /\ v \in Vendas
    BY <1>3, <1>5, <1>7
  <2>2. PICK s \in Equipe(d) : v \in De(s)
    BY <1>3, <1>7
  <2>3. s \in Vendedores /\ redeDe[s] = d /\ venda[v].vendedor = s
    BY <2>2 DEF Equipe, De
  <2>4. venda[v].rede = d
    BY <1>7, <2>1, <2>3, PaineisAssumption DEF PaineisInv, CreditoDaVenda
  <2> QED
    BY <1>4, <1>7, <2>1, <2>4
<1> QED
  BY <1>2, <1>6, <1>7 DEF linha, equipe

LEMMA RankingSempreFecha == PaineisInv => RankingFecha
<1> SUFFICES ASSUME PaineisInv, NEW e \in EdicoesLidas
             PROVE  LET comVendedor == {v \in Faturamento(e) : venda[v].vendedor # Vazio}
                    IN  /\ Uniao(Ranking(e)) = comVendedor
                        /\ UNION {TimelineDoVendedor(s, e, 0) : s \in Vendedores} = comVendedor
                        /\ produto = "CDP" =>
                               UNION {PerformanceDoVendedor(s, e, 0) : s \in Vendedores} = comVendedor
                        /\ AnaliseTimeline(e) = Faturamento(e)
  BY DEF RankingFecha
<1> DEFINE comVendedor == {v \in Faturamento(e) : venda[v].vendedor # Vazio}
           deAlguem == UNION {NoFiltro(e, 0) \cap De(s) : s \in Vendedores}
<1>1. NoFiltro(e, 0) = Faturamento(e)
  BY SemPeriodo, PaineisAssumption DEF Faturamento
<1>2. deAlguem = comVendedor
  <2>1. Faturamento(e) \subseteq Vendas
    BY DEF Faturamento, Aprovadas
  <2>2. \A v \in Vendas : venda[v].vendedor # Vazio <=> venda[v].vendedor \in Vendedores
    BY PaineisAssumption DEF PaineisInv, PaineisTypeOK
  <2>3. \A v \in Vendas : venda[v].vendedor \in Vendedores <=> \E s \in Vendedores : v \in De(s)
    BY DEF De
  <2> QED
    BY <1>1, <2>1, <2>2, <2>3
<1>3. Uniao(Ranking(e)) = deAlguem
  BY DEF Uniao, Ranking
<1>4. /\ UNION {TimelineDoVendedor(s, e, 0) : s \in Vendedores} = deAlguem
      /\ produto = "CDP" => UNION {PerformanceDoVendedor(s, e, 0) : s \in Vendedores} = deAlguem
  BY DEF TimelineDoVendedor, PerformanceDoVendedor, DosPremios
<1> QED
  BY <1>1, <1>2, <1>3, <1>4 DEF AnaliseTimeline

LEMMA ListaSempreTemLinha == ListaTemLinha
<1>1. ASSUME NEW e \in EdicoesLidas PROVE e \in EdicoesDoAdmin <=> AnaliseTimeline(e) # {}
  BY SemPeriodo, PaineisAssumption DEF EdicoesDoAdmin, AnaliseTimeline
<1>2. ASSUME NEW e \in EdicoesLidas, NEW d \in Redes
      PROVE  e \in EdicoesDaRede(d) <=> TimelineDaRede(d, e, 0) # {}
  BY SemPeriodo, PaineisAssumption DEF EdicoesDaRede, TimelineDaRede
<1> QED
  BY <1>1, <1>2 DEF ListaTemLinha

LEMMA ComissaoSempreTemVenda == PaineisInv => ComissaoTemVenda
<1> SUFFICES ASSUME PaineisInv PROVE ComissaoTemVenda
  OBVIOUS
<1>1. ASSUME NEW s \in Vendedores, NEW e
      PROVE  ComissoesDoVendedor(s, e, 0) = NoFiltro(e, 0) \cap De(s)
  <2>1. \A v \in De(s) : comissao[v] # 0 <=> v \in Aprovadas
    BY PaineisAssumption DEF De, Aprovadas, PaineisInv, CreditoDaVenda
  <2>2. ComissoesDoVendedor(s, e, 0) = {v \in De(s) : comissao[v] # 0 /\ e \in {Vazio, EdicaoDe[v]}}
    BY DEF ComissoesDoVendedor
  <2> QED
    BY <2>1, <2>2, SemPeriodo
<1>2. ASSUME NEW s \in Vendedores
      PROVE  /\ \A e \in EdicoesLidas \cup {Vazio} :
                    LET q == QuadroDoVendedor(s, e, 0) IN q.comissoes = q.vendas
             /\ produto = "CDP" => ComissoesDaPerformance(s, 0) = PerformanceDoVendedor(s, Vazio, 0)
  BY <1>1 DEF QuadroDoVendedor, TimelineDoVendedor, ComissoesDaPerformance, PerformanceDoVendedor,
              DosPremios
<1>3. ASSUME produto = "CDP" PROVE ComissoesPdf = UNION {ComissoesDaEquipe(d, 0) : d \in Redes}
  <2>1. \A s, v : v \in ComissoesDaPerformance(s, 0)
                    <=> v \in Vendas /\ venda[v].vendedor = s /\ comissao[v] # 0
    BY <1>3 DEF ComissoesDaPerformance, ComissoesDoVendedor, De, DosPremios
  <2>2. ASSUME NEW v \in ComissoesPdf PROVE \E d \in Redes : v \in ComissoesDaEquipe(d, 0)
    <3>1. v \in Vendas /\ comissao[v] # 0 /\ venda[v].vendedor \in Vendedores
      BY <1>3, <2>2 DEF ComissoesPdf, DosPremios, PaineisInv, PaineisTypeOK, CreditoDaVenda
    <3>2. redeDe[venda[v].vendedor] \in Redes
      BY <3>1 DEF PaineisInv, PaineisTypeOK
    <3>3. venda[v].vendedor \in Equipe(redeDe[venda[v].vendedor])
      BY <3>1 DEF Equipe
    <3> QED
      BY <2>1, <3>1, <3>2, <3>3 DEF ComissoesDaEquipe
  <2>3. ASSUME NEW d \in Redes, NEW v \in ComissoesDaEquipe(d, 0) PROVE v \in ComissoesPdf
    BY <1>3, <2>1 DEF ComissoesDaEquipe, ComissoesPdf, DosPremios
  <2> QED
    BY <2>2, <2>3
<1>4. ASSUME NEW d \in Redes, NEW e \in EdicoesLidas \cup {Vazio}
      PROVE  LET q == QuadroDaRede(d, e, 0)
             IN  /\ q.vendas \subseteq q.comissoes
                 /\ \A v \in q.comissoes \ q.vendas : venda[v].status = "CANCELADO"
  <2>1. \A v : v \in TimelineDaRede(d, e, 0)
                 <=> v \in Vendas /\ venda[v].status = "APROVADO" /\ venda[v].rede = d
                     /\ e \in {Vazio, EdicaoDe[v]}
    BY SemPeriodo DEF TimelineDaRede, Aprovadas, DaRede
  <2>2. \A v : v \in ComissoesDaRede(d, e, 0)
                 <=> v \in Vendas /\ comissaoDist[v] # 0 /\ venda[v].rede = d
                     /\ e \in {Vazio, EdicaoDe[v]}
    BY DEF ComissoesDaRede, DaRede
  <2>3. \A v \in Vendas : venda[v].rede = d =>
            /\ venda[v].status = "APROVADO" => comissaoDist[v] # 0
            /\ comissaoDist[v] # 0 => venda[v].status \in {"APROVADO", "CANCELADO"}
    BY PaineisAssumption DEF PaineisInv, CreditoDaVenda
  <2> QED
    BY <2>1, <2>2, <2>3 DEF QuadroDaRede
<1> QED
  BY <1>2, <1>3, <1>4 DEF ComissaoTemVenda

LEMMA ClientesSempreContidos == ClientesContidos
BY DEF ClientesContidos, TotalDeClientes, ClientesPorVendedor, CarteiraNoArquivo

LEMMA ArquivosSempreFecham == ArquivosFecham
<1> SUFFICES ASSUME NEW e \in EdicoesLidas
             PROVE  /\ VendasXlsx(e, 0, "APROVADO") = Faturamento(e)
                    /\ (IF produto = "CDP" THEN LinhasCdp(e, Vazio) ELSE LinhasSena(e, Vazio))
                         = Faturamento(e)
                    /\ \A m \in Meses : VendasXlsx(e, m, "APROVADO") = NoFiltro(e, m)
  BY DEF ArquivosFecham
<1>1. \A m : VendasXlsx(e, m, "APROVADO") = NoFiltro(e, m)
  <2>1. "APROVADO" # Vazio
    BY PaineisAssumption DEF Situacoes
  <2> QED
    BY <2>1 DEF VendasXlsx, NoFiltro, Aprovadas
<1>2. NoFiltro(e, 0) = Faturamento(e)
  BY SemPeriodo, PaineisAssumption DEF Faturamento
<1>3. LinhasCdp(e, Vazio) = Faturamento(e) /\ LinhasSena(e, Vazio) = Faturamento(e)
  BY DEF LinhasCdp, LinhasSena, ComTitulos, Faturamento
<1> QED
  BY <1>1, <1>2, <1>3

\* No answer looks at who is excluded.
LEMMA RespostasNaoOlham ==
    ASSUME UNCHANGED <<produto, venda, comissao, comissaoDist, redeDe>>
    PROVE  Respostas' = Respostas
BY DEF Respostas, Ranking, Faturamento, AnaliseTimeline, TimelineDaRede, VendasPorVendedor,
       PerformanceDaRede, DosPremios, ComissoesDaRede, ComissoesPdf, EdicoesDaRede, EquipeNoArquivo,
       NoFiltro, Aprovadas, De, DaRede, Equipe, Filtros, Meses

LEMMA ExclusaoNaoMuda == [PaineisNext]_paineisVars => ExcluidoContinuaSomando
<1> SUFFICES ASSUME [PaineisNext]_paineisVars, excluidos' # excluidos PROVE Respostas' = Respostas
  BY DEF ExcluidoContinuaSomando, VendedoresDoArquivo
<1>1. PICK s \in Vendedores : Excluir(s) \/ Restaurar(s)
  BY DEF PaineisNext, paineisVars, VenderNoPainel, Aprovar, CancelarNoPainel, Transferir, Virar
<1>2. UNCHANGED <<produto, venda, comissao, comissaoDist, redeDe>>
  BY <1>1 DEF Excluir, Restaurar
<1> QED
  BY <1>2, RespostasNaoOlham

\* Whatever is sold, approved and cancelled, whoever is moved, excluded or brought back, the
\* panels and the files, and in Premios the performance listings, are of the same sales and
\* customers, as far as their filters are the same; and excluding a seller takes nothing out
\* of any of them.
THEOREM PaineisSempreFecham == PaineisSpec => PaineisFecham
<1>1. PaineisInv => PaineisTypeOK /\ PaineisConferem
  BY SomamPorRede, RankingSempreFecha, ListaSempreTemLinha, ComissaoSempreTemVenda,
     ClientesSempreContidos, ArquivosSempreFecham DEF PaineisConferem, PaineisInv
<1> QED
  BY <1>1, PaineisComecam, PassoDosPaineis, ExclusaoNaoMuda, PTL DEF PaineisSpec, PaineisFecham
-----------------------------------------------------------------------------
(* The Hall of Fame. *)

CONSTANTS EdicoesDoHall, BilhetesDoHall, PremiosDoHall, EdicaoDoBilhete, EdicaoDoPremio,
          Leitores, LimiteEdicoes, LimiteLinhas
VARIABLES edHall, vivos, donoHall, premioHall, cache, leitura, cruzou, empatados

H == INSTANCE HallDaFama WITH
         Edicoes <- EdicoesDoHall, Bilhetes <- BilhetesDoHall, Premios <- PremiosDoHall,
         EdicaoDe <- EdicaoDoBilhete, EdicaoDo <- EdicaoDoPremio,
         status <- edHall, ganhador <- donoHall, premio <- premioHall

\* A ticket wins a prize of its edition; and of a prize registered once the row and the
\* ticket name each other.
PremioServe ==
    /\ \A b \in BilhetesDoHall :
          premioHall[b] # Nulo => EdicaoDoBilhete[b] = EdicaoDoPremio[premioHall[b]]
    /\ \A p \in PremiosDoHall \ empatados, b \in BilhetesDoHall : premioHall[b] = p <=> donoHall[p] = b

\* The editions with winners, as the first statement reads them.
Ancora == {EdicaoDoBilhete[b] : b \in H!Vencedores(EdicoesDoHall)}

\* What a reader that no write crossed has read is what it would read now.
LeitorEmDia(r) ==
    /\ leitura[r].passo = "janela" => leitura[r].edicoes = Ancora
    /\ leitura[r].passo = "bilhetes" => leitura[r].edicoes = H!Janela(Ancora)
    /\ leitura[r].passo = "gravar" => leitura[r].lista = H!Hall

HallInv ==
    /\ H!TypeOK /\ PremioServe
    /\ leitura \in [Leitores -> [passo : {"livre", "ancorar", "janela", "bilhetes", "gravar"},
                                 edicoes : SUBSET EdicoesDoHall, lista : SUBSET H!LinhaDoHall]]
    /\ \A r \in Leitores \ cruzou : LeitorEmDia(r)

LEMMA ContaDoHall == \A S : H!Cardinality(S) = Cardinality(S)
BY DEF H!Cardinality, Cardinality

LEMMA FinitoDoHall == \A S : H!IsFiniteSet(S) <=> IsFiniteSet(S)
BY DEF H!IsFiniteSet, IsFiniteSet

LEMMA HallComeca == ASSUME H!HallAssumption PROVE H!Init => HallInv
<1> SUFFICES ASSUME H!Init PROVE HallInv
  OBVIOUS
<1>1. H!TypeOK
  BY DEF H!Init, H!TypeOK, H!Livre
<1>2. leitura \in [Leitores -> [passo : {"livre", "ancorar", "janela", "bilhetes", "gravar"},
                                edicoes : SUBSET EdicoesDoHall, lista : SUBSET H!LinhaDoHall]]
  BY DEF H!Init, H!Livre
<1>3. PremioServe
  BY DEF H!Init, PremioServe, H!HallAssumption
<1>4. \A r \in Leitores : LeitorEmDia(r)
  BY DEF H!Init, H!Livre, LeitorEmDia
<1> QED
  BY <1>1, <1>2, <1>3, <1>4 DEF HallInv

\* The shares of the winners count no more tickets than there are.
LEMMA LinhasTipadas ==
    ASSUME H!HallAssumption, HallInv, NEW es \in SUBSET EdicoesDoHall
    PROVE  H!Linhas(es) \subseteq H!LinhaDoHall
<1> DEFINE S(b) == {c \in H!Vencedores(es) : premioHall[c] = premioHall[b]}
<1>1. H!Vencedores(es) \subseteq BilhetesDoHall
  BY DEF HallInv, H!TypeOK, H!Vencedores
<1>2. IsFiniteSet(BilhetesDoHall)
  <2>1. H!IsFiniteSet(BilhetesDoHall)
    BY DEF H!HallAssumption
  <2> QED
    BY <2>1, FinitoDoHall
<1>3. ASSUME NEW b \in H!Vencedores(es)
      PROVE  H!Cardinality(S(b)) \in 1..H!Cardinality(BilhetesDoHall)
  <2>1. S(b) \subseteq BilhetesDoHall /\ b \in S(b)
    BY <1>1
  <2>2. IsFiniteSet(S(b)) /\ Cardinality(S(b)) <= Cardinality(BilhetesDoHall)
    BY <1>2, <2>1, FS_Subset
  <2>3. Cardinality(S(b)) \in Nat /\ Cardinality(BilhetesDoHall) \in Nat
    BY <1>2, <2>2, FS_CardinalityType
  <2>4. Cardinality(S(b)) # 0
    BY <2>1, <2>2, FS_EmptySet
  <2>5. Cardinality(S(b)) \in 1..Cardinality(BilhetesDoHall)
    BY <2>2, <2>3, <2>4
  <2>6. H!Cardinality(S(b)) = Cardinality(S(b))
    BY ContaDoHall
  <2>7. H!Cardinality(BilhetesDoHall) = Cardinality(BilhetesDoHall)
    BY ContaDoHall
  <2> QED
    BY <2>5, <2>6, <2>7
<1>4. \A b \in H!Vencedores(es) : b \in BilhetesDoHall /\ premioHall[b] \in PremiosDoHall
  BY <1>1 DEF HallInv, H!TypeOK, H!Vencedores
<1>5. ASSUME NEW l \in H!Linhas(es) PROVE l \in H!LinhaDoHall
  <2>1. PICK b \in H!Vencedores(es) :
            l = [b |-> b, p |-> premioHall[b], total |-> H!Cardinality(S(b))]
    BY <1>5 DEF H!Linhas, H!Corte
  <2>2. /\ b \in BilhetesDoHall /\ premioHall[b] \in PremiosDoHall
        /\ H!Cardinality(S(b)) \in 1..H!Cardinality(BilhetesDoHall)
    BY <1>3, <1>4, <2>1
  <2> HIDE DEF S
  <2> QED
    BY <2>1, <2>2 DEF H!LinhaDoHall
<1> QED
  BY <1>5

\* The three statements, one after the other, are the Hall.
LEMMA TresLeituras ==
    ASSUME H!HallAssumption, HallInv
    PROVE  H!Linhas(H!Janela(Ancora)) = H!Hall
<1> DEFINE es == H!Janela(Ancora)
           ganharam(p) == {b \in vivos : premioHall[b] = p}
           todas == UNION {{[b |-> b, p |-> p, total |-> H!Cardinality(ganharam(p))] : b \in ganharam(p)} :
                           p \in {q \in PremiosDoHall : EdicaoDoPremio[q] \in es}}
           bs == H!Vencedores(es)
           lidas == {[b |-> b, p |-> premioHall[b],
                      total |-> H!Cardinality({c \in bs : premioHall[c] = premioHall[b]})] : b \in bs}
<1>1. /\ vivos \subseteq BilhetesDoHall
      /\ \A b \in vivos : premioHall[b] # Nulo => /\ premioHall[b] \in PremiosDoHall
                                                  /\ EdicaoDoBilhete[b] = EdicaoDoPremio[premioHall[b]]
                                                  /\ EdicaoDoBilhete[b] \in EdicoesDoHall
      /\ Nulo \notin PremiosDoHall
  BY DEF HallInv, H!TypeOK, PremioServe, H!HallAssumption
<1>2. Ancora \cap H!Finalizadas = H!Exibiveis
  BY <1>1 DEF Ancora, H!Vencedores, H!Finalizadas, H!Exibiveis
<1>3. es = {e \in H!Exibiveis : H!Cardinality({f \in H!Exibiveis : f > e}) < LimiteEdicoes}
  BY <1>2 DEF H!Janela, H!MaisRecentes
<1>4. \A b \in bs : {c \in bs : premioHall[c] = premioHall[b]} = ganharam(premioHall[b])
  BY <1>1 DEF H!Vencedores
<1>5. \A b, p : b \in bs /\ premioHall[b] = p
                <=> p \in PremiosDoHall /\ EdicaoDoPremio[p] \in es /\ b \in ganharam(p)
  BY <1>1 DEF H!Vencedores
<1>6. lidas = todas
  <2>1. lidas = {[b |-> b, p |-> premioHall[b], total |-> H!Cardinality(ganharam(premioHall[b]))] : b \in bs}
    BY <1>4
  <2>2. ASSUME NEW x \in todas PROVE x \in lidas
    <3>1. PICK p \in PremiosDoHall : EdicaoDoPremio[p] \in es
                 /\ x \in {[b |-> b, p |-> p, total |-> H!Cardinality(ganharam(p))] : b \in ganharam(p)}
      BY <2>2
    <3>2. PICK b \in ganharam(p) : x = [b |-> b, p |-> p, total |-> H!Cardinality(ganharam(p))]
      BY <3>1
    <3>3. b \in bs /\ premioHall[b] = p
      BY <1>5, <3>1, <3>2
    <3> QED
      BY <2>1, <3>2, <3>3
  <2>3. ASSUME NEW x \in lidas PROVE x \in todas
    <3>1. PICK b \in bs :
              x = [b |-> b, p |-> premioHall[b], total |-> H!Cardinality(ganharam(premioHall[b]))]
      BY <2>1, <2>3
    <3>2. premioHall[b] \in PremiosDoHall /\ EdicaoDoPremio[premioHall[b]] \in es
          /\ b \in ganharam(premioHall[b])
      BY <1>5, <3>1
    <3>3. x \in {[b |-> c, p |-> premioHall[b], total |-> H!Cardinality(ganharam(premioHall[b]))] :
                 c \in ganharam(premioHall[b])}
      BY <3>1, <3>2
    <3> QED
      BY <3>2, <3>3
  <2> QED
    BY <2>2, <2>3
<1>7. H!Linhas(es) = H!Corte(lidas)
  BY DEF H!Linhas
<1>8. H!Hall = H!Corte(todas)
  BY <1>3 DEF H!Hall
<1> QED
  BY <1>6, <1>7, <1>8

\* A write crosses every reader in flight.
LEMMA EscritaPreserva ==
    ASSUME HallInv, H!Escrever, H!TypeOK', PremioServe'
    PROVE  HallInv'
<1>1. \A r \in Leitores \ cruzou' : leitura'[r].passo = "livre"
  BY DEF H!Escrever, H!Livre
<1>2. \A r \in Leitores \ cruzou' : LeitorEmDia(r)'
  BY <1>1 DEF LeitorEmDia
<1> QED
  BY <1>2 DEF HallInv, H!Escrever, H!LinhaDoHall

LEMMA RegistrarPreserva ==
    ASSUME H!HallAssumption, HallInv, NEW p \in PremiosDoHall, NEW b \in BilhetesDoHall, H!Registrar(p, b)
    PROVE  HallInv'
<1>1. /\ donoHall \in [PremiosDoHall -> BilhetesDoHall \cup {Nulo}]
      /\ premioHall \in [BilhetesDoHall -> PremiosDoHall \cup {Nulo}]
      /\ Nulo \notin BilhetesDoHall \cup PremiosDoHall /\ p \notin empatados /\ PremioServe
  BY DEF HallInv, H!TypeOK, H!HallAssumption, H!Registrar
<1>2. /\ donoHall' = [donoHall EXCEPT ![p] = b] /\ premioHall' = [premioHall EXCEPT ![b] = p]
      /\ empatados' = IF donoHall[p] = Nulo /\ premioHall[b] = Nulo THEN empatados
                      ELSE empatados \cup ({p, premioHall[b]} \cap PremiosDoHall)
      /\ EdicaoDoBilhete[b] = EdicaoDoPremio[p] /\ UNCHANGED <<edHall, vivos, cache, leitura>>
  BY DEF H!Registrar, H!Escrever, H!MarcarGanhador
<1>3. H!TypeOK'
  <2>1. cruzou' \subseteq Leitores
    BY DEF H!Registrar, H!Escrever
  <2> QED
    BY <1>1, <1>2, <2>1 DEF HallInv, H!TypeOK, H!LinhaDoHall
<1>4. PremioServe'
  <2>1. ASSUME NEW c \in BilhetesDoHall, premioHall'[c] # Nulo
        PROVE  EdicaoDoBilhete[c] = EdicaoDoPremio[premioHall'[c]]
    BY <1>1, <1>2, <2>1 DEF PremioServe
  <2>2. ASSUME NEW q \in PremiosDoHall \ empatados', NEW c \in BilhetesDoHall
        PROVE  premioHall'[c] = q <=> donoHall'[q] = c
    <3>1. q \notin empatados
      BY <1>2, <2>2
    <3>2. premioHall[c] = q <=> donoHall[q] = c
      BY <1>1, <3>1 DEF PremioServe
    <3>3. premioHall[b] # q
      BY <1>1, <1>2, <2>2
    <3>4. CASE q = p
      <4>1. donoHall[p] = Nulo
        BY <1>2, <2>2, <3>4
      <4> QED
        BY <1>1, <1>2, <3>2, <3>4, <4>1
    <3>5. CASE q # p
      BY <1>1, <1>2, <3>2, <3>3, <3>5
    <3> QED
      BY <3>4, <3>5
  <2> QED
    BY <2>1, <2>2 DEF PremioServe
<1> QED
  BY <1>3, <1>4, EscritaPreserva DEF H!Registrar

LEMMA OutrasEscritasPreservam ==
    ASSUME HallInv, \/ \E e \in EdicoesDoHall : H!Finalizar(e)
                    \/ \E b \in BilhetesDoHall : H!Cancelar(b)
    PROVE  HallInv'
<1>1. /\ H!Escrever /\ UNCHANGED <<donoHall, premioHall, empatados, cache, leitura>>
      /\ cruzou' \subseteq Leitores /\ vivos' \subseteq vivos
      /\ edHall' = edHall \/ \E e \in EdicoesDoHall : edHall' = [edHall EXCEPT ![e] = "FINALIZADA"]
  BY DEF H!Finalizar, H!Cancelar, H!Escrever
<1>2. H!TypeOK'
  BY <1>1 DEF HallInv, H!TypeOK, H!LinhaDoHall
<1>3. PremioServe'
  BY <1>1 DEF HallInv, PremioServe
<1> QED
  BY <1>1, <1>2, <1>3, EscritaPreserva

\* A reader leaves the tables as they are, and so the Hall and what the others read of it.
LEMMA LeituraPreserva ==
    ASSUME HallInv, UNCHANGED <<edHall, vivos, donoHall, premioHall, empatados>>,
           cache' = Nulo \/ cache' \subseteq H!LinhaDoHall,
           NEW r \in Leitores, cruzou' = cruzou \/ cruzou' = cruzou \ {r},
           NEW t \in [passo : {"livre", "ancorar", "janela", "bilhetes", "gravar"},
                      edicoes : SUBSET EdicoesDoHall, lista : SUBSET H!LinhaDoHall],
           leitura' = [leitura EXCEPT ![r] = t],
           r \notin cruzou' => /\ t.passo = "janela" => t.edicoes = Ancora
                               /\ t.passo = "bilhetes" => t.edicoes = H!Janela(Ancora)
                               /\ t.passo = "gravar" => t.lista = H!Hall
    PROVE  HallInv'
<1>1. Ancora' = Ancora /\ H!Janela(Ancora)' = H!Janela(Ancora)
  BY DEF Ancora, H!Vencedores, H!Janela, H!MaisRecentes, H!Finalizadas
<1>2. H!Hall' = H!Hall
  BY DEF H!Hall, H!Exibiveis, H!Finalizadas, H!Corte, H!Antes
<1>3. leitura \in [Leitores -> [passo : {"livre", "ancorar", "janela", "bilhetes", "gravar"},
                                edicoes : SUBSET EdicoesDoHall, lista : SUBSET H!LinhaDoHall]]
  BY DEF HallInv
<1>4. leitura'[r] = t /\ \A s \in Leitores \ {r} : leitura'[s] = leitura[s]
  BY <1>3
<1>5. ASSUME NEW s \in Leitores, s \notin cruzou' PROVE LeitorEmDia(s)'
  <2>1. CASE s = r
    BY <1>1, <1>2, <1>4, <1>5, <2>1 DEF LeitorEmDia
  <2>2. CASE s # r
    <3>1. s \notin cruzou /\ leitura'[s] = leitura[s]
      BY <1>4, <1>5, <2>2
    <3>2. LeitorEmDia(s)
      BY <3>1 DEF HallInv
    <3> QED
      BY <1>1, <1>2, <3>1, <3>2 DEF LeitorEmDia
  <2> QED
    BY <2>1, <2>2
<1>6. H!TypeOK'
  BY <1>3, <1>4 DEF HallInv, H!TypeOK, H!LinhaDoHall
<1>7. PremioServe'
  BY DEF HallInv, PremioServe
<1>8. leitura' \in [Leitores -> [passo : {"livre", "ancorar", "janela", "bilhetes", "gravar"},
                                 edicoes : SUBSET EdicoesDoHall, lista : SUBSET H!LinhaDoHall]]
  BY <1>3
<1> QED
  BY <1>5, <1>6, <1>7, <1>8 DEF HallInv, H!LinhaDoHall

LEMMA LeitorPreserva ==
    ASSUME H!HallAssumption, HallInv, NEW r \in Leitores,
           H!LerCache(r) \/ H!Ancorar(r) \/ H!Escolher(r) \/ H!LerBilhetes(r) \/ H!GravarCache(r)
    PROVE  HallInv'
<1> DEFINE t(passo, edicoes, lista) == [passo |-> passo, edicoes |-> edicoes, lista |-> lista]
<1>1. /\ cache = Nulo \/ cache \subseteq H!LinhaDoHall
      /\ leitura[r].edicoes \subseteq EdicoesDoHall /\ leitura[r].lista \subseteq H!LinhaDoHall
  BY DEF HallInv, H!TypeOK
<1>2. r \notin cruzou => LeitorEmDia(r)
  BY DEF HallInv
<1>3. Ancora \subseteq EdicoesDoHall
  BY DEF Ancora, H!Vencedores, H!HallAssumption, HallInv, H!TypeOK
<1>4. \A es \in SUBSET EdicoesDoHall : H!Janela(es) \subseteq EdicoesDoHall
  BY DEF H!Janela, H!MaisRecentes
<1>5. CASE H!LerCache(r)
  <2>1. /\ UNCHANGED <<edHall, vivos, donoHall, premioHall, empatados, cache>>
        /\ cruzou' = cruzou \ {r} /\ leitura' = [leitura EXCEPT ![r] = t("ancorar", {}, {})]
    BY <1>5 DEF H!LerCache, H!Ir, H!sorteio
  <2> QED
    BY <1>1, <2>1, LeituraPreserva
<1>6. CASE H!Ancorar(r)
  <2>1. /\ UNCHANGED <<edHall, vivos, donoHall, premioHall, empatados, cache, cruzou>>
        /\ leitura' = [leitura EXCEPT ![r] = t("janela", Ancora, {})]
    BY <1>6 DEF H!Ancorar, H!Ir, H!sorteio, Ancora
  <2> QED
    BY <1>1, <1>3, <2>1, LeituraPreserva
<1>7. CASE H!Escolher(r)
  <2>1. /\ UNCHANGED <<edHall, vivos, donoHall, premioHall, empatados, cache, cruzou>>
        /\ leitura[r].passo = "janela"
        /\ leitura' = [leitura EXCEPT ![r] = t("bilhetes", H!Janela(leitura[r].edicoes), {})]
    BY <1>7 DEF H!Escolher, H!Ir, H!sorteio
  <2>2. r \notin cruzou => H!Janela(leitura[r].edicoes) = H!Janela(Ancora)
    BY <1>2, <2>1 DEF LeitorEmDia
  <2> QED
    BY <1>1, <1>4, <2>1, <2>2, LeituraPreserva
<1>8. CASE H!LerBilhetes(r)
  <2>1. /\ UNCHANGED <<edHall, vivos, donoHall, premioHall, empatados, cache, cruzou>>
        /\ leitura[r].passo = "bilhetes"
        /\ leitura' = [leitura EXCEPT ![r] = t("gravar", {}, H!Linhas(leitura[r].edicoes))]
    BY <1>8 DEF H!LerBilhetes, H!Ir, H!sorteio
  <2>2. r \notin cruzou => H!Linhas(leitura[r].edicoes) = H!Hall
    BY <1>2, <2>1, TresLeituras DEF LeitorEmDia
  <2>3. H!Linhas(leitura[r].edicoes) \subseteq H!LinhaDoHall
    BY <1>1, LinhasTipadas
  <2> QED
    BY <1>1, <2>1, <2>2, <2>3, LeituraPreserva
<1>9. CASE H!GravarCache(r)
  <2>1. /\ UNCHANGED <<edHall, vivos, donoHall, premioHall, empatados, cruzou>>
        /\ cache' \in {cache, leitura[r].lista}
        /\ leitura' = [leitura EXCEPT ![r] = t("livre", {}, {})]
    BY <1>9 DEF H!GravarCache, H!Ir, H!sorteio
  <2> QED
    BY <1>1, <2>1, LeituraPreserva
<1> QED
  BY <1>5, <1>6, <1>7, <1>8, <1>9

LEMMA CachePreserva ==
    ASSUME HallInv, H!Expirar \/ UNCHANGED H!vars
    PROVE  HallInv'
<1>1. /\ UNCHANGED <<edHall, vivos, donoHall, premioHall, empatados, leitura, cruzou>>
      /\ cache' \in {cache, Nulo}
  BY DEF H!Expirar, H!vars, H!sorteio
<1>2. Ancora' = Ancora /\ H!Janela(Ancora)' = H!Janela(Ancora)
  BY <1>1 DEF Ancora, H!Vencedores, H!Janela, H!MaisRecentes, H!Finalizadas
<1>3. H!Hall' = H!Hall
  BY <1>1 DEF H!Hall, H!Exibiveis, H!Finalizadas, H!Corte, H!Antes
<1>4. H!TypeOK' /\ PremioServe'
  BY <1>1 DEF HallInv, H!TypeOK, H!LinhaDoHall, PremioServe
<1>5. \A r \in Leitores \ cruzou' : LeitorEmDia(r)'
  BY <1>1, <1>2, <1>3 DEF HallInv, LeitorEmDia
<1> QED
  BY <1>1, <1>4, <1>5 DEF HallInv, H!LinhaDoHall

LEMMA PassoDoHall == ASSUME H!HallAssumption PROVE HallInv /\ [H!Next]_(H!vars) => HallInv'
<1> SUFFICES ASSUME HallInv, [H!Next]_(H!vars) PROVE HallInv'
  OBVIOUS
<1> QED
  BY RegistrarPreserva, OutrasEscritasPreservam, LeitorPreserva, CachePreserva DEF H!Next

\* Whatever is registered, cancelled and closed while the Hall of Fame is read, a list that
\* no write crossed is the one of the database, with the share of each prize among all its
\* winners; and the state of the draw shows the same winner of a prize registered once.
THEOREM HallSempreCompleto ==
    ASSUME H!HallAssumption
    PROVE  H!Spec => [](H!TypeOK /\ H!HallCompleto /\ H!EstadoEHallConcordam)
<1>1. HallInv => H!TypeOK /\ H!HallCompleto
  BY DEF HallInv, LeitorEmDia, H!HallCompleto
<1>2. HallInv => H!EstadoEHallConcordam
  <2> SUFFICES ASSUME HallInv, NEW p \in PremiosDoHall \ empatados
               PROVE  {b \in vivos : premioHall[b] = p} = {H!EstadoDoPremio(p)} \ {Nulo}
    BY DEF H!EstadoEHallConcordam
  <2>1. /\ vivos \subseteq BilhetesDoHall /\ Nulo \notin BilhetesDoHall
        /\ \A b \in BilhetesDoHall : premioHall[b] = p <=> donoHall[p] = b
    BY DEF HallInv, H!TypeOK, PremioServe, H!HallAssumption
  <2> QED
    BY <2>1 DEF H!EstadoDoPremio
<1> QED
  BY <1>1, <1>2, HallComeca, PassoDoHall, PTL DEF H!Spec
=============================================================================
