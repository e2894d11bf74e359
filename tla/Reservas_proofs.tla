-------------------------- MODULE Reservas_proofs ---------------------------
(***************************************************************************)
(* The numbers held in Redis, for any range, owners, sales and requests:   *)
(* the keys are the promises and the work in flight, and a sale that waits *)
(* will find what it selected, as long as nothing that the code lets       *)
(* happen has voided a promise.  And the rows held in PostgreSQL, for any  *)
(* sales, tickets and requests: which circles of waits there are.          *)
(***************************************************************************)
EXTENDS Reservas, TLAPS, FiniteSetTheorems

\* The steps in which a request reserves, and those in which its sale is made.
FaseReserva == {"reservar", "conferir", "renovar", "desfazer"}
FaseVenda == {"cobrar", "keys", "estender", "regravar"}

\* A request by itself: what it looks at and what it has left are of its own numbers.
Forma(r) ==
    /\ r.passo = "ocioso" => r = Ocioso
    /\ r.passo # "ocioso" => r.dono \in Donos
    /\ r.criadas \subseteq r.nums \ r.faltam /\ (r.criadas # {} => r.passo \in FaseReserva)
    /\ r.atual \in Numeros <=> r.passo \in {"conferir", "renovar", "regravar"}
    /\ r.passo \notin {"estender", "regravar"} => r.faltam \subseteq r.nums
    /\ r.passo \in {"conferir", "renovar"} => r.atual \in r.nums
    /\ r.passo = "comprados" => r.faltam = r.nums
    /\ r.passo = "criar" => r.faltam = {}
    /\ r.v \in Vendas <=> r.passo \in FaseVenda

\* A number is sold by a sale that waits no more, and a sale that is approved has all it selected.
Vendidos ==
    /\ \A n \in Numeros : bilhete[n] # Ninguem => venda[bilhete[n]].status \notin {"nenhuma", "PENDENTE"}
    /\ \A v \in Vendas : venda[v].status = "APROVADO" => \A n \in venda[v].sel : bilhete[n] = v

\* The numbers of which request r has found, or made, the key its own.
Obtidos(r) ==
    IF r.passo \in FaseReserva \cup {"garantir", "criar"}
    THEN (r.nums \ r.faltam) \cup {n \in {r.atual} : r.passo = "renovar"} ELSE {}

ObtidosSeus == \A p \in Pedidos : \A n \in Obtidos(pedido[p]) : reserva[Curta(n)] = pedido[p].dono
CriadasSemPromessa == \A p \in Pedidos : \A n \in pedido[p].criadas : <<n, pedido[p].dono>> \notin prometida
ReservandoLivres ==
    \A p \in Pedidos : pedido[p].passo \in {"reservar", "conferir", "renovar"} =>
                           \A n \in pedido[p].nums : bilhete[n] = Ninguem
EsperandoComReserva ==
    \A v \in Vendas : venda[v].status = "PENDENTE" /\ venda[v].dono \in Donos =>
                          \A n \in venda[v].sel : reserva[Curta(n)] = venda[v].dono
ReservadoNaoVendido ==
    \A n \in Numeros : reserva[Curta(n)] \in Donos /\ bilhete[n] # Ninguem =>
        venda[bilhete[n]].dono = reserva[Curta(n)] /\ n \in venda[bilhete[n]].sel

\* The same number is in one request, or sale, of each owner.
Disjuntos ==
    /\ \A p, q \in Pedidos : p # q /\ pedido[p].dono = pedido[q].dono =>
           pedido[p].nums \cap pedido[q].nums = {}
    /\ \A p \in Pedidos, v \in Vendas : pedido[p].v # v /\ pedido[p].dono = venda[v].dono =>
           pedido[p].nums \cap venda[v].sel = {}
    /\ \A v, w \in Vendas : v # w /\ venda[v].dono = venda[w].dono /\ venda[v].dono \in Donos =>
           venda[v].sel \cap venda[w].sel = {}

Seguro == /\ ObtidosSeus /\ CriadasSemPromessa /\ ReservandoLivres /\ EsperandoComReserva
          /\ ReservadoNaoVendido /\ Disjuntos /\ SemReservaOrfa /\ PromessaVale
IInv == /\ TypeOK /\ (\A p \in Pedidos : Forma(pedido[p])) /\ Vendidos
        /\ (~furou => Seguro)

-----------------------------------------------------------------------------
LEMMA OciosoTipado == Ocioso \in Pedido /\ Forma(Ocioso) /\ Obtidos(Ocioso) = {} /\ Ocioso.nums = {}
                      /\ Ocioso.criadas = {} /\ Ocioso.passo = "ocioso" /\ Ocioso.v \notin Vendas
BY ReservasAssumption
DEF Ocioso, Pedido, Passos, Forma, Obtidos, FaseReserva, FaseVenda

LEMMA InitIInv == Init => IInv
<1> SUFFICES ASSUME Init PROVE IInv
  OBVIOUS
<1>1. pedido \in [Pedidos -> Pedido] /\ \A p \in Pedidos : pedido[p] = Ocioso
  BY OciosoTipado DEF Init
<1>2. SemVenda \in Venda /\ SemVenda.status = "nenhuma" /\ SemVenda.sel = {} /\ SemVenda.dono \notin Donos
  BY ReservasAssumption DEF SemVenda, Venda, Donos
<1>3. venda \in [Vendas -> Venda] /\ \A v \in Vendas : venda[v] = SemVenda
  BY <1>2 DEF Init
<1>4. \A n \in Numeros : reserva[Curta(n)] = Ninguem /\ bilhete[n] = Ninguem
  BY ReservasAssumption DEF Init, Curta, Chaves
<1>5. TypeOK
  <2>1. \A p \in Pedidos : Forma(pedido[p])
    BY <1>1, OciosoTipado
  <2> QED
    BY <1>1, <1>3, <2>1, OciosoTipado DEF Init, TypeOK, Forma
<1>6. Vendidos
  BY <1>2, <1>3, <1>4 DEF Vendidos
<1>7. Ninguem \notin Donos
  BY ReservasAssumption DEF Donos
<1>8. Seguro
  <2>1. ObtidosSeus /\ CriadasSemPromessa /\ ReservandoLivres /\ EsperandoComReserva /\ ReservadoNaoVendido
    BY <1>1, <1>2, <1>3, <1>4, OciosoTipado
    DEF ObtidosSeus, CriadasSemPromessa, ReservandoLivres, EsperandoComReserva, ReservadoNaoVendido
  <2>2. Disjuntos
    BY <1>1, <1>2, <1>3, OciosoTipado DEF Disjuntos
  <2>3. SemReservaOrfa /\ PromessaVale
    BY <1>4, <1>7 DEF Init, SemReservaOrfa, PromessaVale
  <2> QED
    BY <2>1, <2>2, <2>3 DEF Seguro
<1> QED
  BY <1>1, <1>5, <1>6, <1>8, OciosoTipado DEF IInv

\* A request becomes r: the types, and the shape of every request.
LEMMA PedidoTipado ==
    ASSUME IInv, NEW p \in Pedidos, NEW r \in Pedido, Forma(r), pedido' = [pedido EXCEPT ![p] = r],
           ativa' \in BOOLEAN, furou' \in BOOLEAN,
           reserva' \in [Chaves -> Donos \cup {Loja, Ninguem}],
           bilhete' \in [Numeros -> Vendas \cup {Ninguem}],
           venda' \in [Vendas -> Venda], prometida' \subseteq Numeros \X Donos
    PROVE  /\ TypeOK' /\ pedido'[p] = r /\ \A q \in Pedidos \ {p} : pedido'[q] = pedido[q]
           /\ \A q \in Pedidos : Forma(pedido[q])'
<1>1. pedido \in [Pedidos -> Pedido]
  BY DEF IInv, TypeOK
<1>2. /\ pedido' \in [Pedidos -> Pedido]
      /\ pedido'[p] = r /\ \A q \in Pedidos \ {p} : pedido'[q] = pedido[q]
  BY <1>1
<1>3. \A q \in Pedidos : Forma(pedido'[q])
  BY <1>2 DEF IInv
<1>4. \A q \in Pedidos : Forma(pedido[q])'
  BY <1>3 DEF Forma
<1>5. TypeOK'
  BY <1>2, <1>3 DEF TypeOK, Forma
<1> QED
  BY <1>2, <1>4, <1>5

\* A request looks, goes on or ends, and what it writes to Redis was there already, unless
\* that voids a promise: it has no number more than it found its own.
LEMMA PedidoAndaIInv ==
    ASSUME IInv, NEW p \in Pedidos, NEW r \in Pedido, Forma(r), pedido' = [pedido EXCEPT ![p] = r],
           UNCHANGED <<ativa, bilhete, venda, prometida>>,
           furou' \in BOOLEAN, furou => furou', reserva' \in [Chaves -> Donos \cup {Loja, Ninguem}],
           ~furou' =>
               /\ reserva' = reserva
               /\ \/ r = Ocioso /\ pedido[p].criadas = {}
                  \/ /\ r.dono = pedido[p].dono /\ r.nums = pedido[p].nums /\ r.v = pedido[p].v
                     /\ r.criadas = pedido[p].criadas
               /\ \A n \in Obtidos(r) : n \in Obtidos(pedido[p]) \/ reserva[Curta(n)] = r.dono
               /\ r.passo \in {"reservar", "conferir", "renovar"} =>
                      \/ pedido[p].passo \in {"reservar", "conferir", "renovar"}
                      \/ \A n \in r.nums : bilhete[n] = Ninguem
    PROVE  IInv'
<1>1. /\ TypeOK' /\ pedido'[p] = r /\ \A q \in Pedidos \ {p} : pedido'[q] = pedido[q]
      /\ \A q \in Pedidos : Forma(pedido[q])'
  BY PedidoTipado DEF IInv, TypeOK
<1>2. Vendidos'
  BY DEF IInv, Vendidos
<1>3. ASSUME ~furou' PROVE Seguro'
  <2>1. ~furou /\ Seguro /\ reserva' = reserva
    BY <1>3 DEF IInv, TypeOK
  <2>2. ObtidosSeus'
    <3>1. \A q \in Pedidos : \A n \in Obtidos(pedido'[q]) : reserva[Curta(n)] = pedido'[q].dono
      BY <1>1, <1>3, <2>1, OciosoTipado DEF Seguro, ObtidosSeus
    <3> QED
      BY <2>1, <3>1 DEF ObtidosSeus, Obtidos
  <2>3. CriadasSemPromessa' /\ ReservandoLivres'
    BY <1>1, <1>3, <2>1, OciosoTipado DEF Seguro, CriadasSemPromessa, ReservandoLivres
  <2>4. EsperandoComReserva' /\ ReservadoNaoVendido' /\ PromessaVale'
    BY <2>1 DEF Seguro, EsperandoComReserva, ReservadoNaoVendido, PromessaVale
  <2>5. \A q \in Pedidos : pedido'[q].nums = {} \/ (/\ pedido'[q].nums = pedido[q].nums
                                                /\ pedido'[q].dono = pedido[q].dono
                                                /\ pedido'[q].v = pedido[q].v)
    BY <1>1, <1>3, OciosoTipado
  <2>6. Disjuntos'
    BY <2>1, <2>5 DEF Seguro, Disjuntos
  <2>7. \A q \in Pedidos : \/ pedido[q].criadas = {}
                           \/ pedido'[q].criadas = pedido[q].criadas /\ pedido'[q].dono = pedido[q].dono
    BY <1>1, <1>3
  <2>8. SemReservaOrfa'
    BY <2>1, <2>7 DEF Seguro, SemReservaOrfa
  <2> QED
    BY <2>2, <2>3, <2>4, <2>6, <2>8 DEF Seguro
<1> QED
  BY <1>1, <1>2, <1>3 DEF IInv
\* What every step of a request needs of its record and of the rest.
LEMMA PedidoConhecido ==
    ASSUME IInv, NEW p \in Pedidos
    PROVE  /\ pedido[p] \in Pedido /\ Forma(pedido[p]) /\ furou \in BOOLEAN /\ ativa \in BOOLEAN
           /\ reserva \in [Chaves -> Donos \cup {Loja, Ninguem}]
           /\ pedido[p].passo # "ocioso" => pedido[p].dono \in Donos
           /\ pedido[p].passo \notin FaseReserva => pedido[p].criadas = {}
           /\ ~furou => Seguro
BY DEF IInv, TypeOK, Forma

LEMMA ReservaGravada ==
    ASSUME IInv, NEW n \in Numeros, NEW d \in Donos, Gravar(n, d)
    PROVE  /\ reserva' \in [Chaves -> Donos \cup {Loja, Ninguem}]
           /\ reserva'[Curta(n)] = d
           /\ \A m \in Numeros \ {n} : reserva'[Curta(m)] = reserva[Curta(m)]
           /\ reserva[Curta(n)] = d => reserva' = reserva
<1>1. \A m \in Numeros : Curta(m) \in Chaves /\ (m # n => Curta(m) # Curta(n))
  BY ReservasAssumption DEF Curta, Chaves
<1>2. reserva \in [Chaves -> Donos \cup {Loja, Ninguem}]
  BY DEF IInv, TypeOK
<1> QED
  BY <1>1, <1>2 DEF Gravar

\* A request goes on to step x with the numbers f left, looking at a.
Segue(p, x, f, a) == [pedido[p] EXCEPT !.passo = x, !.faltam = f, !.atual = a]

LEMMA SegueTipado ==
    ASSUME IInv, NEW p \in Pedidos, NEW x \in Passos, NEW f \in SUBSET Numeros,
           NEW a \in Numeros \cup {Ninguem}
    PROVE  /\ Segue(p, x, f, a) \in Pedido /\ pedido[p] \in Pedido
           /\ Segue(p, x, f, a).passo = x /\ Segue(p, x, f, a).faltam = f /\ Segue(p, x, f, a).atual = a
           /\ Segue(p, x, f, a).dono = pedido[p].dono /\ Segue(p, x, f, a).nums = pedido[p].nums
           /\ Segue(p, x, f, a).criadas = pedido[p].criadas /\ Segue(p, x, f, a).v = pedido[p].v
<1>1. pedido \in [Pedidos -> Pedido] /\ pedido[p] \in Pedido
  BY DEF IInv, TypeOK
<1>2. Segue(p, x, f, a) \in Pedido
  BY <1>1 DEF Segue, Pedido
<1>3. /\ Segue(p, x, f, a).passo = x /\ Segue(p, x, f, a).faltam = f /\ Segue(p, x, f, a).atual = a
      /\ Segue(p, x, f, a).dono = pedido[p].dono /\ Segue(p, x, f, a).nums = pedido[p].nums
      /\ Segue(p, x, f, a).criadas = pedido[p].criadas /\ Segue(p, x, f, a).v = pedido[p].v
  BY <1>1 DEF Segue, Pedido
<1> QED
  BY <1>1, <1>2, <1>3

LEMMA SegueSoPasso ==
    ASSUME IInv, NEW p \in Pedidos, NEW x
    PROVE  Seguir(p, x) => pedido' = [pedido EXCEPT ![p] = Segue(p, x, pedido[p].faltam, pedido[p].atual)]
<1>1. pedido \in [Pedidos -> Pedido] /\ pedido[p] \in Pedido
  BY DEF IInv, TypeOK
<1>2. [pedido[p] EXCEPT !.passo = x] = Segue(p, x, pedido[p].faltam, pedido[p].atual)
  BY <1>1 DEF Segue, Pedido
<1> QED
  BY <1>2 DEF Seguir

LEMMA SegueComNumero ==
    ASSUME IInv, NEW p \in Pedidos, NEW x, NEW a
    PROVE  SeguirCom(p, a, x) => pedido' = [pedido EXCEPT ![p] = Segue(p, x, pedido[p].faltam, a)]
<1>1. pedido \in [Pedidos -> Pedido] /\ pedido[p] \in Pedido
  BY DEF IInv, TypeOK
<1>2. [pedido[p] EXCEPT !.passo = x, !.atual = a] = Segue(p, x, pedido[p].faltam, a)
  BY <1>1 DEF Segue, Pedido
<1> QED
  BY <1>2 DEF SeguirCom
LEMMA LerCompradosIInv == ASSUME IInv, NEW p \in Pedidos, LerComprados(p) PROVE IInv'
<1> DEFINE r == Segue(p, "reservar", pedido[p].faltam, pedido[p].atual)
<1>1. /\ pedido[p].passo = "comprados"
      /\ \/ (\A n \in pedido[p].nums : bilhete[n] = Ninguem) /\ Seguir(p, "reservar")
         \/ Encerrar(p)
      /\ UNCHANGED <<ativa, reserva, bilhete, venda, prometida, furou>>
  BY DEF LerComprados
<1>2. /\ pedido[p].criadas = {} /\ Forma(pedido[p]) /\ furou \in BOOLEAN
      /\ reserva \in [Chaves -> Donos \cup {Loja, Ninguem}]
  BY <1>1, PedidoConhecido DEF FaseReserva
<1>3. CASE Encerrar(p)
  BY <1>1, <1>2, <1>3, OciosoTipado, PedidoAndaIInv DEF Encerrar
<1>4. CASE (\A n \in pedido[p].nums : bilhete[n] = Ninguem) /\ Seguir(p, "reservar")
  <2>1. /\ r \in Pedido /\ pedido' = [pedido EXCEPT ![p] = r] /\ r.passo = "reservar"
        /\ r.faltam = pedido[p].faltam /\ r.atual = pedido[p].atual /\ r.dono = pedido[p].dono
        /\ r.nums = pedido[p].nums /\ r.criadas = pedido[p].criadas /\ r.v = pedido[p].v
    <3>1. "reservar" \in Passos /\ pedido[p].faltam \in SUBSET Numeros /\ pedido[p].atual \in Numeros \cup {Ninguem}
      BY PedidoConhecido DEF Pedido, Passos
    <3> QED
      BY <1>4, <3>1, SegueTipado, SegueSoPasso
  <2> HIDE DEF r
  <2>2. Forma(r) /\ Obtidos(r) = {}
    BY <1>1, <1>2, <2>1 DEF Forma, FaseReserva, FaseVenda, Obtidos
  <2> QED
    BY <1>1, <1>2, <1>4, <2>1, <2>2, PedidoAndaIInv
<1> QED
  BY <1>1, <1>3, <1>4

LEMMA ConferirChaveIInv == ASSUME IInv, NEW p \in Pedidos, ConferirChave(p) PROVE IInv'
<1> DEFINE x == IF Pertence(p, pedido[p].atual) THEN "renovar" ELSE "desfazer"
           a == IF Pertence(p, pedido[p].atual) THEN pedido[p].atual ELSE Ninguem
           r == Segue(p, x, pedido[p].faltam, a)
<1>1. /\ pedido[p].passo = "conferir"
      /\ \/ Pertence(p, pedido[p].atual) /\ Seguir(p, "renovar")
         \/ ~Pertence(p, pedido[p].atual) /\ SeguirCom(p, Ninguem, "desfazer")
      /\ UNCHANGED <<ativa, reserva, bilhete, venda, prometida, furou>>
  BY DEF ConferirChave
<1>2. /\ Forma(pedido[p]) /\ furou \in BOOLEAN /\ reserva \in [Chaves -> Donos \cup {Loja, Ninguem}]
      /\ pedido[p].atual \in Numeros /\ Ninguem \notin Numeros
  BY <1>1, PedidoConhecido, ReservasAssumption DEF Forma
<1>3. /\ r \in Pedido /\ pedido' = [pedido EXCEPT ![p] = r] /\ r.passo = x
      /\ r.faltam = pedido[p].faltam /\ r.atual = a /\ r.dono = pedido[p].dono
      /\ r.nums = pedido[p].nums /\ r.criadas = pedido[p].criadas /\ r.v = pedido[p].v
  <2>1. pedido[p].faltam \in SUBSET Numeros /\ x \in Passos /\ a \in Numeros \cup {Ninguem}
    BY <1>2, PedidoConhecido DEF Pedido, Passos
  <2>2. pedido' = [pedido EXCEPT ![p] = r]
    BY <1>1, SegueSoPasso, SegueComNumero
  <2> HIDE DEF x, a
  <2> QED
    BY <2>1, <2>2, SegueTipado
<1> HIDE DEF r
<1>4. Forma(r)
  BY <1>1, <1>2, <1>3 DEF Forma, FaseReserva, FaseVenda
<1>5. \A n \in Obtidos(r) : n \in Obtidos(pedido[p]) \/ reserva[Curta(n)] = r.dono
  BY <1>1, <1>3 DEF Obtidos, FaseReserva, Pertence
<1> QED
  BY <1>1, <1>2, <1>3, <1>4, <1>5, PedidoAndaIInv

LEMMA RenovarChaveIInv == ASSUME IInv, NEW p \in Pedidos, RenovarChave(p) PROVE IInv'
<1> DEFINE n == pedido[p].atual
           r == Segue(p, "reservar", pedido[p].faltam \ {n}, Ninguem)
<1>1. /\ pedido[p].passo = "renovar" /\ Gravar(n, pedido[p].dono) /\ Riscar(p, n, "reservar")
      /\ UNCHANGED <<ativa, bilhete, venda, prometida, furou>>
  BY DEF RenovarChave
<1>2. /\ Forma(pedido[p]) /\ furou \in BOOLEAN /\ pedido[p] \in Pedido /\ pedido[p].dono \in Donos
      /\ n \in Numeros /\ n \in pedido[p].nums /\ Ninguem \notin Numeros
  BY <1>1, PedidoConhecido, ReservasAssumption DEF Forma
<1>3. /\ r \in Pedido /\ r.passo = "reservar"
      /\ r.faltam = pedido[p].faltam \ {n} /\ r.atual = Ninguem /\ r.dono = pedido[p].dono
      /\ r.nums = pedido[p].nums /\ r.criadas = pedido[p].criadas /\ r.v = pedido[p].v
  <2>1. pedido[p].faltam \ {n} \in SUBSET Numeros /\ {"reservar", "estender"} \subseteq Passos
    BY <1>2 DEF Pedido, Passos
  <2> QED
    BY <2>1, SegueTipado
<1>4. pedido' = [pedido EXCEPT ![p] = r]
  BY <1>1 DEF Riscar, Segue
<1>5. reserva' \in [Chaves -> Donos \cup {Loja, Ninguem}]
  BY <1>1, <1>2, ReservaGravada
<1>6. ~furou => reserva[Curta(n)] = pedido[p].dono
  BY <1>1, PedidoConhecido DEF Seguro, ObtidosSeus, Obtidos, FaseReserva
<1>7. ~furou => reserva' = reserva
  BY <1>1, <1>2, <1>6, ReservaGravada
<1>8. Forma(r) /\ Obtidos(r) \subseteq Obtidos(pedido[p])
  <2> HIDE DEF r
  <2> QED
    BY <1>1, <1>2, <1>3 DEF Forma, FaseReserva, FaseVenda, Obtidos
<1> HIDE DEF n, r
<1> QED
  BY <1>1, <1>2, <1>3, <1>4, <1>5, <1>7, <1>8, PedidoAndaIInv

LEMMA FalharReservaIInv == ASSUME IInv, NEW p \in Pedidos, FalharReserva(p) PROVE IInv'
<1>1. /\ pedido' = [pedido EXCEPT ![p] = Ocioso] /\ furou' = TRUE
      /\ UNCHANGED <<ativa, reserva, bilhete, venda, prometida>>
  BY DEF FalharReserva, Encerrar
<1> QED
  BY <1>1, OciosoTipado, PedidoConhecido, PedidoAndaIInv

LEMMA GarantirReservaIInv ==
    ASSUME IInv, NEW p \in Pedidos, NEW n \in Numeros, GarantirReserva(p, n) PROVE IInv'
<1> DEFINE x == IF pedido[p].faltam = {n} THEN "criar" ELSE "garantir"
           r == Segue(p, x, pedido[p].faltam \ {n}, Ninguem)
<1>1. /\ pedido[p].passo = "garantir" /\ n \in pedido[p].faltam
      /\ \/ Pertence(p, n) /\ Riscar(p, n, x)
         \/ Encerrar(p)
      /\ UNCHANGED <<ativa, reserva, bilhete, venda, prometida, furou>>
  BY DEF GarantirReserva
<1>2. /\ Forma(pedido[p]) /\ furou \in BOOLEAN /\ pedido[p] \in Pedido /\ pedido[p].criadas = {}
      /\ reserva \in [Chaves -> Donos \cup {Loja, Ninguem}] /\ Ninguem \notin Numeros
  BY <1>1, PedidoConhecido, ReservasAssumption DEF FaseReserva
<1>3. CASE Encerrar(p)
  BY <1>1, <1>2, <1>3, OciosoTipado, PedidoAndaIInv DEF Encerrar
<1>4. CASE Pertence(p, n) /\ Riscar(p, n, x)
  <2>1. /\ r \in Pedido /\ r.passo = x
        /\ r.faltam = pedido[p].faltam \ {n} /\ r.atual = Ninguem /\ r.dono = pedido[p].dono
        /\ r.nums = pedido[p].nums /\ r.criadas = pedido[p].criadas /\ r.v = pedido[p].v
    <3>1. pedido[p].faltam \ {n} \in SUBSET Numeros /\ x \in Passos
      BY <1>2 DEF Pedido, Passos
    <3> HIDE DEF x
    <3> QED
      BY <3>1, SegueTipado
  <2>2. pedido' = [pedido EXCEPT ![p] = r]
    BY <1>4 DEF Riscar, Segue
  <2> HIDE DEF r
  <2>3. Forma(r)
    BY <1>1, <1>2, <2>1 DEF Forma, FaseReserva, FaseVenda
  <2>4. \A m \in Obtidos(r) : m \in Obtidos(pedido[p]) \/ reserva[Curta(m)] = r.dono
    BY <1>1, <1>4, <2>1 DEF Obtidos, FaseReserva, Pertence
  <2> QED
    BY <1>1, <1>2, <2>1, <2>2, <2>3, <2>4, PedidoAndaIInv
<1> QED
  BY <1>1, <1>3, <1>4

\* Of a sale that is made a request holds no key as its own any more: what it does of the
\* charge and of the extension is no more than to go on, or to end.
LEMMA FaseVendaIInv ==
    ASSUME IInv, NEW p \in Pedidos, pedido[p].passo \in FaseVenda, NEW r \in Pedido,
           \/ r = Ocioso
           \/ /\ r.passo \in FaseVenda /\ r.dono = pedido[p].dono /\ r.nums = pedido[p].nums
              /\ r.v = pedido[p].v /\ r.criadas = pedido[p].criadas
              /\ r.atual \in Numeros <=> r.passo = "regravar"
              /\ r.passo \in {"cobrar", "keys"} => r.faltam \subseteq r.nums,
           pedido' = [pedido EXCEPT ![p] = r], UNCHANGED <<ativa, bilhete, venda, prometida>>,
           furou' \in BOOLEAN, furou => furou', reserva' \in [Chaves -> Donos \cup {Loja, Ninguem}],
           ~furou' => reserva' = reserva
    PROVE  IInv'
<1>1. /\ Forma(pedido[p]) /\ pedido[p].criadas = {} /\ pedido[p].passo # "ocioso"
      /\ FaseVenda \cap (FaseReserva \cup {"garantir", "criar", "comprados"}) = {}
  BY PedidoConhecido DEF FaseReserva, FaseVenda
<1>2. Forma(r) /\ Obtidos(r) = {}
  BY <1>1, OciosoTipado DEF Forma, Obtidos, FaseReserva, FaseVenda
<1>3. r.passo \notin {"reservar", "conferir", "renovar"}
  BY OciosoTipado DEF FaseVenda
<1> QED
  BY <1>1, <1>2, <1>3, PedidoAndaIInv

LEMMA CobrarIInv == ASSUME IInv, NEW p \in Pedidos, Cobrar(p) PROVE IInv'
<1> DEFINE r == Segue(p, "keys", pedido[p].faltam, pedido[p].atual)
<1>1. /\ pedido[p].passo = "cobrar"
      /\ Encerrar(p) \/ Seguir(p, "keys")
      /\ UNCHANGED <<ativa, reserva, bilhete, venda, prometida, furou>>
  BY DEF Cobrar
<1>2. /\ Forma(pedido[p]) /\ furou \in BOOLEAN /\ reserva \in [Chaves -> Donos \cup {Loja, Ninguem}]
      /\ pedido[p] \in Pedido
  BY PedidoConhecido
<1>3. CASE Encerrar(p)
  BY <1>1, <1>2, <1>3, OciosoTipado, FaseVendaIInv DEF Encerrar, FaseVenda
<1>4. CASE Seguir(p, "keys")
  <2>1. /\ r \in Pedido /\ pedido' = [pedido EXCEPT ![p] = r] /\ r.passo = "keys"
        /\ r.faltam = pedido[p].faltam /\ r.atual = pedido[p].atual /\ r.dono = pedido[p].dono
        /\ r.nums = pedido[p].nums /\ r.criadas = pedido[p].criadas /\ r.v = pedido[p].v
    <3>1. "keys" \in Passos /\ pedido[p].faltam \in SUBSET Numeros /\ pedido[p].atual \in Numeros \cup {Ninguem}
      BY <1>2 DEF Pedido, Passos
    <3> QED
      BY <1>4, <3>1, SegueTipado, SegueSoPasso
  <2> HIDE DEF r
  <2> QED
    BY <1>1, <1>2, <2>1, FaseVendaIInv DEF Forma, FaseVenda
<1> QED
  BY <1>1, <1>3, <1>4

LEMMA ListarIInv == ASSUME IInv, NEW p \in Pedidos, ListarParaEstender(p) PROVE IInv'
<1> DEFINE f == IF pedido[p].dono \in Operadores
                THEN {n \in Numeros : reserva[Curta(n)] # Ninguem} ELSE pedido[p].nums
           r == [pedido[p] EXCEPT !.passo = "estender", !.faltam = f]
<1>1. /\ pedido[p].passo = "keys" /\ pedido' = [pedido EXCEPT ![p] = r]
      /\ UNCHANGED <<ativa, reserva, bilhete, venda, prometida, furou>>
  BY DEF ListarParaEstender
<1>2. /\ Forma(pedido[p]) /\ furou \in BOOLEAN /\ reserva \in [Chaves -> Donos \cup {Loja, Ninguem}]
      /\ pedido[p] \in Pedido
  BY PedidoConhecido
<1>3. f \in SUBSET Numeros
  BY <1>2 DEF Pedido
<1> HIDE DEF f
<1>4. /\ r \in Pedido /\ r.passo = "estender" /\ r.atual = pedido[p].atual /\ r.dono = pedido[p].dono
      /\ r.nums = pedido[p].nums /\ r.criadas = pedido[p].criadas /\ r.v = pedido[p].v
  BY <1>2, <1>3 DEF Pedido, Passos
<1> HIDE DEF r
<1> QED
  BY <1>1, <1>2, <1>4, FaseVendaIInv DEF Forma, FaseVenda

LEMMA LerParaEstenderIInv ==
    ASSUME IInv, NEW p \in Pedidos, NEW n \in Numeros, LerParaEstender(p, n) PROVE IInv'
<1> DEFINE x == IF Pertence(p, n) THEN "regravar" ELSE "estender"
           f == IF Pertence(p, n) THEN pedido[p].faltam ELSE pedido[p].faltam \ {n}
           a == IF Pertence(p, n) THEN n ELSE Ninguem
           r == Segue(p, x, f, a)
<1>1. /\ pedido[p].passo = "estender"
      /\ \/ Pertence(p, n) /\ SeguirCom(p, n, "regravar")
         \/ ~Pertence(p, n) /\ Riscar(p, n, "estender")
      /\ UNCHANGED <<ativa, reserva, bilhete, venda, prometida, furou>>
  BY DEF LerParaEstender
<1>2. /\ Forma(pedido[p]) /\ furou \in BOOLEAN /\ reserva \in [Chaves -> Donos \cup {Loja, Ninguem}]
      /\ pedido[p] \in Pedido /\ Ninguem \notin Numeros
  BY PedidoConhecido, ReservasAssumption
<1>3. x \in Passos /\ f \in SUBSET Numeros /\ a \in Numeros \cup {Ninguem}
  BY <1>2 DEF Pedido, Passos
<1>4. /\ r \in Pedido /\ r.passo = x /\ r.atual = a /\ r.dono = pedido[p].dono
      /\ r.nums = pedido[p].nums /\ r.criadas = pedido[p].criadas /\ r.v = pedido[p].v
  <2> HIDE DEF x, f, a
  <2> QED
    BY <1>3, SegueTipado
<1>5. pedido' = [pedido EXCEPT ![p] = r]
  <2>1. CASE Pertence(p, n) /\ SeguirCom(p, n, "regravar")
    BY <2>1, SegueComNumero
  <2>2. CASE ~Pertence(p, n) /\ Riscar(p, n, "estender")
    BY <2>2 DEF Riscar, Segue
  <2> QED
    BY <1>1, <2>1, <2>2
<1> HIDE DEF r
<1> QED
  BY <1>1, <1>2, <1>4, <1>5, FaseVendaIInv DEF Forma, FaseVenda

LEMMA EstenderIInv == ASSUME IInv, NEW p \in Pedidos, Estender(p) PROVE IInv'
<1> DEFINE n == pedido[p].atual
           r == Segue(p, "estender", pedido[p].faltam \ {n}, Ninguem)
<1>1. /\ pedido[p].passo = "regravar" /\ Gravar(n, pedido[p].dono) /\ Riscar(p, n, "estender")
      /\ furou' = (furou \/ ~Pertence(p, n))
      /\ UNCHANGED <<ativa, bilhete, venda, prometida>>
  BY DEF Estender
<1>2. /\ Forma(pedido[p]) /\ furou \in BOOLEAN /\ pedido[p] \in Pedido /\ pedido[p].dono \in Donos
      /\ n \in Numeros /\ Ninguem \notin Numeros
  BY <1>1, PedidoConhecido, ReservasAssumption DEF Forma
<1>3. /\ r \in Pedido /\ r.passo = "estender"
      /\ r.faltam = pedido[p].faltam \ {n} /\ r.atual = Ninguem /\ r.dono = pedido[p].dono
      /\ r.nums = pedido[p].nums /\ r.criadas = pedido[p].criadas /\ r.v = pedido[p].v
  <2>1. pedido[p].faltam \ {n} \in SUBSET Numeros /\ {"reservar", "estender"} \subseteq Passos
    BY <1>2 DEF Pedido, Passos
  <2> QED
    BY <2>1, SegueTipado
<1>4. pedido' = [pedido EXCEPT ![p] = r]
  BY <1>1 DEF Riscar, Segue
<1>5. /\ reserva' \in [Chaves -> Donos \cup {Loja, Ninguem}]
      /\ ~furou' => reserva' = reserva
  BY <1>1, <1>2, ReservaGravada DEF Pertence
<1> HIDE DEF n, r
<1> QED
  BY <1>1, <1>2, <1>3, <1>4, <1>5, FaseVendaIInv DEF FaseVenda

LEMMA ConcluirCompraIInv == ASSUME IInv, NEW p \in Pedidos, ConcluirCompra(p) PROVE IInv'
<1>1. /\ pedido[p].passo = "estender" /\ pedido' = [pedido EXCEPT ![p] = Ocioso]
      /\ UNCHANGED <<ativa, reserva, bilhete, venda, prometida, furou>>
  BY DEF ConcluirCompra, Encerrar
<1> QED
  BY <1>1, OciosoTipado, PedidoConhecido, FaseVendaIInv DEF FaseVenda
-----------------------------------------------------------------------------
(* What a request asks for, writes and undoes. *)

\* What Repete refuses: the owner has none of the numbers in another request or sale.
LEMMA NaoRepete ==
    ASSUME NEW d, NEW nums, ~Repete(d, nums)
    PROVE  /\ \A q \in Pedidos : pedido[q].dono = d => pedido[q].nums \cap nums = {}
           /\ \A v \in Vendas : venda[v].dono = d => venda[v].sel \cap nums = {}
BY DEF Repete, Contam

\* A request begins, with numbers its owner has nowhere else and no key of them yet.
LEMMA IniciarIInv ==
    ASSUME IInv, NEW p \in Pedidos, NEW r \in Pedido, Forma(r), pedido[p].passo = "ocioso",
           pedido' = [pedido EXCEPT ![p] = r], r.criadas = {}, Obtidos(r) = {},
           r.passo \notin {"reservar", "conferir", "renovar"},
           furou' = (furou \/ Repete(r.dono, r.nums)),
           UNCHANGED <<ativa, reserva, bilhete, venda, prometida>>
    PROVE  IInv'
<1>1. /\ TypeOK' /\ pedido'[p] = r /\ \A q \in Pedidos \ {p} : pedido'[q] = pedido[q]
      /\ \A q \in Pedidos : Forma(pedido[q])'
  BY PedidoTipado DEF IInv, TypeOK, Repete
<1>2. Vendidos' /\ pedido[p].criadas = {}
  BY PedidoConhecido DEF IInv, Vendidos, FaseReserva
<1>3. ASSUME ~furou' PROVE Seguro'
  <2>1. Seguro /\ ~Repete(r.dono, r.nums)
    BY <1>3 DEF IInv
  <2>2. ObtidosSeus'
    <3>1. \A q \in Pedidos : \A n \in Obtidos(pedido'[q]) : reserva[Curta(n)] = pedido'[q].dono
      BY <1>1, <2>1 DEF Seguro, ObtidosSeus
    <3> QED
      BY <3>1 DEF ObtidosSeus, Obtidos
  <2>3. CriadasSemPromessa' /\ ReservandoLivres'
    BY <1>1, <2>1 DEF Seguro, CriadasSemPromessa, ReservandoLivres
  <2>4. EsperandoComReserva' /\ ReservadoNaoVendido' /\ PromessaVale'
    BY <1>3, <2>1 DEF Seguro, EsperandoComReserva, ReservadoNaoVendido, PromessaVale
  <2>5. Disjuntos'
    <3>1. \A q \in Pedidos \ {p} : pedido[q].dono = r.dono => pedido[q].nums \cap r.nums = {}
      BY <2>1, NaoRepete
    <3>2. \A v \in Vendas : venda[v].dono = r.dono => r.nums \cap venda[v].sel = {}
      BY <2>1, NaoRepete
    <3>3. Disjuntos
      BY <2>1 DEF Seguro
    <3>4. \A q, s \in Pedidos : q # s /\ pedido'[q].dono = pedido'[s].dono =>
              pedido'[q].nums \cap pedido'[s].nums = {}
      BY <1>1, <3>1, <3>3 DEF Disjuntos
    <3>5. \A q \in Pedidos, v \in Vendas : pedido'[q].v # v /\ pedido'[q].dono = venda[v].dono =>
              pedido'[q].nums \cap venda[v].sel = {}
      BY <1>1, <3>2, <3>3 DEF Disjuntos
    <3>6. \A v, w \in Vendas : v # w /\ venda'[v].dono = venda'[w].dono /\ venda'[v].dono \in Donos =>
              venda'[v].sel \cap venda'[w].sel = {}
      BY <3>3 DEF Disjuntos
    <3>7. \A q \in Pedidos, v \in Vendas : pedido'[q].v # v /\ pedido'[q].dono = venda'[v].dono =>
              pedido'[q].nums \cap venda'[v].sel = {}
      BY <3>5
    <3> QED
      BY <3>4, <3>6, <3>7 DEF Disjuntos
  <2>6. SemReservaOrfa'
    <3>1. \A q \in Pedidos : pedido[q].criadas # {} => pedido'[q] = pedido[q]
      BY <1>1, <1>2
    <3>2. SemReservaOrfa /\ ~furou
      BY <1>3, <2>1 DEF Seguro
    <3> QED
      BY <3>1, <3>2 DEF SemReservaOrfa
  <2> QED
    BY <2>2, <2>3, <2>4, <2>5, <2>6 DEF Seguro
<1> QED
  BY <1>1, <1>2, <1>3 DEF IInv

LEMMA IniciarReservaIInv ==
    ASSUME IInv, NEW p \in Pedidos, NEW d \in Donos, NEW nums \in SUBSET Numeros,
           IniciarReserva(p, d, nums)
    PROVE  IInv'
<1> DEFINE r == [Ocioso EXCEPT !.passo = "comprados", !.dono = d, !.nums = nums, !.faltam = nums]
<1>1. /\ pedido[p].passo = "ocioso" /\ pedido' = [pedido EXCEPT ![p] = r]
      /\ furou' = (furou \/ Repete(d, nums)) /\ UNCHANGED <<ativa, reserva, bilhete, venda, prometida>>
  BY DEF IniciarReserva
<1>2. /\ r.passo = "comprados" /\ r.dono = d /\ r.nums = nums /\ r.faltam = nums /\ r.criadas = {}
      /\ r.atual = Ninguem /\ r.v = Ninguem /\ r \in Pedido
  BY DEF Ocioso, Pedido, Passos
<1> HIDE DEF r
<1>3. Forma(r) /\ Obtidos(r) = {}
  BY <1>2, ReservasAssumption DEF Forma, FaseReserva, FaseVenda, Obtidos
<1> QED
  BY <1>1, <1>2, <1>3, IniciarIInv

LEMMA IniciarCompraIInv ==
    ASSUME IInv, NEW p \in Pedidos, NEW d \in Donos, NEW nums \in SUBSET Numeros, NEW c \in Chances,
           NEW q \in Quantidades, IniciarCompra(p, d, nums, c, q)
    PROVE  IInv'
<1> DEFINE x == IF nums = {} THEN "criar" ELSE "garantir"
           r == [Ocioso EXCEPT !.passo = x, !.dono = d, !.nums = nums, !.faltam = nums,
                               !.chances = c, !.qtd = q]
<1>1. /\ pedido[p].passo = "ocioso" /\ pedido' = [pedido EXCEPT ![p] = r]
      /\ furou' = (furou \/ Repete(d, nums)) /\ UNCHANGED <<ativa, reserva, bilhete, venda, prometida>>
  BY DEF IniciarCompra
<1>2. /\ r.passo = x /\ r.dono = d /\ r.nums = nums /\ r.faltam = nums /\ r.criadas = {}
      /\ r.atual = Ninguem /\ r.v = Ninguem /\ r \in Pedido
  BY ReservasAssumption DEF Ocioso, Pedido, Passos
<1> HIDE DEF r
<1>3. Forma(r) /\ Obtidos(r) = {}
  BY <1>2, ReservasAssumption DEF Forma, FaseReserva, FaseVenda, Obtidos
<1> QED
  BY <1>1, <1>2, <1>3, IniciarIInv

LEMMA PorChaveIInv == ASSUME IInv, NEW p \in Pedidos, NEW n \in Numeros, PorChave(p, n) PROVE IInv'
<1>1. /\ pedido[p].passo = "reservar" /\ n \in pedido[p].faltam
      /\ UNCHANGED <<ativa, bilhete, venda, prometida, furou>>
  BY DEF PorChave
<1>2. /\ pedido[p] \in Pedido /\ Forma(pedido[p]) /\ furou \in BOOLEAN /\ ativa \in BOOLEAN
      /\ reserva \in [Chaves -> Donos \cup {Loja, Ninguem}] /\ pedido[p].dono \in Donos
      /\ Ninguem \notin Donos /\ (~furou => Seguro)
  BY <1>1, PedidoConhecido, ReservasAssumption DEF Donos
<1>3. CASE SeguirCom(p, n, "conferir") /\ UNCHANGED reserva
  <2> DEFINE r == Segue(p, "conferir", pedido[p].faltam, n)
  <2>1. /\ r \in Pedido /\ pedido' = [pedido EXCEPT ![p] = r] /\ r.passo = "conferir"
        /\ r.faltam = pedido[p].faltam /\ r.atual = n /\ r.dono = pedido[p].dono
        /\ r.nums = pedido[p].nums /\ r.criadas = pedido[p].criadas /\ r.v = pedido[p].v
    <3>1. "conferir" \in Passos /\ pedido[p].faltam \in SUBSET Numeros
      BY <1>2 DEF Pedido, Passos
    <3> QED
      BY <1>3, <3>1, SegueTipado, SegueComNumero
  <2> HIDE DEF r
  <2>2. Forma(r) /\ Obtidos(r) \subseteq Obtidos(pedido[p])
    BY <1>1, <1>2, <2>1 DEF Forma, FaseReserva, FaseVenda, Obtidos
  <2> QED
    BY <1>1, <1>2, <1>3, <2>1, <2>2, PedidoAndaIInv
<1>4. CASE /\ reserva[Curta(n)] = Ninguem /\ Gravar(n, pedido[p].dono)
           /\ pedido' = [pedido EXCEPT ![p].faltam = @ \ {n}, ![p].criadas = @ \cup {n}]
  <2> DEFINE r == [pedido[p] EXCEPT !.faltam = @ \ {n}, !.criadas = @ \cup {n}]
             d == pedido[p].dono
  <2>1. /\ r \in Pedido /\ pedido' = [pedido EXCEPT ![p] = r] /\ r.passo = "reservar"
        /\ r.faltam = pedido[p].faltam \ {n} /\ r.atual = pedido[p].atual /\ r.dono = d
        /\ r.nums = pedido[p].nums /\ r.criadas = pedido[p].criadas \cup {n} /\ r.v = pedido[p].v
    BY <1>1, <1>2, <1>4 DEF Pedido
  <2> HIDE DEF r
  <2>2. Forma(r) /\ Obtidos(r) = Obtidos(pedido[p]) \cup {n}
    BY <1>1, <1>2, <2>1 DEF Forma, FaseReserva, FaseVenda, Obtidos
  <2>3. /\ reserva' \in [Chaves -> Donos \cup {Loja, Ninguem}] /\ reserva'[Curta(n)] = pedido[p].dono
        /\ \A m \in Numeros \ {n} : reserva'[Curta(m)] = reserva[Curta(m)]
    BY <1>2, <1>4, ReservaGravada
  <2>4. /\ TypeOK' /\ pedido'[p] = r /\ \A q \in Pedidos \ {p} : pedido'[q] = pedido[q]
        /\ \A q \in Pedidos : Forma(pedido[q])'
    BY <1>1, <2>1, <2>2, <2>3, PedidoTipado DEF IInv, TypeOK
  <2>5. Vendidos'
    BY <1>1 DEF IInv, Vendidos
  <2>6. ASSUME ~furou PROVE Seguro'
    <3>1. Seguro /\ \A q \in Pedidos : Obtidos(pedido[q]) \subseteq Numeros
      BY <1>2, <2>6 DEF IInv, TypeOK, Pedido, Obtidos
    <3>2. \A q \in Pedidos : n \notin Obtidos(pedido[q]) \/ pedido[q].passo = "ocioso"
      BY <1>2, <1>4, <3>1, PedidoConhecido DEF Seguro, ObtidosSeus
    <3>3. ObtidosSeus'
      <4>1. \A q \in Pedidos \ {p} : \A m \in Obtidos(pedido[q]) : reserva'[Curta(m)] = pedido[q].dono
        BY <2>3, <3>1, <3>2 DEF Seguro, ObtidosSeus, Obtidos, FaseReserva
      <4>2. \A m \in Obtidos(r) : reserva'[Curta(m)] = r.dono
        BY <2>1, <2>2, <2>3, <3>1 DEF Seguro, ObtidosSeus
      <4>3. \A q \in Pedidos : \A m \in Obtidos(pedido'[q]) : reserva'[Curta(m)] = pedido'[q].dono
        BY <2>4, <4>1, <4>2
      <4> QED
        BY <4>3 DEF ObtidosSeus, Obtidos
    <3>4. CriadasSemPromessa'
      <4>1. <<n, pedido[p].dono>> \notin prometida
        BY <1>2, <1>4, <2>6, <3>1 DEF Seguro, PromessaVale
      <4> QED
        BY <1>1, <2>1, <2>4, <3>1, <4>1 DEF Seguro, CriadasSemPromessa
    <3>5. ReservandoLivres'
      BY <1>1, <2>1, <2>4, <3>1 DEF Seguro, ReservandoLivres
    <3>6. EsperandoComReserva'
      BY <1>1, <1>2, <1>4, <2>3, <3>1 DEF Seguro, EsperandoComReserva, IInv, TypeOK, Venda
    <3>7. ReservadoNaoVendido'
      <4>1. bilhete[n] = Ninguem
        BY <1>1, <1>2, <3>1 DEF Seguro, ReservandoLivres, Forma
      <4> QED
        BY <1>1, <2>3, <3>1, <4>1 DEF Seguro, ReservadoNaoVendido
    <3>8. Disjuntos'
      BY <1>1, <2>1, <2>4, <3>1 DEF Seguro, Disjuntos
    <3>9. SemReservaOrfa'
      BY <1>1, <2>1, <2>3, <2>4, <2>6, <3>1 DEF Seguro, SemReservaOrfa
    <3>10. PromessaVale'
      <4>1. \A y \in prometida : y[1] \in Numeros /\ y[2] \in Donos
        BY DEF IInv, TypeOK
      <4> QED
        BY <1>1, <1>2, <1>4, <2>3, <2>6, <3>1, <4>1 DEF Seguro, PromessaVale
    <3> QED
      BY <3>3, <3>4, <3>5, <3>6, <3>7, <3>8, <3>9, <3>10 DEF Seguro
  <2> QED
    BY <1>1, <2>4, <2>5, <2>6 DEF IInv
<1> QED
  BY <1>3, <1>4 DEF PorChave
LEMMA DesfazerReservaIInv == ASSUME IInv, NEW p \in Pedidos, DesfazerReserva(p) PROVE IInv'
<1> DEFINE d == pedido[p].dono
           desfeitas == {Curta(n) : n \in pedido[p].criadas}
<1>1. /\ pedido[p].passo = "desfazer" /\ pedido' = [pedido EXCEPT ![p] = Ocioso]
      /\ reserva' = [k \in Chaves |-> IF k \in desfeitas THEN Ninguem ELSE reserva[k]]
      /\ UNCHANGED <<ativa, bilhete, venda, prometida, furou>>
  BY DEF DesfazerReserva, Encerrar
<1>2. /\ pedido[p] \in Pedido /\ Forma(pedido[p]) /\ furou \in BOOLEAN /\ ativa \in BOOLEAN
      /\ reserva \in [Chaves -> Donos \cup {Loja, Ninguem}] /\ d \in Donos
      /\ Ninguem \notin Donos /\ (~furou => Seguro)
  BY <1>1, PedidoConhecido, ReservasAssumption DEF Donos
<1>3. /\ reserva' \in [Chaves -> Donos \cup {Loja, Ninguem}]
      /\ \A n \in Numeros : reserva'[Curta(n)] = IF n \in pedido[p].criadas THEN Ninguem ELSE reserva[Curta(n)]
  BY <1>1, <1>2, ReservasAssumption DEF Curta, Chaves
<1>4. /\ TypeOK' /\ pedido'[p] = Ocioso /\ \A q \in Pedidos \ {p} : pedido'[q] = pedido[q]
      /\ \A q \in Pedidos : Forma(pedido[q])'
  BY <1>1, <1>3, OciosoTipado, PedidoTipado DEF IInv, TypeOK
<1>5. Vendidos'
  BY <1>1 DEF IInv, Vendidos
<1>6. ASSUME ~furou PROVE Seguro'
  <2>1. /\ Seguro /\ \A q \in Pedidos : Obtidos(pedido[q]) \subseteq pedido[q].nums /\ pedido[q].nums \subseteq Numeros
        /\ \A n \in pedido[p].criadas : n \in pedido[p].nums /\ reserva[Curta(n)] = d
    <3>1. \A q \in Pedidos : pedido[q] \in Pedido /\ Forma(pedido[q])
      BY PedidoConhecido
    <3>2. pedido[p].criadas \subseteq Obtidos(pedido[p])
      BY <1>1, <3>1 DEF Forma, Obtidos, FaseReserva
    <3> QED
      BY <1>2, <1>6, <3>1, <3>2 DEF Seguro, ObtidosSeus, Forma, Obtidos, Pedido
  <2>2. ObtidosSeus'
    <3>1. \A q \in Pedidos \ {p} : \A n \in Obtidos(pedido[q]) : n \notin pedido[p].criadas
      BY <2>1 DEF Seguro, ObtidosSeus, Disjuntos
    <3>2. \A q \in Pedidos : \A n \in Obtidos(pedido'[q]) : reserva'[Curta(n)] = pedido'[q].dono
      BY <1>3, <1>4, <2>1, <3>1, OciosoTipado DEF Seguro, ObtidosSeus
    <3> QED
      BY <3>2 DEF ObtidosSeus, Obtidos
  <2>3. CriadasSemPromessa' /\ ReservandoLivres'
    BY <1>1, <1>4, <2>1, OciosoTipado DEF Seguro, CriadasSemPromessa, ReservandoLivres
  <2>4. EsperandoComReserva'
    <3>1. pedido[p].v \notin Vendas
      BY <1>1, <1>2 DEF Forma, FaseVenda
    <3>2. \A v \in Vendas : venda[v].dono = d => pedido[p].nums \cap venda[v].sel = {}
      BY <2>1, <3>1 DEF Seguro, Disjuntos
    <3>3. \A v \in Vendas : venda[v].sel \subseteq Numeros
      BY DEF IInv, TypeOK, Venda
    <3> QED
      BY <1>1, <1>3, <2>1, <3>2, <3>3 DEF Seguro, EsperandoComReserva
  <2>5. ReservadoNaoVendido'
    BY <1>1, <1>2, <1>3, <2>1 DEF Seguro, ReservadoNaoVendido
  <2>6. Disjuntos'
    BY <1>1, <1>4, <2>1, OciosoTipado DEF Seguro, Disjuntos
  <2>7. SemReservaOrfa'
    <3>1. ASSUME NEW n \in Numeros, NEW e \in Donos, reserva'[Curta(n)] = e, <<n, e>> \notin prometida
          PROVE  \E q \in Pedidos : pedido'[q].dono = e /\ n \in pedido'[q].criadas
      <4>1. n \notin pedido[p].criadas /\ reserva[Curta(n)] = e
        BY <1>2, <1>3, <3>1
      <4>2. PICK q \in Pedidos : pedido[q].dono = e /\ n \in pedido[q].criadas
        BY <1>6, <2>1, <3>1, <4>1 DEF Seguro, SemReservaOrfa
      <4> QED
        BY <1>4, <4>1, <4>2
    <3> QED
      BY <1>1, <3>1 DEF SemReservaOrfa
  <2>8. PromessaVale'
    <3>1. ASSUME NEW y \in prometida PROVE reserva'[Curta(y[1])] = y[2]
      <4>1. y[1] \in Numeros /\ y[2] \in Donos /\ y = <<y[1], y[2]>> /\ reserva[Curta(y[1])] = y[2]
        BY <1>6, <2>1 DEF IInv, TypeOK, Seguro, PromessaVale
      <4>2. y[1] \notin pedido[p].criadas
        BY <2>1, <4>1 DEF Seguro, CriadasSemPromessa
      <4> QED
        BY <1>3, <4>1, <4>2
    <3> QED
      BY <1>1, <3>1 DEF PromessaVale
  <2> QED
    BY <2>2, <2>3, <2>4, <2>5, <2>6, <2>7, <2>8 DEF Seguro
<1> QED
  BY <1>1, <1>4, <1>5, <1>6 DEF IInv

LEMMA ConcluirReservaIInv == ASSUME IInv, NEW p \in Pedidos, ConcluirReserva(p) PROVE IInv'
<1> DEFINE d == pedido[p].dono
           nums == pedido[p].nums
<1>1. /\ pedido[p].passo = "reservar" /\ pedido[p].faltam = {}
      /\ prometida' = prometida \cup (nums \X {d}) /\ pedido' = [pedido EXCEPT ![p] = Ocioso]
      /\ UNCHANGED <<ativa, reserva, bilhete, venda, furou>>
  BY DEF ConcluirReserva, Encerrar
<1>2. /\ pedido[p] \in Pedido /\ Forma(pedido[p]) /\ d \in Donos /\ nums \subseteq Numeros
      /\ (~furou => Seguro)
  BY <1>1, PedidoConhecido DEF Pedido
<1>3. prometida' \subseteq Numeros \X Donos
  BY <1>1, <1>2 DEF IInv, TypeOK
<1>4. /\ TypeOK' /\ pedido'[p] = Ocioso /\ \A q \in Pedidos \ {p} : pedido'[q] = pedido[q]
      /\ \A q \in Pedidos : Forma(pedido[q])'
  BY <1>1, <1>3, OciosoTipado, PedidoTipado DEF IInv, TypeOK
<1>5. Vendidos'
  BY <1>1 DEF IInv, Vendidos
<1>6. ASSUME ~furou PROVE Seguro'
  <2>1. Seguro /\ nums \subseteq Obtidos(pedido[p])
    BY <1>1, <1>2, <1>6 DEF Obtidos, FaseReserva
  <2>2. ObtidosSeus'
    <3>1. \A q \in Pedidos : \A n \in Obtidos(pedido'[q]) : reserva[Curta(n)] = pedido'[q].dono
      BY <1>4, <2>1, OciosoTipado DEF Seguro, ObtidosSeus
    <3> QED
      BY <1>1, <3>1 DEF ObtidosSeus, Obtidos
  <2>3. CriadasSemPromessa'
    <3>1. ASSUME NEW q \in Pedidos \ {p}, NEW n \in pedido[q].criadas
          PROVE  <<n, pedido[q].dono>> \notin prometida'
      <4>1. n \in pedido[q].nums /\ <<n, pedido[q].dono>> \notin prometida
        BY <2>1, PedidoConhecido DEF Forma, Seguro, CriadasSemPromessa
      <4>2. pedido[q].dono = d => n \notin nums
        BY <2>1, <4>1 DEF Seguro, Disjuntos
      <4> QED
        BY <1>1, <4>1, <4>2
    <3> QED
      BY <1>4, <3>1, OciosoTipado DEF CriadasSemPromessa
  <2>4. ReservandoLivres' /\ EsperandoComReserva' /\ ReservadoNaoVendido'
    BY <1>1, <1>4, <2>1, OciosoTipado
    DEF Seguro, ReservandoLivres, EsperandoComReserva, ReservadoNaoVendido
  <2>5. Disjuntos'
    BY <1>1, <1>4, <2>1, OciosoTipado DEF Seguro, Disjuntos
  <2>6. SemReservaOrfa'
    <3>1. ASSUME NEW n \in Numeros, NEW e \in Donos, reserva[Curta(n)] = e, <<n, e>> \notin prometida'
          PROVE  \E q \in Pedidos : pedido'[q].dono = e /\ n \in pedido'[q].criadas
      <4>1. PICK q \in Pedidos : pedido[q].dono = e /\ n \in pedido[q].criadas
        BY <1>1, <1>6, <2>1, <3>1 DEF Seguro, SemReservaOrfa
      <4>2. q # p
        BY <1>1, <1>2, <3>1, <4>1 DEF Forma
      <4> QED
        BY <1>4, <4>1, <4>2
    <3> QED
      BY <1>1, <3>1 DEF SemReservaOrfa
  <2>7. PromessaVale'
    <3>1. ASSUME NEW y \in prometida' PROVE reserva[Curta(y[1])] = y[2]
      <4>1. CASE y \in prometida
        BY <1>6, <2>1, <4>1 DEF Seguro, PromessaVale
      <4>2. CASE y \in nums \X {d}
        BY <2>1, <4>2 DEF Seguro, ObtidosSeus
      <4> QED
        BY <1>1, <4>1, <4>2
    <3> QED
      BY <1>1, <3>1 DEF PromessaVale
  <2> QED
    BY <2>2, <2>3, <2>4, <2>5, <2>6, <2>7 DEF Seguro
<1> QED
  BY <1>1, <1>4, <1>5, <1>6 DEF IInv

-----------------------------------------------------------------------------
(* The keys by themselves, and the edition. *)

\* A key changes hands, or is gone with its promise, without an owner who counts on it.
LEMMA ChaveMudaIInv ==
    ASSUME IInv, NEW k \in Chaves, NEW e \in {Loja, Ninguem}, reserva' = [reserva EXCEPT ![k] = e],
           UNCHANGED <<ativa, bilhete, venda, pedido>>, furou' \in BOOLEAN, furou => furou',
           prometida' \subseteq prometida,
           \A y \in prometida : y \notin prometida' => Curta(y[1]) = k,
           \A y \in prometida' : ~furou' => Curta(y[1]) # k,
           ~furou' => \A q \in Pedidos : k \notin {Curta(n) : n \in pedido[q].criadas},
           ~furou' => reserva[k] \notin Donos \/ reserva[k] \notin Contam(k[1])
    PROVE  IInv'
<1>1. /\ Loja \notin Donos /\ Ninguem \notin Donos /\ TypeOK
      /\ reserva \in [Chaves -> Donos \cup {Loja, Ninguem}]
  BY ReservasAssumption DEF IInv, TypeOK, Donos
<1>2. reserva' \in [Chaves -> Donos \cup {Loja, Ninguem}] /\ prometida' \subseteq Numeros \X Donos
  BY <1>1 DEF TypeOK
<1>3. TypeOK'
  BY <1>1, <1>2 DEF TypeOK
<1>4. (\A q \in Pedidos : Forma(pedido[q])') /\ Vendidos'
  BY DEF IInv, Forma, Vendidos
<1>5. ASSUME ~furou' PROVE Seguro'
  <2>1. Seguro /\ ~furou
    BY <1>1, <1>5 DEF IInv, TypeOK
  <2>2. \A n \in Numeros : \/ Curta(n) # k /\ reserva'[Curta(n)] = reserva[Curta(n)]
                           \/ Curta(n) = k /\ k[1] = n /\ reserva'[Curta(n)] = e
    BY <1>1, ReservasAssumption DEF Curta, Chaves
  <2>3. ASSUME NEW q \in Pedidos, NEW n \in Obtidos(pedido[q]) PROVE reserva'[Curta(n)] = pedido[q].dono
    <3>1. /\ pedido[q] \in Pedido /\ Forma(pedido[q]) /\ n \in pedido[q].nums /\ n \in Numeros
          /\ pedido[q].dono \in Donos /\ reserva[Curta(n)] = pedido[q].dono
      <4>1. pedido[q].passo # "ocioso" /\ n \in pedido[q].nums
        BY PedidoConhecido DEF Obtidos, Forma, FaseReserva
      <4> QED
        BY <2>1, <4>1, PedidoConhecido DEF Seguro, ObtidosSeus, Pedido
    <3>2. pedido[q].dono \in Contam(n)
      BY <3>1 DEF Contam
    <3> QED
      BY <1>5, <2>2, <3>1, <3>2
  <2>4. ObtidosSeus'
    BY <2>3 DEF ObtidosSeus, Obtidos
  <2>5. CriadasSemPromessa' /\ ReservandoLivres' /\ Disjuntos'
    BY <2>1 DEF Seguro, CriadasSemPromessa, ReservandoLivres, Disjuntos
  <2>6. ASSUME NEW v \in Vendas, venda[v].status = "PENDENTE", venda[v].dono \in Donos, NEW n \in venda[v].sel
        PROVE  reserva'[Curta(n)] = venda[v].dono
    <3>1. n \in Numeros /\ reserva[Curta(n)] = venda[v].dono
      BY <1>1, <2>1, <2>6 DEF Seguro, EsperandoComReserva, TypeOK, Venda
    <3>2. venda[v].dono \in Contam(n)
      BY <2>6 DEF Contam
    <3> QED
      BY <1>5, <2>2, <2>6, <3>1, <3>2
  <2>7. EsperandoComReserva'
    BY <2>6 DEF EsperandoComReserva
  <2>8. ReservadoNaoVendido'
    BY <1>1, <2>1, <2>2 DEF Seguro, ReservadoNaoVendido
  <2>9. SemReservaOrfa'
    <3>1. ASSUME NEW n \in Numeros, NEW d \in Donos, reserva'[Curta(n)] = d, <<n, d>> \notin prometida'
          PROVE  \E q \in Pedidos : pedido[q].dono = d /\ n \in pedido[q].criadas
      <4>1. reserva[Curta(n)] = d /\ Curta(n) # k
        BY <1>1, <2>2, <3>1
      <4>2. <<n, d>> \notin prometida
        BY <3>1, <4>1
      <4> QED
        BY <2>1, <4>1, <4>2 DEF Seguro, SemReservaOrfa
    <3> QED
      BY <3>1 DEF SemReservaOrfa
  <2>10. PromessaVale'
    <3>1. ASSUME NEW y \in prometida' PROVE reserva'[Curta(y[1])] = y[2]
      <4>1. y[1] \in Numeros /\ Curta(y[1]) # k /\ reserva[Curta(y[1])] = y[2]
        BY <1>1, <1>5, <2>1 DEF Seguro, PromessaVale, TypeOK
      <4> QED
        BY <2>2, <4>1
    <3> QED
      BY <3>1 DEF PromessaVale
  <2> QED
    BY <2>4, <2>5, <2>7, <2>8, <2>9, <2>10 DEF Seguro
<1> QED
  BY <1>3, <1>4, <1>5 DEF IInv

LEMMA ReservarNaLojaIInv == ASSUME IInv, NEW k \in Chaves, ReservarNaLoja(k) PROVE IInv'
<1>1. /\ reserva' = [reserva EXCEPT ![k] = Loja] /\ furou' = (furou \/ reserva[k] \in Donos)
      /\ UNCHANGED <<ativa, bilhete, venda, pedido, prometida>>
  BY DEF ReservarNaLoja
<1>2. furou' \in BOOLEAN /\ (furou => furou')
  BY <1>1 DEF IInv, TypeOK
<1>3. ASSUME ~furou', NEW y \in prometida' PROVE Curta(y[1]) # k
  BY <1>1, <1>3 DEF IInv, TypeOK, Seguro, PromessaVale
<1>4. ASSUME ~furou', NEW q \in Pedidos PROVE k \notin {Curta(n) : n \in pedido[q].criadas}
  <2>1. /\ pedido[q].criadas \subseteq Obtidos(pedido[q])
        /\ pedido[q].criadas # {} => pedido[q].dono \in Donos
    BY PedidoConhecido DEF Forma, Obtidos, FaseReserva
  <2> QED
    BY <1>1, <1>4, <2>1 DEF IInv, Seguro, ObtidosSeus
<1> QED
  BY <1>1, <1>2, <1>3, <1>4, ChaveMudaIInv

LEMMA ExpirarIInv == ASSUME IInv, NEW k \in Chaves, Expirar(k) PROVE IInv'
<1>1. /\ \A p \in Pedidos : k \notin {Curta(n) : n \in pedido[p].criadas}
      /\ reserva' = [reserva EXCEPT ![k] = Ninguem]
      /\ prometida' = {x \in prometida : Curta(x[1]) # k}
      /\ furou' = (furou \/ (reserva[k] \in Donos /\ reserva[k] \in Contam(k[1])))
      /\ UNCHANGED <<ativa, bilhete, venda, pedido>>
  BY DEF Expirar
<1>2. furou' \in BOOLEAN /\ (furou => furou')
  BY <1>1 DEF IInv, TypeOK
<1> QED
  BY <1>1, <1>2, ChaveMudaIInv

LEMMA AtivaIInv ==
    ASSUME IInv, ativa' \in BOOLEAN, UNCHANGED <<reserva, bilhete, venda, pedido, prometida, furou>>
    PROVE  IInv'
<1>1. TypeOK' /\ (\A p \in Pedidos : Forma(pedido[p])') /\ Vendidos'
  BY DEF IInv, TypeOK, Forma, Vendidos
<1>2. ASSUME ~furou PROVE Seguro'
  <2>1. ObtidosSeus' /\ CriadasSemPromessa' /\ ReservandoLivres' /\ EsperandoComReserva'
    BY <1>2 DEF IInv, Seguro, ObtidosSeus, Obtidos, CriadasSemPromessa, ReservandoLivres, EsperandoComReserva
  <2>2. ReservadoNaoVendido' /\ Disjuntos'
    BY <1>2 DEF IInv, Seguro, ReservadoNaoVendido, Disjuntos
  <2>3. SemReservaOrfa' /\ PromessaVale'
    BY <1>2 DEF IInv, Seguro, SemReservaOrfa, PromessaVale
  <2> QED
    BY <2>1, <2>2, <2>3 DEF Seguro
<1> QED
  BY <1>1, <1>2 DEF IInv
-----------------------------------------------------------------------------
(* The sales. *)

\* A sale that was none begins to wait; request p, or nobody, is its own.
LEMMA VendaNovaIInv ==
    ASSUME IInv, NEW v \in Vendas, NEW l \in Venda, venda[v].status = "nenhuma",
           l.status = "PENDENTE", venda' = [venda EXCEPT ![v] = l],
           pedido' \in [Pedidos -> Pedido], TypeOK', \A q \in Pedidos : Forma(pedido[q])',
           \A q \in Pedidos : /\ pedido'[q].dono = pedido[q].dono /\ pedido'[q].nums = pedido[q].nums
                              /\ pedido'[q].criadas = pedido[q].criadas
                              /\ Obtidos(pedido'[q]) \subseteq Obtidos(pedido[q])
                              /\ pedido'[q].v = v \/ pedido'[q].v = pedido[q].v
                              /\ pedido'[q].passo \in {"reservar", "conferir", "renovar"} =>
                                     pedido'[q].passo = pedido[q].passo,
           ~furou /\ l.dono \in Donos => \A n \in l.sel :
               /\ reserva[Curta(n)] = l.dono
               /\ \A q \in Pedidos : pedido[q].dono = l.dono /\ n \in pedido[q].nums => pedido'[q].v = v
               /\ \A w \in Vendas \ {v} : venda[w].dono = l.dono => n \notin venda[w].sel,
           \A q \in Pedidos : pedido[q].dono \in Donos \/ pedido[q].nums = {},
           \A q \in Pedidos : pedido[q].v # pedido'[q].v => pedido[q].v \notin Vendas,
           UNCHANGED <<reserva, bilhete, prometida, furou>>
    PROVE  IInv'
<1>1. /\ venda'[v] = l /\ \A w \in Vendas \ {v} : venda'[w] = venda[w]
      /\ bilhete \in [Numeros -> Vendas \cup {Ninguem}] /\ Ninguem \notin Vendas
  BY ReservasAssumption DEF IInv, TypeOK
<1>2. \A n \in Numeros : bilhete[n] # v
  BY <1>1 DEF IInv, Vendidos
<1>3. Vendidos'
  BY <1>1, <1>2 DEF IInv, Vendidos
<1>4. ASSUME ~furou PROVE Seguro'
  <2>1. Seguro
    BY <1>4 DEF IInv
  <2>2. ObtidosSeus'
    <3>1. \A q \in Pedidos : \A n \in Obtidos(pedido'[q]) : reserva[Curta(n)] = pedido'[q].dono
      BY <2>1 DEF Seguro, ObtidosSeus
    <3> QED
      BY <3>1 DEF ObtidosSeus, Obtidos
  <2>3. CriadasSemPromessa' /\ ReservandoLivres'
    BY <2>1 DEF Seguro, CriadasSemPromessa, ReservandoLivres
  <2>4. EsperandoComReserva'
    BY <1>1, <1>4, <2>1 DEF Seguro, EsperandoComReserva
  <2>5. ReservadoNaoVendido'
    BY <1>1, <1>2, <2>1 DEF Seguro, ReservadoNaoVendido
  <2>6. Disjuntos'
    <3>1. Disjuntos
      BY <2>1 DEF Seguro
    <3>2. \A q, s \in Pedidos : q # s /\ pedido'[q].dono = pedido'[s].dono =>
              pedido'[q].nums \cap pedido'[s].nums = {}
      BY <3>1 DEF Disjuntos
    <3>3. ASSUME NEW q \in Pedidos, NEW w \in Vendas, pedido'[q].v # w, pedido'[q].dono = venda'[w].dono
          PROVE  pedido'[q].nums \cap venda'[w].sel = {}
      <4>1. CASE w = v
        BY <1>1, <1>4, <3>3, <4>1
      <4>2. CASE w # v
        BY <1>1, <3>1, <3>3, <4>2 DEF Disjuntos
      <4> QED
        BY <4>1, <4>2
    <3>4. \A u, w \in Vendas : u # w /\ venda'[u].dono = venda'[w].dono /\ venda'[u].dono \in Donos =>
              venda'[u].sel \cap venda'[w].sel = {}
      BY <1>1, <1>4, <3>1 DEF Disjuntos
    <3> QED
      BY <3>2, <3>3, <3>4 DEF Disjuntos
  <2>7. SemReservaOrfa' /\ PromessaVale'
    BY <1>4, <2>1 DEF Seguro, SemReservaOrfa, PromessaVale
  <2> QED
    BY <2>2, <2>3, <2>4, <2>5, <2>6, <2>7 DEF Seguro
<1> QED
  BY <1>3, <1>4 DEF IInv

LEMMA CriarVendaIInv == ASSUME IInv, NEW p \in Pedidos, NEW v \in Vendas, CriarVenda(p, v) PROVE IInv'
<1> DEFINE l == [dono |-> pedido[p].dono, status |-> "PENDENTE", sel |-> SelecaoGravada(p),
                 chances |-> pedido[p].chances, qtd |-> pedido[p].qtd]
           r == [pedido[p] EXCEPT !.passo = "cobrar", !.v = v]
<1>1. /\ pedido[p].passo = "criar" /\ venda[v].status = "nenhuma"
      /\ \/ /\ venda' = [venda EXCEPT ![v] = l]
            /\ pedido' = [pedido EXCEPT ![p].passo = "cobrar", ![p].v = v]
         \/ Encerrar(p) /\ UNCHANGED venda
      /\ UNCHANGED <<ativa, reserva, bilhete, prometida, furou>>
  BY DEF CriarVenda
<1>2. /\ pedido[p] \in Pedido /\ Forma(pedido[p]) /\ pedido[p].dono \in Donos /\ pedido[p].criadas = {}
      /\ furou \in BOOLEAN /\ reserva \in [Chaves -> Donos \cup {Loja, Ninguem}] /\ (~furou => Seguro)
      /\ pedido[p].v \notin Vendas /\ pedido[p].faltam = {}
  BY <1>1, PedidoConhecido DEF FaseReserva, FaseVenda, Forma
<1>3. CASE Encerrar(p) /\ UNCHANGED venda
  BY <1>1, <1>2, <1>3, OciosoTipado, PedidoAndaIInv DEF Encerrar
<1>4. CASE /\ venda' = [venda EXCEPT ![v] = l]
           /\ pedido' = [pedido EXCEPT ![p].passo = "cobrar", ![p].v = v]
  <2>1. l \in Venda /\ l.status = "PENDENTE" /\ l.dono = pedido[p].dono /\ l.sel \subseteq pedido[p].nums
    BY <1>2 DEF Venda, Pedido, SelecaoGravada
  <2>2. /\ r \in Pedido /\ pedido' = [pedido EXCEPT ![p] = r] /\ r.passo = "cobrar"
        /\ r.faltam = pedido[p].faltam /\ r.atual = pedido[p].atual /\ r.dono = pedido[p].dono
        /\ r.nums = pedido[p].nums /\ r.criadas = pedido[p].criadas /\ r.v = v
    <3>1. pedido \in [Pedidos -> Pedido]
      BY DEF IInv, TypeOK
    <3>2. pedido' = [pedido EXCEPT ![p] = r]
      BY <1>4, <3>1
    <3> QED
      BY <1>2, <3>2 DEF Pedido, Passos
  <2> HIDE DEF l, r
  <2>3. Forma(r) /\ Obtidos(r) = {}
    BY <1>1, <1>2, <2>2 DEF Forma, FaseReserva, FaseVenda, Obtidos
  <2>4. venda' \in [Vendas -> Venda]
    BY <1>4, <2>1 DEF IInv, TypeOK
  <2>5. /\ TypeOK' /\ pedido'[p] = r /\ \A q \in Pedidos \ {p} : pedido'[q] = pedido[q]
        /\ \A q \in Pedidos : Forma(pedido[q])'
    BY <1>1, <2>2, <2>3, <2>4, PedidoTipado DEF IInv, TypeOK
  <2>6. pedido' \in [Pedidos -> Pedido]
    BY <2>5 DEF TypeOK
  <2>7. ASSUME ~furou, NEW n \in l.sel
        PROVE  /\ reserva[Curta(n)] = l.dono
               /\ \A q \in Pedidos : pedido[q].dono = l.dono /\ n \in pedido[q].nums => pedido'[q].v = v
               /\ \A w \in Vendas \ {v} : venda[w].dono = l.dono => n \notin venda[w].sel
    <3>1. n \in pedido[p].nums /\ n \in Obtidos(pedido[p])
      BY <1>1, <1>2, <2>1, <2>7 DEF Obtidos
    <3>2. reserva[Curta(n)] = l.dono
      BY <1>2, <2>1, <2>7, <3>1 DEF Seguro, ObtidosSeus
    <3>3. \A q \in Pedidos : pedido[q].dono = l.dono /\ n \in pedido[q].nums => pedido'[q].v = v
      BY <1>2, <2>1, <2>2, <2>5, <2>7, <3>1 DEF Seguro, Disjuntos
    <3>4. \A w \in Vendas \ {v} : venda[w].dono = l.dono => n \notin venda[w].sel
      BY <1>2, <2>1, <2>7, <3>1 DEF Seguro, Disjuntos
    <3> QED
      BY <3>2, <3>3, <3>4
  <2>8. \A q \in Pedidos : pedido[q].dono \in Donos \/ pedido[q].nums = {}
    BY OciosoTipado, PedidoConhecido DEF Forma
  <2>9. \A q \in Pedidos : /\ pedido'[q].dono = pedido[q].dono /\ pedido'[q].nums = pedido[q].nums
                           /\ pedido'[q].criadas = pedido[q].criadas
                           /\ Obtidos(pedido'[q]) \subseteq Obtidos(pedido[q])
                           /\ pedido'[q].v = v \/ pedido'[q].v = pedido[q].v
                           /\ pedido'[q].passo \in {"reservar", "conferir", "renovar"} =>
                                  pedido'[q].passo = pedido[q].passo
    BY <2>2, <2>3, <2>5
  <2>10. \A q \in Pedidos : pedido[q].v # pedido'[q].v => pedido[q].v \notin Vendas
    BY <1>2, <2>5
  <2> QED
    BY <1>1, <1>4, <2>1, <2>5, <2>6, <2>7, <2>8, <2>9, <2>10, VendaNovaIInv
<1> QED
  BY <1>1, <1>3, <1>4

LEMMA ComprarNaLojaIInv ==
    ASSUME IInv, NEW v \in Vendas, NEW nums \in SUBSET Numeros, NEW c \in Chances, NEW q \in Quantidades,
           ComprarNaLoja(v, nums, c, q)
    PROVE  IInv'
<1> DEFINE l == [dono |-> Loja, status |-> "PENDENTE", sel |-> nums, chances |-> c, qtd |-> q]
<1>1. /\ venda[v].status = "nenhuma" /\ venda' = [venda EXCEPT ![v] = l]
      /\ UNCHANGED <<ativa, reserva, bilhete, pedido, prometida, furou>>
  BY DEF ComprarNaLoja
<1>2. l \in Venda /\ l.status = "PENDENTE" /\ l.dono \notin Donos
  BY ReservasAssumption DEF Venda, Donos
<1> HIDE DEF l
<1>3. TypeOK' /\ pedido' \in [Pedidos -> Pedido] /\ \A p \in Pedidos : Forma(pedido[p])'
  BY <1>1, <1>2 DEF IInv, TypeOK, Forma
<1>4. \A p \in Pedidos : pedido[p].dono \in Donos \/ pedido[p].nums = {}
  BY OciosoTipado, PedidoConhecido DEF Forma
<1> QED
  BY <1>1, <1>2, <1>3, <1>4, VendaNovaIInv

LEMMA FalharCobrancaIInv == ASSUME IInv, NEW p \in Pedidos, FalharCobranca(p) PROVE IInv'
<1> DEFINE u == pedido[p].v
           l == [venda[u] EXCEPT !.status = "RECUSADO"]
<1>1. /\ pedido[p].passo = "cobrar" /\ venda' = [venda EXCEPT ![u] = l]
      /\ pedido' = [pedido EXCEPT ![p] = Ocioso]
      /\ UNCHANGED <<ativa, reserva, bilhete, prometida, furou>>
  BY DEF FalharCobranca, Encerrar
<1>2. /\ pedido[p] \in Pedido /\ Forma(pedido[p]) /\ pedido[p].criadas = {} /\ u \in Vendas
      /\ (~furou => Seguro)
  BY <1>1, PedidoConhecido DEF FaseReserva, FaseVenda, Forma
<1>3. venda \in [Vendas -> Venda] /\ venda[u] \in Venda
  BY <1>2 DEF IInv, TypeOK
<1>4. l \in Venda /\ l.status = "RECUSADO" /\ l.dono = venda[u].dono /\ l.sel = venda[u].sel
  BY <1>3 DEF Venda
<1> HIDE DEF l
<1>5. /\ venda' \in [Vendas -> Venda]
      /\ \A w \in Vendas : /\ venda'[w].dono = venda[w].dono /\ venda'[w].sel = venda[w].sel
                           /\ venda'[w].status = venda[w].status \/ venda'[w].status = "RECUSADO"
  BY <1>1, <1>3, <1>4
<1>6. /\ TypeOK' /\ pedido'[p] = Ocioso /\ \A q \in Pedidos \ {p} : pedido'[q] = pedido[q]
      /\ \A q \in Pedidos : Forma(pedido[q])'
  BY <1>1, <1>5, OciosoTipado, PedidoTipado DEF IInv, TypeOK
<1>7. Vendidos'
  BY <1>1, <1>5 DEF IInv, Vendidos, TypeOK
<1>8. ASSUME ~furou PROVE Seguro'
  <2>1. Seguro
    BY <1>2, <1>8
  <2>2. ObtidosSeus'
    <3>1. \A q \in Pedidos : \A n \in Obtidos(pedido'[q]) : reserva[Curta(n)] = pedido'[q].dono
      BY <1>6, <2>1, OciosoTipado DEF Seguro, ObtidosSeus
    <3> QED
      BY <1>1, <3>1 DEF ObtidosSeus, Obtidos
  <2>3. CriadasSemPromessa' /\ ReservandoLivres'
    BY <1>1, <1>6, <2>1, OciosoTipado DEF Seguro, CriadasSemPromessa, ReservandoLivres
  <2>4. EsperandoComReserva'
    BY <1>1, <1>5, <2>1 DEF Seguro, EsperandoComReserva
  <2>5. ReservadoNaoVendido'
    BY <1>1, <1>5, <2>1 DEF Seguro, ReservadoNaoVendido, IInv, TypeOK
  <2>6. \A q \in Pedidos : pedido'[q].nums = {} \/ pedido'[q] = pedido[q]
    BY <1>6, OciosoTipado
  <2>7. Disjuntos'
    BY <1>5, <2>1, <2>6 DEF Seguro, Disjuntos
  <2>8. SemReservaOrfa' /\ PromessaVale'
    BY <1>1, <1>2, <1>6, <1>8, <2>1 DEF Seguro, SemReservaOrfa, PromessaVale
  <2> QED
    BY <2>2, <2>3, <2>4, <2>5, <2>7, <2>8 DEF Seguro
<1> QED
  BY <1>1, <1>6, <1>7, <1>8 DEF IInv

\* The commit takes only what is free, and all that was selected or nothing.
LEMMA AlocacaoLivre ==
    ASSUME IInv, NEW v \in Vendas, NEW n \in Alocacao(v)
    PROVE  /\ n \in Numeros /\ bilhete[n] = Ninguem
           /\ venda[v].sel # {} => Alocacao(v) = venda[v].sel
<1>1. CASE venda[v].sel # {}
  BY <1>1 DEF Alocacao, Livre
<1>2. CASE venda[v].sel = {}
  <2>1. n \in GruposPara(v)
    BY <1>2 DEF Alocacao
  <2>2. PICK b \in Bases : Livre(Grupo(b, venda[v].chances)) /\ n \in Grupo(b, venda[v].chances)
    BY <2>1 DEF GruposPara
  <2> QED
    BY <1>2, <2>2 DEF Livre
<1> QED
  BY <1>1, <1>2

LEMMA ConfirmarIInv == ASSUME IInv, NEW v \in Vendas, Confirmar(v) PROVE IInv'
<1> DEFINE l == [venda[v] EXCEPT !.status = "APROVADO"]
           aloc == Alocacao(v)
<1>1. /\ venda[v].status = "PENDENTE" /\ aloc # {}
      /\ bilhete' = [n \in Numeros |-> IF n \in aloc THEN v ELSE bilhete[n]]
      /\ venda' = [venda EXCEPT ![v] = l] /\ furou' = (furou \/ Atropela(v))
      /\ UNCHANGED <<ativa, reserva, pedido, prometida>>
  BY DEF Confirmar
<1>2. /\ \A n \in aloc : n \in Numeros /\ bilhete[n] = Ninguem
      /\ venda[v].sel # {} => aloc = venda[v].sel
  BY <1>1, AlocacaoLivre
<1>3. venda \in [Vendas -> Venda] /\ venda[v] \in Venda /\ TypeOK
  BY DEF IInv, TypeOK
<1>4. l \in Venda /\ l.status = "APROVADO" /\ l.dono = venda[v].dono /\ l.sel = venda[v].sel
  BY <1>3 DEF Venda
<1>5. ASSUME NEW n \in aloc, NEW e \in Donos, venda[v].sel = {} \/ e # venda[v].dono,
             e = reserva[Curta(n)] \/ e \in Contam(n)
      PROVE  Atropela(v)
  <2> DEFINE alheios == IF venda[v].sel = {} THEN Donos ELSE Donos \ {venda[v].dono}
  <2>1. e \in alheios \cap ({reserva[Curta(n)]} \cup Contam(n))
    BY <1>5
  <2>2. \E m \in Alocacao(v) : alheios \cap ({reserva[Curta(m)]} \cup Contam(m)) # {}
    BY <2>1
  <2> QED
    BY <2>2 DEF Atropela
<1> HIDE DEF l, aloc
<1>6. /\ venda' \in [Vendas -> Venda] /\ venda'[v] = l /\ \A w \in Vendas \ {v} : venda'[w] = venda[w]
      /\ bilhete' \in [Numeros -> Vendas \cup {Ninguem}]
      /\ \A n \in Numeros : bilhete'[n] = IF n \in aloc THEN v ELSE bilhete[n]
  BY <1>1, <1>3, <1>4 DEF TypeOK
<1>7. furou' \in BOOLEAN
  BY <1>1, <1>3 DEF TypeOK, Atropela
<1>8. TypeOK' /\ \A p \in Pedidos : Forma(pedido[p])'
  BY <1>1, <1>3, <1>6, <1>7 DEF IInv, TypeOK, Forma
<1>9. Vendidos'
  <2>1. Vendidos /\ Ninguem \notin Vendas /\ \A w \in Vendas : venda[w].sel \subseteq Numeros
    BY <1>3, ReservasAssumption DEF IInv, TypeOK, Venda
  <2>2. \A n \in Numeros : bilhete'[n] # Ninguem => venda'[bilhete'[n]].status \notin {"nenhuma", "PENDENTE"}
    BY <1>3, <1>4, <1>6, <2>1 DEF Vendidos, TypeOK
  <2>3. ASSUME NEW w \in Vendas, venda'[w].status = "APROVADO", NEW n \in venda'[w].sel PROVE bilhete'[n] = w
    <3>1. CASE w = v
      BY <1>2, <1>4, <1>6, <2>1, <2>3, <3>1
    <3>2. CASE w # v
      <4>1. n \in Numeros /\ bilhete[n] = w
        BY <1>6, <2>1, <2>3, <3>2 DEF Vendidos
      <4> QED
        BY <1>2, <1>6, <2>1, <4>1
    <3> QED
      BY <3>1, <3>2
  <2> QED
    BY <2>2, <2>3 DEF Vendidos
<1>10. ASSUME ~furou' PROVE Seguro'
  <2>1. Seguro /\ ~furou /\ ~Atropela(v)
    BY <1>1, <1>3, <1>10 DEF IInv, TypeOK
  <2>2. ObtidosSeus' /\ CriadasSemPromessa'
    BY <1>1, <2>1 DEF Seguro, ObtidosSeus, Obtidos, CriadasSemPromessa
  <2>3. ReservandoLivres'
    <3>1. ASSUME NEW p \in Pedidos, pedido[p].passo \in {"reservar", "conferir", "renovar"},
                 NEW n \in pedido[p].nums
          PROVE  bilhete'[n] = Ninguem
      <4>1. /\ pedido[p].dono \in Donos /\ pedido[p].v # v /\ n \in Numeros
            /\ bilhete[n] = Ninguem
        BY <2>1, <3>1, PedidoConhecido DEF Seguro, ReservandoLivres, Forma, FaseVenda, Pedido
      <4>2. pedido[p].dono \in Contam(n)
        BY <3>1 DEF Contam
      <4>3. pedido[p].dono = venda[v].dono => n \notin venda[v].sel
        BY <2>1, <3>1, <4>1 DEF Seguro, Disjuntos
      <4>4. n \notin aloc
        BY <1>2, <1>5, <2>1, <4>1, <4>2, <4>3
      <4> QED
        BY <1>6, <4>1, <4>4
    <3> QED
      BY <1>1, <3>1 DEF ReservandoLivres
  <2>4. EsperandoComReserva'
    BY <1>1, <1>4, <1>6, <2>1 DEF Seguro, EsperandoComReserva
  <2>5. ReservadoNaoVendido'
    <3>1. ASSUME NEW n \in Numeros, reserva[Curta(n)] \in Donos, bilhete'[n] # Ninguem
          PROVE  venda'[bilhete'[n]].dono = reserva[Curta(n)] /\ n \in venda'[bilhete'[n]].sel
      <4>1. CASE n \in aloc
        BY <1>2, <1>4, <1>5, <1>6, <2>1, <3>1, <4>1
      <4>2. CASE n \notin aloc
        <5>1. /\ bilhete'[n] = bilhete[n] /\ bilhete[n] \in Vendas
              /\ venda[bilhete[n]].dono = reserva[Curta(n)] /\ n \in venda[bilhete[n]].sel
          BY <1>3, <1>6, <2>1, <3>1, <4>2 DEF Seguro, ReservadoNaoVendido, TypeOK
        <5> QED
          BY <1>4, <1>6, <5>1
      <4> QED
        BY <4>1, <4>2
    <3> QED
      BY <1>1, <3>1 DEF ReservadoNaoVendido
  <2>6. \A w \in Vendas : venda'[w].dono = venda[w].dono /\ venda'[w].sel = venda[w].sel
    BY <1>4, <1>6
  <2>7. Disjuntos'
    BY <1>1, <2>1, <2>6 DEF Seguro, Disjuntos
  <2>8. SemReservaOrfa' /\ PromessaVale'
    BY <1>1, <2>1 DEF Seguro, SemReservaOrfa, PromessaVale
  <2> QED
    BY <2>2, <2>3, <2>4, <2>5, <2>7, <2>8 DEF Seguro
<1> QED
  BY <1>8, <1>9, <1>10 DEF IInv

-----------------------------------------------------------------------------
LEMMA PassoIInv == IInv /\ [Next]_vars => IInv'
<1> SUFFICES ASSUME IInv, [Next]_vars PROVE IInv'
  OBVIOUS
<1>1. CASE UNCHANGED vars \/ EncerrarEdicao
  <2>1. ativa' \in BOOLEAN
    BY <1>1 DEF vars, EncerrarEdicao, IInv, TypeOK
  <2> QED
    BY <1>1, <2>1, AtivaIInv DEF vars, EncerrarEdicao
<1>2. ASSUME NEW p \in Pedidos, NEW d \in Donos, NEW nums \in SUBSET Numeros, IniciarReserva(p, d, nums)
      PROVE  IInv'
  BY <1>2, IniciarReservaIInv
<1>3. ASSUME NEW p \in Pedidos,
             \/ LerComprados(p) \/ ConferirChave(p) \/ RenovarChave(p)
             \/ DesfazerReserva(p) \/ ConcluirReserva(p) \/ FalharReserva(p)
      PROVE  IInv'
  BY <1>3, LerCompradosIInv, ConferirChaveIInv, RenovarChaveIInv, DesfazerReservaIInv,
     ConcluirReservaIInv, FalharReservaIInv
<1>4. ASSUME NEW p \in Pedidos, NEW n \in Numeros,
             PorChave(p, n) \/ GarantirReserva(p, n) \/ LerParaEstender(p, n)
      PROVE  IInv'
  BY <1>4, PorChaveIInv, GarantirReservaIInv, LerParaEstenderIInv
<1>5. ASSUME NEW p \in Pedidos, NEW d \in Donos, NEW nums \in SUBSET Numeros, NEW c \in Chances,
             NEW q \in Quantidades, IniciarCompra(p, d, nums, c, q)
      PROVE  IInv'
  BY <1>5, IniciarCompraIInv
<1>6. ASSUME NEW p \in Pedidos, NEW v \in Vendas, CriarVenda(p, v) PROVE IInv'
  BY <1>6, CriarVendaIInv
<1>7. ASSUME NEW p \in Pedidos,
             \/ Cobrar(p) \/ FalharCobranca(p) \/ ListarParaEstender(p) \/ Estender(p)
             \/ ConcluirCompra(p)
      PROVE  IInv'
  BY <1>7, CobrarIInv, FalharCobrancaIInv, ListarIInv, EstenderIInv, ConcluirCompraIInv
<1>8. ASSUME NEW k \in Chaves, ReservarNaLoja(k) \/ Expirar(k) PROVE IInv'
  BY <1>8, ReservarNaLojaIInv, ExpirarIInv
<1>9. ASSUME NEW v \in Vendas, NEW nums \in SUBSET Numeros, NEW c \in Chances, NEW q \in Quantidades,
             ComprarNaLoja(v, nums, c, q)
      PROVE  IInv'
  BY <1>9, ComprarNaLojaIInv
<1>10. ASSUME NEW v \in Vendas, Confirmar(v) PROVE IInv'
  BY <1>10, ConfirmarIInv
<1> QED
  BY <1>1, <1>2, <1>3, <1>4, <1>5, <1>6, <1>7, <1>8, <1>9, <1>10 DEF Next

LEMMA Invariante == Spec => []IInv
<1>1. Init => IInv
  BY InitIInv
<1>2. IInv /\ [Next]_vars => IInv'
  BY PassoIInv
<1> QED
  BY <1>1, <1>2, PTL DEF Spec

\* The keys of reservarCartelas (SET NX, GET and SETEX, DEL of the created ones) are exactly the
\* promises answered 201 and the work in flight, until one of the things that the code lets
\* happen voids a promise: a failure of Redis in the middle, the shop's SETEX over a key, a TTL
\* that ends under a sale, an extension over an undone key, or a commit that asks nobody.
THEOREM ReservaSempreConfere == Spec => []ReservaConfere
<1>1. IInv => ReservaConfere
  BY DEF IInv, Seguro, ReservaConfere, SemReservaOrfa, PromessaVale
<1> QED
  BY <1>1, Invariante, PTL

\* Until then, a sale of POS or WhatsApp that waits for its payment (garantirReservasSelecionadas,
\* then criarVenda) finds every number it selected, not sold and in no other such sale.
THEOREM SelecaoSempreGarantida == Spec => []SelecaoGarantida
<1>1. IInv => SelecaoGarantida
  <2> SUFFICES ASSUME IInv, ~furou, NEW v \in Vendas, venda[v].status = "PENDENTE", venda[v].dono \in Donos,
                      NEW n \in venda[v].sel
               PROVE  /\ bilhete[n] = Ninguem
                      /\ \A w \in Vendas \ {v} :
                             venda[w].dono \in Donos /\ venda[w].status \in {"PENDENTE", "APROVADO"}
                                 => n \notin venda[w].sel
    BY DEF SelecaoGarantida
  <2>1. Seguro /\ n \in Numeros /\ bilhete[n] \in Vendas \cup {Ninguem} /\ reserva[Curta(n)] = venda[v].dono
    BY DEF IInv, TypeOK, Venda, Seguro, EsperandoComReserva
  <2>2. bilhete[n] = Ninguem
    <3> SUFFICES ASSUME bilhete[n] # Ninguem PROVE FALSE
      OBVIOUS
    <3>1. /\ venda[bilhete[n]].dono = venda[v].dono /\ n \in venda[bilhete[n]].sel
          /\ venda[bilhete[n]].status # "PENDENTE"
      BY <2>1 DEF Seguro, ReservadoNaoVendido, IInv, Vendidos
    <3> QED
      BY <2>1, <3>1 DEF Seguro, Disjuntos
  <2>3. ASSUME NEW w \in Vendas \ {v}, venda[w].dono \in Donos, venda[w].status \in {"PENDENTE", "APROVADO"},
               n \in venda[w].sel
        PROVE  FALSE
    <3>1. venda[w].dono # venda[v].dono
      BY <2>1, <2>3 DEF Seguro, Disjuntos
    <3>2. CASE venda[w].status = "PENDENTE"
      BY <2>1, <2>3, <3>1, <3>2 DEF Seguro, EsperandoComReserva
    <3>3. CASE venda[w].status = "APROVADO"
      BY <2>2, <2>3, <3>3, ReservasAssumption DEF IInv, Vendidos
    <3> QED
      BY <2>3, <3>2, <3>3
  <2> QED
    BY <2>2, <2>3
<1> QED
  BY <1>1, Invariante, PTL

-----------------------------------------------------------------------------
(* The rows that the transactions of the sales lock (TravasDeLinha). *)
LinhasTx ==
    Tr!Unicas \cup {Tr!Maquininha, Tr!Vendedor, Tr!Distribuidor, Tr!Linha("Gateway", Nulo)}
        \cup {Tr!Venda(v) : v \in VendasTx}
PassosTx == [op : {"mudar", "inserir", "apagar", "devolver", "estornar"}, linha : LinhasTx]
Transacao == [tipo : {"ocioso", "vender", "confirmar", "cancelar"}, v : VendasTx \cup {Nulo},
              roteiro : Seq(PassosTx), tem : SUBSET LinhasTx, escritas : SUBSET LinhasTx]

\* The place of a row in the order in which a cancellation, or else a sale or a confirmation, locks.
Lugar(modo, r) ==
    IF modo = "cancelar"
    THEN CASE r.tabela = "Vendedor" -> 2 [] r.tabela = "Comissao" -> 3
           [] r.tabela \in {"Maquininha", "Gateway"} -> 4 [] r.tabela = "Venda" -> 5 [] OTHER -> 1
    ELSE CASE r.tabela = "Bilhete" -> 3 [] r.tabela = "Comissao" -> 4 [] r.tabela = "Vendedor" -> 5
           [] r.tabela = "ComissaoDistribuidor" -> 6 [] r.tabela = "Distribuidor" -> 7
           [] r.tabela = "Venda" -> IF r.id \in SenaTx THEN 2 ELSE 8 [] OTHER -> 1
Depois(modo, r, s) ==
    Lugar(modo, r) < Lugar(modo, s) \/ (r.tabela = "Bilhete" /\ s.tabela = "Bilhete")

\* A piece of the script of sale v, in order, whose rows have places from a to b.
Trecho(v, modo, s, a, b) ==
    /\ s \in Seq(PassosTx)
    /\ \A i \in 1 .. Len(s) :
          /\ Lugar(modo, s[i].linha) \in a .. b
          /\ s[i].op = "estornar" => v \notin ManuaisTx
          /\ \A j \in 1 .. Len(s) : i < j => Depois(modo, s[i].linha, s[j].linha)

Modo(x) == IF x.tipo = "cancelar" THEN "cancelar" ELSE "vender"

\* What a transaction has comes before what it has left.
EmOrdem(x) ==
    /\ x.tipo = "ocioso" => x = Tr!Ocioso
    /\ x.tipo # "ocioso" => x.v \in VendasTx
    /\ Trecho(x.v, Modo(x), x.roteiro, 1, 8)
    /\ \A r \in x.tem : \A j \in 1 .. Len(x.roteiro) : Depois(Modo(x), r, x.roteiro[j].linha)
TravasInv == Tr!TypeOK /\ tx \in [PedidosTx -> Transacao] /\ \A p \in PedidosTx : EmOrdem(tx[p])

-----------------------------------------------------------------------------
LEMMA LugarEntre == ASSUME NEW c, NEW r PROVE Lugar(c, r) \in 1 .. 8
  BY DEF Lugar

LEMMA LinhasConhecidas ==
    /\ Tr!Maquininha \in LinhasTx /\ Tr!Vendedor \in LinhasTx /\ Tr!Distribuidor \in LinhasTx
    /\ Tr!Linha("Gateway", Nulo) \in LinhasTx
    /\ \A v \in VendasTx : Tr!Venda(v) \in LinhasTx /\ Tr!Comissao(v) \in LinhasTx /\ Tr!ComissaoDist(v) \in LinhasTx
    /\ \A n \in NumerosTx : Tr!Bilhete(n) \in LinhasTx
    /\ Tr!Unicas \subseteq LinhasTx
  BY DEF LinhasTx, Tr!Unicas

\* The rows and their places, one by one.
LEMMA Lugares ==
    /\ Lugar("cancelar", Tr!Vendedor) = 2 /\ Lugar("cancelar", Tr!Maquininha) = 4
    /\ Lugar("cancelar", Tr!Linha("Gateway", Nulo)) = 4
    /\ Lugar("vender", Tr!Maquininha) = 1 /\ Lugar("vender", Tr!Vendedor) = 5 /\ Lugar("vender", Tr!Distribuidor) = 7
    /\ \A v : /\ Lugar("cancelar", Tr!Comissao(v)) = 3 /\ Lugar("cancelar", Tr!Venda(v)) = 5
              /\ Lugar("vender", Tr!Comissao(v)) = 4 /\ Lugar("vender", Tr!ComissaoDist(v)) = 6
              /\ Lugar("vender", Tr!Venda(v)) = IF v \in SenaTx THEN 2 ELSE 8
  BY DEF Lugar, Tr!Linha, Tr!Maquininha, Tr!Vendedor, Tr!Distribuidor, Tr!Comissao, Tr!ComissaoDist, Tr!Venda

LEMMA LugarDeBilhete ==
    ASSUME NEW c, NEW r, r.tabela = "Bilhete" PROVE Lugar(c, r) = IF c = "cancelar" THEN 1 ELSE 3
  BY DEF Lugar

-----------------------------------------------------------------------------
LEMMA TrechoVazio == ASSUME NEW v, NEW c, NEW a, NEW b PROVE Trecho(v, c, << >>, a, b)
  BY DEF Trecho

LEMMA TrechoUm ==
    ASSUME NEW v, NEW c, NEW a \in Nat, NEW b \in Nat, NEW passo \in PassosTx,
           Lugar(c, passo.linha) \in a .. b, passo.op = "estornar" => v \notin ManuaisTx
    PROVE  Trecho(v, c, <<passo>>, a, b)
<1> DEFINE s == <<passo>>
<1>1. s \in Seq(PassosTx) /\ Len(s) = 1 /\ s[1] = passo
  OBVIOUS
<1> HIDE DEF s
<1>2. \A i \in 1 .. Len(s) : i = 1
  BY <1>1
<1>3. Trecho(v, c, s, a, b)
  BY <1>1, <1>2 DEF Trecho
<1> QED
  BY <1>3 DEF s

\* Two pieces, the second of rows that come after.
LEMMA TrechoJunta ==
    ASSUME NEW v, NEW c, NEW s, NEW t, NEW a \in Nat, NEW b \in Nat, NEW d \in Nat, NEW e \in Nat,
           Trecho(v, c, s, a, b), Trecho(v, c, t, d, e), a <= d, b < d, b <= e
    PROVE  Trecho(v, c, s \o t, a, e)
<1> DEFINE u == s \o t
           m == Len(s)
           n == Len(t)
<1>1. s \in Seq(PassosTx) /\ t \in Seq(PassosTx)
  BY DEF Trecho
<1>2. /\ u \in Seq(PassosTx) /\ m \in Nat /\ n \in Nat /\ Len(u) = m + n
      /\ \A i \in 1 .. m : u[i] = s[i]
      /\ \A i \in 1 .. (m + n) : i > m => u[i] = t[i - m]
  BY <1>1
<1>3. /\ \A i \in 1 .. m : /\ Lugar(c, s[i].linha) \in a .. b
                           /\ s[i].op = "estornar" => v \notin ManuaisTx
                           /\ \A j \in 1 .. m : i < j => Depois(c, s[i].linha, s[j].linha)
      /\ \A i \in 1 .. n : /\ Lugar(c, t[i].linha) \in d .. e
                           /\ t[i].op = "estornar" => v \notin ManuaisTx
                           /\ \A j \in 1 .. n : i < j => Depois(c, t[i].linha, t[j].linha)
  BY DEF Trecho
<1>4. \A i \in 1 .. (m + n) : (i \in 1 .. m) \/ (i > m /\ i - m \in 1 .. n)
  BY <1>2
<1>5. \A i, j \in 1 .. (m + n) : i > m /\ i < j => i - m < j - m /\ j > m /\ i - m \in 1 .. n /\ j - m \in 1 .. n
  BY <1>2
<1> HIDE DEF u, m, n
<1>6. ASSUME NEW i \in 1 .. (m + n)
      PROVE  Lugar(c, u[i].linha) \in a .. e /\ (u[i].op = "estornar" => v \notin ManuaisTx)
  <2>1. CASE i \in 1 .. m
    <3>1. u[i] = s[i] /\ Lugar(c, s[i].linha) \in a .. b
      BY <1>2, <1>3, <2>1
    <3>2. u[i].op = "estornar" => v \notin ManuaisTx
      BY <3>1, <1>3, <2>1
    <3> QED
      BY <3>1, <3>2
  <2>2. CASE i > m /\ i - m \in 1 .. n
    <3>1. u[i] = t[i - m] /\ Lugar(c, t[i - m].linha) \in d .. e
      BY <1>2, <1>3, <2>2
    <3>2. u[i].op = "estornar" => v \notin ManuaisTx
      BY <3>1, <1>3, <2>2
    <3> QED
      BY <3>1, <3>2
  <2> QED
    BY <1>4, <2>1, <2>2
<1>7. ASSUME NEW i \in 1 .. (m + n), NEW j \in 1 .. (m + n), i < j
      PROVE  Depois(c, u[i].linha, u[j].linha)
  <2>1. CASE j \in 1 .. m
    <3>1. i \in 1 .. m
      BY <1>2, <1>7, <2>1
    <3>2. u[i] = s[i] /\ u[j] = s[j] /\ Depois(c, s[i].linha, s[j].linha)
      BY <1>2, <1>3, <1>7, <2>1, <3>1
    <3> QED
      BY <3>2
  <2>2. CASE i > m
    <3>1. /\ j > m /\ i - m \in 1 .. n /\ j - m \in 1 .. n /\ i - m < j - m
      BY <1>5, <1>7, <2>2
    <3>2. u[i] = t[i - m] /\ u[j] = t[j - m]
      BY <1>2, <2>2, <3>1
    <3>3. Depois(c, t[i - m].linha, t[j - m].linha)
      BY <1>3, <3>1
    <3> QED
      BY <3>2, <3>3
  <2>3. CASE i \in 1 .. m /\ j > m /\ j - m \in 1 .. n
    <3>1. u[i] = s[i] /\ Lugar(c, s[i].linha) \in a .. b
      BY <1>2, <1>3, <2>3
    <3>2. u[j] = t[j - m] /\ Lugar(c, t[j - m].linha) \in d .. e
      BY <1>2, <1>3, <2>3
    <3>3. Lugar(c, u[i].linha) < Lugar(c, u[j].linha)
      BY <3>1, <3>2
    <3> QED
      BY <3>3 DEF Depois
  <2> QED
    BY <1>4, <1>7, <2>1, <2>2, <2>3
<1>8. Trecho(v, c, u, a, e)
  BY <1>2, <1>6, <1>7 DEF Trecho
<1> QED
  BY <1>8 DEF u

LEMMA TrechoAlarga ==
    ASSUME NEW v, NEW c, NEW s, NEW a \in Nat, NEW b \in Nat, NEW d \in Nat, NEW e \in Nat,
           Trecho(v, c, s, a, b), d <= a, b <= e
    PROVE  Trecho(v, c, s, d, e)
<1>1. \A i \in 1 .. Len(s) : Lugar(c, s[i].linha) \in a .. b => Lugar(c, s[i].linha) \in d .. e
  OBVIOUS
<1> QED
  BY <1>1 DEF Trecho

-----------------------------------------------------------------------------
(* The scripts are in order. *)
LEMMA TrechoDeBilhetes ==
    ASSUME NEW v, NEW c, NEW n \in Nat, NEW s, s \in [1 .. n -> PassosTx],
           \A i \in 1 .. n : s[i].linha.tabela = "Bilhete" /\ s[i].op # "estornar"
    PROVE  Trecho(v, c, s, IF c = "cancelar" THEN 1 ELSE 3, IF c = "cancelar" THEN 1 ELSE 3)
<1>1. s \in Seq(PassosTx) /\ Len(s) = n
  OBVIOUS
<1>2. \A i \in 1 .. n : Lugar(c, s[i].linha) = IF c = "cancelar" THEN 1 ELSE 3
  BY LugarDeBilhete
<1>3. \A i, j \in 1 .. n : Depois(c, s[i].linha, s[j].linha)
  BY DEF Depois
<1> QED
  BY <1>1, <1>2, <1>3 DEF Trecho

LEMMA PassoTipado ==
    ASSUME NEW op \in {"mudar", "inserir", "apagar", "devolver", "estornar"}, NEW r \in LinhasTx
    PROVE  Tr!Passo(op, r) \in PassosTx /\ Tr!Passo(op, r).op = op /\ Tr!Passo(op, r).linha = r
  BY DEF Tr!Passo, PassosTx

LEMMA TrechoMudar ==
    ASSUME NEW v, NEW c, NEW r \in LinhasTx
    PROVE  \A k \in Nat : Lugar(c, r) = k => Trecho(v, c, Tr!Mudar(r), k, k)
<1>1. Tr!Passo("mudar", r) \in PassosTx /\ Tr!Passo("mudar", r).op = "mudar" /\ Tr!Passo("mudar", r).linha = r
  BY PassoTipado
<1>2. ASSUME NEW k \in Nat, Lugar(c, r) = k PROVE Trecho(v, c, Tr!Mudar(r), k, k)
  BY <1>1, <1>2, TrechoUm DEF Tr!Mudar
<1> QED
  BY <1>2

LEMMA ComissoesEmOrdem ==
    ASSUME NEW v \in VendasTx PROVE Trecho(v, "vender", Tr!Comissoes(v), 4, 7)
<1> DEFINE s == Tr!Comissoes(v)
<1>1. /\ s = <<Tr!Passo("inserir", Tr!Comissao(v)), Tr!Passo("mudar", Tr!Vendedor),
               Tr!Passo("inserir", Tr!ComissaoDist(v)), Tr!Passo("mudar", Tr!Distribuidor)>>
  BY DEF Tr!Comissoes
<1>2. /\ Tr!Passo("inserir", Tr!Comissao(v)) \in PassosTx /\ Tr!Passo("mudar", Tr!Vendedor) \in PassosTx
      /\ Tr!Passo("inserir", Tr!ComissaoDist(v)) \in PassosTx /\ Tr!Passo("mudar", Tr!Distribuidor) \in PassosTx
  BY PassoTipado, LinhasConhecidas
<1>3. s \in Seq(PassosTx) /\ Len(s) = 4
  BY <1>1, <1>2
<1>4. /\ s[1].linha = Tr!Comissao(v) /\ s[2].linha = Tr!Vendedor
      /\ s[3].linha = Tr!ComissaoDist(v) /\ s[4].linha = Tr!Distribuidor
      /\ s[1].op # "estornar" /\ s[2].op # "estornar" /\ s[3].op # "estornar" /\ s[4].op # "estornar"
  BY <1>1 DEF Tr!Passo
<1> HIDE DEF s
<1>5. /\ Lugar("vender", s[1].linha) = 4 /\ Lugar("vender", s[2].linha) = 5
      /\ Lugar("vender", s[3].linha) = 6 /\ Lugar("vender", s[4].linha) = 7
  BY <1>4, Lugares
<1>6. \A i \in 1 .. Len(s) : i = 1 \/ i = 2 \/ i = 3 \/ i = 4
  BY <1>3
<1>7. \A i \in 1 .. Len(s) : Lugar("vender", s[i].linha) = i + 3 /\ s[i].op # "estornar"
  <2> SUFFICES ASSUME NEW i \in 1 .. Len(s) PROVE Lugar("vender", s[i].linha) = i + 3 /\ s[i].op # "estornar"
    OBVIOUS
  <2>1. CASE i = 1
    BY <2>1, <1>4, <1>5
  <2>2. CASE i = 2
    BY <2>2, <1>4, <1>5
  <2>3. CASE i = 3
    BY <2>3, <1>4, <1>5
  <2>4. CASE i = 4
    BY <2>4, <1>4, <1>5
  <2> QED
    BY <1>6, <2>1, <2>2, <2>3, <2>4
<1>8. ASSUME NEW i \in 1 .. Len(s), NEW j \in 1 .. Len(s), i < j PROVE Depois("vender", s[i].linha, s[j].linha)
  <2>1. Lugar("vender", s[i].linha) = i + 3 /\ Lugar("vender", s[j].linha) = j + 3 /\ i \in Int /\ j \in Int
    BY <1>3, <1>7
  <2> QED
    BY <2>1, <1>8 DEF Depois
<1>9. \A i \in 1 .. Len(s) : i + 3 \in 4 .. 7
  BY <1>3
<1>10. Trecho(v, "vender", s, 4, 7)
  BY <1>3, <1>7, <1>8, <1>9 DEF Trecho
<1> QED
  BY <1>10 DEF s

LEMMA BilhetesEmOrdem ==
    ASSUME NEW v \in VendasTx PROVE Trecho(v, "vender", Tr!CriarBilhetes(v), 3, 3)
<1> DEFINE s == Tr!CriarBilhetes(v)
<1>1. EscolhaTx[v] \in Seq(NumerosTx)
  BY TravasAssumption
<1>2. PICK n \in Nat : DOMAIN EscolhaTx[v] = 1 .. n /\ \A i \in 1 .. n : EscolhaTx[v][i] \in NumerosTx
  BY <1>1
<1>3. \A i \in 1 .. n : Tr!Bilhete(EscolhaTx[v][i]) \in LinhasTx
  BY <1>2, LinhasConhecidas
<1>4. s = [i \in 1 .. n |-> Tr!Passo("inserir", Tr!Bilhete(EscolhaTx[v][i]))]
  BY <1>2 DEF Tr!CriarBilhetes
<1>5. \A i \in 1 .. n : /\ Tr!Passo("inserir", Tr!Bilhete(EscolhaTx[v][i])) \in PassosTx
                        /\ s[i] = Tr!Passo("inserir", Tr!Bilhete(EscolhaTx[v][i]))
  BY <1>3, <1>4, PassoTipado
<1>6. s \in [1 .. n -> PassosTx]
  BY <1>4, <1>5
<1>7. \A r : LET x == Tr!Passo("inserir", Tr!Bilhete(r)) IN x.linha.tabela = "Bilhete" /\ x.op = "inserir"
  BY DEF Tr!Passo, Tr!Bilhete, Tr!Linha
<1> HIDE DEF s
<1>8. \A i \in 1 .. n : s[i].linha.tabela = "Bilhete" /\ s[i].op # "estornar"
  BY <1>5, <1>7
<1>9. Trecho(v, "vender", s, 3, 3)
  BY <1>6, <1>8, TrechoDeBilhetes
<1> QED
  BY <1>9 DEF s

LEMMA AprovacaoEmOrdem ==
    ASSUME NEW v \in VendasTx, v \notin SenaTx PROVE Trecho(v, "vender", Tr!Aprovacao(v), 3, 8)
<1> DEFINE s == Tr!CriarBilhetes(v)
           t == Tr!Comissoes(v)
           u == Tr!Mudar(Tr!Venda(v))
<1>1. Trecho(v, "vender", s, 3, 3)
  BY BilhetesEmOrdem
<1>2. Trecho(v, "vender", t, 4, 7)
  BY ComissoesEmOrdem
<1>3. Lugar("vender", Tr!Venda(v)) = 8 /\ Tr!Venda(v) \in LinhasTx
  BY Lugares, LinhasConhecidas
<1>4. Trecho(v, "vender", u, 8, 8)
  BY <1>3, TrechoMudar
<1>5. Tr!Aprovacao(v) = s \o t \o u
  BY DEF Tr!Aprovacao
<1> HIDE DEF s, t, u
<1>6. Trecho(v, "vender", s \o t, 3, 7)
  <2>1. 3 \in Nat /\ 3 \in Nat /\ 4 \in Nat /\ 7 \in Nat /\ 3 <= 4 /\ 3 < 4 /\ 3 <= 7
    OBVIOUS
  <2> QED
    BY <1>1, <1>2, <2>1, TrechoJunta, Zenon
<1>7. Trecho(v, "vender", (s \o t) \o u, 3, 8)
  <2>1. 3 \in Nat /\ 7 \in Nat /\ 8 \in Nat /\ 8 \in Nat /\ 3 <= 8 /\ 7 < 8 /\ 7 <= 8
    OBVIOUS
  <2> QED
    BY <1>4, <1>6, <2>1, TrechoJunta, Zenon
<1> QED
  BY <1>5, <1>7

LEMMA ConfirmacaoEmOrdem ==
    ASSUME NEW v \in VendasTx PROVE Trecho(v, "vender", Tr!Confirmacao(v), 1, 8)
<1>1. CASE v \notin SenaTx
  <2>1. Trecho(v, "vender", Tr!Aprovacao(v), 3, 8)
    BY <1>1, AprovacaoEmOrdem
  <2>2. Trecho(v, "vender", Tr!Aprovacao(v), 1, 8)
    <3>1. 3 \in Nat /\ 8 \in Nat /\ 1 \in Nat /\ 1 <= 3 /\ 8 <= 8
      OBVIOUS
    <3> QED
      BY <2>1, <3>1, TrechoAlarga
  <2> QED
    BY <1>1, <2>2 DEF Tr!Confirmacao
<1>2. CASE v \in SenaTx
  <2> DEFINE u == Tr!Mudar(Tr!Venda(v))
             t == Tr!Comissoes(v)
  <2>1. Trecho(v, "vender", t, 4, 7)
    BY ComissoesEmOrdem
  <2>2. Lugar("vender", Tr!Venda(v)) = 2 /\ Tr!Venda(v) \in LinhasTx
    BY <1>2, Lugares, LinhasConhecidas
  <2>3. Trecho(v, "vender", u, 2, 2)
    BY <2>2, TrechoMudar
  <2>4. Tr!AprovacaoSena(v) = u \o t
    BY DEF Tr!AprovacaoSena
  <2> HIDE DEF u, t
  <2>5. Trecho(v, "vender", u \o t, 2, 7)
    <3>1. 2 \in Nat /\ 2 \in Nat /\ 4 \in Nat /\ 7 \in Nat /\ 2 <= 4 /\ 2 < 4 /\ 2 <= 7
      OBVIOUS
    <3> QED
      BY <2>1, <2>3, <3>1, TrechoJunta, Zenon
  <2>6. Trecho(v, "vender", u \o t, 1, 8)
    <3>1. 2 \in Nat /\ 7 \in Nat /\ 1 \in Nat /\ 8 \in Nat /\ 1 <= 2 /\ 7 <= 8
      OBVIOUS
    <3> QED
      BY <2>5, <3>1, TrechoAlarga
  <2> QED
    BY <1>2, <2>4, <2>6 DEF Tr!Confirmacao
<1> QED
  BY <1>1, <1>2

LEMMA VendaManualEmOrdem ==
    ASSUME NEW v \in VendasTx PROVE Trecho(v, "vender", Tr!VendaManual(v), 1, 8)
<1> DEFINE u == Tr!Mudar(Tr!Maquininha)
           t == IF v \in SenaTx THEN Tr!Comissoes(v) ELSE Tr!Aprovacao(v)
<1>1. Trecho(v, "vender", u, 1, 1)
  BY Lugares, LinhasConhecidas, TrechoMudar
<1>2. Trecho(v, "vender", t, 3, 8)
  <2>1. CASE v \in SenaTx
    <3>1. Trecho(v, "vender", Tr!Comissoes(v), 4, 7)
      BY ComissoesEmOrdem
    <3>2. 4 \in Nat /\ 7 \in Nat /\ 3 \in Nat /\ 8 \in Nat /\ 3 <= 4 /\ 7 <= 8
      OBVIOUS
    <3>3. Trecho(v, "vender", Tr!Comissoes(v), 3, 8)
      BY <3>1, <3>2, TrechoAlarga
    <3> QED
      BY <2>1, <3>3
  <2>2. CASE v \notin SenaTx
    BY <2>2, AprovacaoEmOrdem
  <2> QED
    BY <2>1, <2>2
<1>3. Tr!VendaManual(v) = u \o t
  BY DEF Tr!VendaManual
<1> HIDE DEF u, t
<1>4. Trecho(v, "vender", u \o t, 1, 8)
  <2>1. 1 \in Nat /\ 1 \in Nat /\ 3 \in Nat /\ 8 \in Nat /\ 1 <= 3 /\ 1 < 3 /\ 1 <= 8
    OBVIOUS
  <2> QED
    BY <1>1, <1>2, <2>1, TrechoJunta, Zenon
<1> QED
  BY <1>3, <1>4

LEMMA ContaTravas == \A S : Tr!Cardinality(S) = Cardinality(S)
  BY DEF Tr!Cardinality, Cardinality

\* The tickets that a cancellation has read are rows, finitely many.
LEMMA LidosConhecidos ==
    ASSUME Tr!TypeOK, NEW v
    PROVE  LET lidos == {r \in DOMAIN dono : r.tabela = "Bilhete" /\ dono[r] = v}
           IN  IsFiniteSet(lidos) /\ lidos \subseteq LinhasTx /\ \A r \in lidos : r.tabela = "Bilhete"
<1> DEFINE lidos == {r \in DOMAIN dono : r.tabela = "Bilhete" /\ dono[r] = v}
           bilhetes == {Tr!Bilhete(n) : n \in NumerosTx}
<1>1. DOMAIN dono = Tr!Unicas
  BY DEF Tr!TypeOK
<1>2. \A r \in Tr!Unicas : r.tabela = "Bilhete" => r \in bilhetes
  BY DEF Tr!Unicas, Tr!Bilhete, Tr!Comissao, Tr!ComissaoDist, Tr!Linha
<1>3. lidos \subseteq bilhetes
  BY <1>1, <1>2
<1>4. IsFiniteSet(bilhetes)
  <2> DEFINE f == [n \in NumerosTx |-> Tr!Bilhete(n)]
  <2>1. f \in Surjection(NumerosTx, bilhetes)
    BY DEF Surjection
  <2> QED
    BY <2>1, TravasAssumption, FS_Surjection
<1>5. IsFiniteSet(lidos)
  BY <1>3, <1>4, FS_Subset
<1>6. lidos \subseteq LinhasTx
  BY <1>1, LinhasConhecidas
<1> QED
  BY <1>5, <1>6

LEMMA CancelamentosEmOrdem ==
    ASSUME Tr!TypeOK, NEW v \in VendasTx, NEW roteiro \in Tr!Cancelamentos(v)
    PROVE  Trecho(v, "cancelar", roteiro, 1, 8)
<1> DEFINE lidos == {r \in DOMAIN dono : r.tabela = "Bilhete" /\ dono[r] = v}
           s(ordem) == [i \in DOMAIN ordem |-> Tr!Passo("apagar", ordem[i])]
           t == IF dono[Tr!Comissao(v)] = v
                THEN <<Tr!Passo("mudar", Tr!Vendedor), Tr!Passo("apagar", Tr!Comissao(v))>> ELSE << >>
           w == IF v \in ManuaisTx THEN <<Tr!Passo("devolver", Tr!Maquininha)>>
                ELSE <<Tr!Passo("estornar", Tr!Linha("Gateway", Nulo))>>
           u == Tr!Mudar(Tr!Venda(v))
<1>1. PICK ordem \in Tr!SetToSeqs(lidos) : roteiro = s(ordem) \o t \o w \o u
  BY DEF Tr!Cancelamentos
<1>2. IsFiniteSet(lidos) /\ lidos \subseteq LinhasTx /\ \A r \in lidos : r.tabela = "Bilhete"
  BY LidosConhecidos
<1> HIDE DEF lidos
<1>3. PICK n \in Nat : ordem \in [1 .. n -> lidos]
  <2>1. Cardinality(lidos) \in Nat /\ Tr!Cardinality(lidos) = Cardinality(lidos)
    BY <1>2, FS_CardinalityType, ContaTravas
  <2>2. ordem \in [1 .. Cardinality(lidos) -> lidos]
    BY <2>1 DEF Tr!SetToSeqs
  <2> QED
    BY <2>1, <2>2
<1>4. Trecho(v, "cancelar", s(ordem), 1, 1)
  <2> DEFINE x == s(ordem)
  <2>1. \A i \in 1 .. n : ordem[i] \in LinhasTx /\ ordem[i].tabela = "Bilhete"
    BY <1>2, <1>3
  <2>2. x = [i \in 1 .. n |-> Tr!Passo("apagar", ordem[i])]
    BY <1>3
  <2>3. \A i \in 1 .. n : x[i] \in PassosTx /\ x[i].op = "apagar" /\ x[i].linha = ordem[i]
    BY <2>1, <2>2, PassoTipado
  <2>4. x \in [1 .. n -> PassosTx]
    BY <2>2, <2>3
  <2>5. \A i \in 1 .. n : x[i].linha.tabela = "Bilhete" /\ x[i].op # "estornar"
    BY <2>1, <2>3
  <2> HIDE DEF x
  <2>6. Trecho(v, "cancelar", x, IF "cancelar" = "cancelar" THEN 1 ELSE 3, IF "cancelar" = "cancelar" THEN 1 ELSE 3)
    BY <2>4, <2>5, TrechoDeBilhetes
  <2> QED
    BY <2>6 DEF x
<1>5. Trecho(v, "cancelar", t, 2, 3)
  <2>1. CASE dono[Tr!Comissao(v)] = v
    <3> DEFINE a == Tr!Mudar(Tr!Vendedor)
               b == <<Tr!Passo("apagar", Tr!Comissao(v))>>
    <3>1. Trecho(v, "cancelar", a, 2, 2)
      BY Lugares, LinhasConhecidas, TrechoMudar
    <3>2. /\ Tr!Passo("apagar", Tr!Comissao(v)) \in PassosTx
          /\ Tr!Passo("apagar", Tr!Comissao(v)).op = "apagar"
          /\ Lugar("cancelar", Tr!Passo("apagar", Tr!Comissao(v)).linha) = 3
      BY PassoTipado, LinhasConhecidas, Lugares
    <3>3. Trecho(v, "cancelar", b, 3, 3)
      BY <3>2, TrechoUm
    <3>4. t = a \o b
      BY <2>1 DEF Tr!Mudar
    <3> HIDE DEF a, b, t
    <3>5. 2 \in Nat /\ 2 \in Nat /\ 3 \in Nat /\ 3 \in Nat /\ 2 <= 3 /\ 2 < 3 /\ 2 <= 3
      OBVIOUS
    <3>6. Trecho(v, "cancelar", a \o b, 2, 3)
      BY <3>1, <3>3, <3>5, TrechoJunta, Zenon
    <3> QED
      BY <3>4, <3>6
  <2>2. CASE dono[Tr!Comissao(v)] # v
    BY <2>2, TrechoVazio
  <2> QED
    BY <2>1, <2>2
<1>6. Trecho(v, "cancelar", w, 4, 4)
  <2>1. CASE v \in ManuaisTx
    <3>1. /\ Tr!Passo("devolver", Tr!Maquininha) \in PassosTx
          /\ Tr!Passo("devolver", Tr!Maquininha).op = "devolver"
          /\ Lugar("cancelar", Tr!Passo("devolver", Tr!Maquininha).linha) = 4
      BY PassoTipado, LinhasConhecidas, Lugares
    <3> QED
      BY <2>1, <3>1, TrechoUm
  <2>2. CASE v \notin ManuaisTx
    <3>1. /\ Tr!Passo("estornar", Tr!Linha("Gateway", Nulo)) \in PassosTx
          /\ Lugar("cancelar", Tr!Passo("estornar", Tr!Linha("Gateway", Nulo)).linha) = 4
      BY PassoTipado, LinhasConhecidas, Lugares
    <3> QED
      BY <2>2, <3>1, TrechoUm
  <2> QED
    BY <2>1, <2>2
<1>7. Trecho(v, "cancelar", u, 5, 5)
  BY Lugares, LinhasConhecidas, TrechoMudar
<1> DEFINE x == s(ordem)
<1> HIDE DEF s, t, w, u
<1>8. Trecho(v, "cancelar", x \o t, 1, 3)
  <2>1. 1 \in Nat /\ 1 \in Nat /\ 2 \in Nat /\ 3 \in Nat /\ 1 <= 2 /\ 1 < 2 /\ 1 <= 3
    OBVIOUS
  <2> QED
    BY <1>4, <1>5, <2>1, TrechoJunta, Zenon
<1>9. Trecho(v, "cancelar", (x \o t) \o w, 1, 4)
  <2>1. 1 \in Nat /\ 3 \in Nat /\ 4 \in Nat /\ 4 \in Nat /\ 1 <= 4 /\ 3 < 4 /\ 3 <= 4
    OBVIOUS
  <2> QED
    BY <1>6, <1>8, <2>1, TrechoJunta, Zenon
<1>10. Trecho(v, "cancelar", ((x \o t) \o w) \o u, 1, 5)
  <2>1. 1 \in Nat /\ 4 \in Nat /\ 5 \in Nat /\ 5 \in Nat /\ 1 <= 5 /\ 4 < 5 /\ 4 <= 5
    OBVIOUS
  <2> QED
    BY <1>7, <1>9, <2>1, TrechoJunta, Zenon
<1>11. 1 \in Nat /\ 5 \in Nat /\ 8 \in Nat /\ 1 <= 1 /\ 5 <= 8
  OBVIOUS
<1>12. Trecho(v, "cancelar", ((x \o t) \o w) \o u, 1, 8)
  BY <1>10, <1>11, TrechoAlarga
<1> QED
  BY <1>1, <1>12

-----------------------------------------------------------------------------
(* The steps of the transactions keep them in order. *)
LEMMA OciosoEmOrdem == Tr!Ocioso \in Transacao /\ EmOrdem(Tr!Ocioso)
<1> DEFINE x == Tr!Ocioso
<1>1. /\ x.tipo = "ocioso" /\ x.v = Nulo /\ x.roteiro = << >> /\ x.tem = {} /\ x.escritas = {}
      /\ x = [tipo |-> "ocioso", v |-> Nulo, roteiro |-> << >>, tem |-> {}, escritas |-> {}]
  BY DEF Tr!Ocioso
<1>2. << >> \in Seq(PassosTx)
  OBVIOUS
<1>3. x \in Transacao
  BY <1>1, <1>2 DEF Transacao
<1>4. Trecho(x.v, Modo(x), << >>, 1, 8)
  BY TrechoVazio
<1> QED
  BY <1>1, <1>3, <1>4 DEF EmOrdem

LEMMA TravasInit == Tr!Init => TravasInv
<1> SUFFICES ASSUME Tr!Init PROVE TravasInv
  OBVIOUS
<1>1. /\ status = [v \in VendasTx |-> IF v \in ManuaisTx THEN "nenhuma" ELSE "PENDENTE"]
      /\ dono = [r \in Tr!Unicas |-> Nulo] /\ estornada = {}
      /\ tx = [p \in PedidosTx |-> Tr!Ocioso]
  BY DEF Tr!Init, Tr!TxInicial
<1>2. /\ status \in [VendasTx -> {"nenhuma", "PENDENTE", "APROVADO", "CANCELADO"}]
      /\ dono \in [Tr!Unicas -> VendasTx \cup {Nulo}]
  BY <1>1
<1>3. \A p \in PedidosTx : tx[p] = Tr!Ocioso /\ tx[p].tem = {}
  BY <1>1 DEF Tr!Ocioso
<1>4. Tr!TypeOK
  BY <1>1, <1>2, <1>3 DEF Tr!TypeOK
<1>5. tx \in [PedidosTx -> Transacao]
  BY <1>1, OciosoEmOrdem
<1> QED
  BY <1>3, <1>4, <1>5, OciosoEmOrdem DEF TravasInv

\* One transaction becomes x, which keeps the rows it had or none.
LEMMA UmaAnda ==
    ASSUME TravasInv, NEW p \in PedidosTx, NEW x \in Transacao, EmOrdem(x),
           tx' = [tx EXCEPT ![p] = x],
           \A q \in PedidosTx \ {p} : x.tem \cap tx[q].tem = {},
           status' \in [VendasTx -> {"nenhuma", "PENDENTE", "APROVADO", "CANCELADO"}],
           dono' \in [Tr!Unicas -> VendasTx \cup {Nulo}], estornada' \subseteq VendasTx \ ManuaisTx
    PROVE  TravasInv'
<1>1. /\ tx' \in [PedidosTx -> Transacao] /\ tx'[p] = x
      /\ \A q \in PedidosTx \ {p} : tx'[q] = tx[q]
  BY DEF TravasInv
<1>2. \A q \in PedidosTx : EmOrdem(tx'[q])
  BY <1>1 DEF TravasInv
<1>3. ASSUME NEW q \in PedidosTx, NEW r \in PedidosTx, q # r PROVE tx'[q].tem \cap tx'[r].tem = {}
  <2>1. tx[q].tem \cap tx[r].tem = {}
    BY <1>3 DEF TravasInv, Tr!TypeOK
  <2> QED
    BY <1>1, <1>3, <2>1
<1>4. Tr!TypeOK'
  BY <1>3 DEF Tr!TypeOK
<1> QED
  BY <1>1, <1>2, <1>4 DEF TravasInv

LEMMA IniciarInv ==
    ASSUME TravasInv, NEW p \in PedidosTx, NEW tipo \in {"vender", "confirmar", "cancelar"},
           NEW v \in VendasTx, NEW roteiro,
           Trecho(v, IF tipo = "cancelar" THEN "cancelar" ELSE "vender", roteiro, 1, 8),
           Tr!Iniciar(p, tipo, v, roteiro)
    PROVE  TravasInv'
<1> DEFINE x == [Tr!Ocioso EXCEPT !.tipo = tipo, !.v = v, !.roteiro = roteiro]
<1>1. roteiro \in Seq(PassosTx)
  BY DEF Trecho
<1>2. /\ x.tipo = tipo /\ x.v = v /\ x.roteiro = roteiro /\ x.tem = Tr!Ocioso.tem
      /\ x \in Transacao
  <2>1. Tr!Ocioso \in Transacao
    BY OciosoEmOrdem
  <2>2. x = [Tr!Ocioso EXCEPT !.tipo = tipo, !.v = v, !.roteiro = roteiro]
    OBVIOUS
  <2> HIDE DEF x
  <2> QED
    BY <1>1, <2>1, <2>2 DEF Transacao
<1>3. tx' = [tx EXCEPT ![p] = x] /\ status' = status /\ dono' = dono /\ estornada' = estornada
  BY DEF Tr!Iniciar
<1> HIDE DEF x
<1>4. x.tem = {}
  BY <1>2 DEF Tr!Ocioso
<1>5. Modo(x) = IF tipo = "cancelar" THEN "cancelar" ELSE "vender"
  BY <1>2 DEF Modo
<1>6. tipo # "ocioso"
  OBVIOUS
<1>7. EmOrdem(x)
  BY <1>2, <1>4, <1>5, <1>6 DEF EmOrdem
<1>8. \A q \in PedidosTx \ {p} : x.tem \cap tx[q].tem = {}
  BY <1>4
<1>9. /\ status' \in [VendasTx -> {"nenhuma", "PENDENTE", "APROVADO", "CANCELADO"}]
      /\ dono' \in [Tr!Unicas -> VendasTx \cup {Nulo}] /\ estornada' \subseteq VendasTx \ ManuaisTx
  BY <1>3 DEF TravasInv, Tr!TypeOK
<1> QED
  BY <1>2, <1>3, <1>7, <1>8, <1>9, UmaAnda

LEMMA ExecutarInv == ASSUME TravasInv, NEW p \in PedidosTx, Tr!Executar(p) PROVE TravasInv'
<1> DEFINE y == tx[p]
           s == y.roteiro
           r == Head(s).linha
           op == Head(s).op
           tem == IF Tr!Alcanca(p) THEN y.tem \cup {r} ELSE y.tem
           escritas == IF Tr!Alcanca(p) THEN y.escritas \cup ({r} \cap DOMAIN dono) ELSE y.escritas
           x == [y EXCEPT !.roteiro = Tail(s), !.tem = tem, !.escritas = escritas]
<1>1. /\ y \in Transacao /\ EmOrdem(y) /\ s # << >> /\ status' = status /\ dono' = dono
      /\ \A q \in PedidosTx : ~Tr!Segura(q, p)
      /\ estornada' = IF op = "estornar" THEN estornada \cup {y.v} ELSE estornada
  BY DEF Tr!Executar, Tr!TemTrabalho, Tr!Proxima, TravasInv
<1>2. tx' = [tx EXCEPT ![p].roteiro = Tail(s), ![p].tem = tem, ![p].escritas = escritas]
  BY DEF Tr!Executar, Tr!Proxima
<1>3. /\ y.tipo \in {"ocioso", "vender", "confirmar", "cancelar"} /\ y.v \in VendasTx \cup {Nulo}
      /\ s \in Seq(PassosTx) /\ y.tem \subseteq LinhasTx /\ y.escritas \subseteq LinhasTx
  BY <1>1 DEF Transacao
<1>4. /\ Len(s) \in Nat /\ Len(s) > 0 /\ Head(s) = s[1] /\ s[1] \in PassosTx
      /\ Tail(s) \in Seq(PassosTx) /\ Len(Tail(s)) = Len(s) - 1
      /\ \A i \in 1 .. Len(Tail(s)) : Tail(s)[i] = s[i + 1] /\ i + 1 \in 1 .. Len(s) /\ 1 < i + 1
      /\ 1 \in 1 .. Len(s)
  BY <1>1, <1>3
<1>5. r \in LinhasTx
  BY <1>4 DEF PassosTx
<1>6. tx' = [tx EXCEPT ![p] = x]
  BY <1>2
<1>8. tem \subseteq LinhasTx /\ escritas \subseteq LinhasTx /\ tem \subseteq y.tem \cup {r}
  BY <1>3, <1>5
<1>9. /\ x.tipo = y.tipo /\ x.v = y.v /\ x.roteiro = Tail(s) /\ x.tem = tem /\ x \in Transacao
  <2>1. y \in Transacao /\ Tail(s) \in Seq(PassosTx) /\ tem \in SUBSET LinhasTx /\ escritas \in SUBSET LinhasTx
    BY <1>1, <1>4, <1>8
  <2>2. x = [y EXCEPT !.roteiro = Tail(s), !.tem = tem, !.escritas = escritas]
    OBVIOUS
  <2> HIDE DEF x, y, s, tem, escritas
  <2> QED
    BY <2>1, <2>2 DEF Transacao
<1>10. /\ y.tipo # "ocioso" /\ y.v \in VendasTx
  <2>1. y.tipo = "ocioso" => s = << >>
    BY <1>1 DEF EmOrdem, Tr!Ocioso
  <2> QED
    BY <1>1, <2>1 DEF EmOrdem
<1>11. tem # y.tem => Tr!Alcanca(p)
  OBVIOUS
<1>12. \A q \in PedidosTx \ {p} : x.tem \cap tx[q].tem = {}
  <2> SUFFICES ASSUME NEW q \in PedidosTx \ {p} PROVE tem \cap tx[q].tem = {}
    BY <1>9
  <2>1. y.tem \cap tx[q].tem = {}
    BY DEF TravasInv, Tr!TypeOK
  <2>2. Tr!Alcanca(p) => r \notin tx[q].tem
    BY <1>1 DEF Tr!Segura, Tr!TemTrabalho, Tr!Proxima
  <2> QED
    BY <1>8, <1>11, <2>1, <2>2
<1>13. Modo(x) = Modo(y)
  BY <1>9 DEF Modo
<1>14. EmOrdem(x)
  <2> DEFINE t == Tail(s)
             m == Modo(y)
  <2>1. /\ \A i \in 1 .. Len(s) :
              /\ Lugar(m, s[i].linha) \in 1 .. 8
              /\ s[i].op = "estornar" => y.v \notin ManuaisTx
              /\ \A j \in 1 .. Len(s) : i < j => Depois(m, s[i].linha, s[j].linha)
        /\ \A a \in y.tem : \A j \in 1 .. Len(s) : Depois(m, a, s[j].linha)
    BY <1>1 DEF EmOrdem, Trecho
  <2>2. /\ t \in Seq(PassosTx) /\ Len(t) \in Nat
        /\ \A i \in 1 .. Len(t) : t[i] = s[i + 1] /\ i + 1 \in 1 .. Len(s) /\ 1 < i + 1
        /\ \A i, j \in 1 .. Len(t) : i < j => i + 1 < j + 1
    BY <1>4
  <2>3. r = s[1].linha
    BY <1>4
  <2> HIDE DEF t, m, r, s
  <2>4. Trecho(y.v, m, t, 1, 8)
    BY <2>1, <2>2 DEF Trecho
  <2>5. \A a \in tem : \A j \in 1 .. Len(t) : Depois(m, a, t[j].linha)
    <3>1. \A j \in 1 .. Len(t) : Depois(m, r, t[j].linha)
      BY <1>4, <2>1, <2>2, <2>3
    <3>2. \A a \in y.tem : \A j \in 1 .. Len(t) : Depois(m, a, t[j].linha)
      BY <2>1, <2>2
    <3> QED
      BY <1>8, <3>1, <3>2
  <2> HIDE DEF x, y, tem
  <2>6. x.roteiro = t /\ Modo(x) = m
    BY <1>9, <1>13 DEF t, m
  <2> QED
    BY <1>9, <1>10, <2>4, <2>5, <2>6 DEF EmOrdem
<1>15. estornada' \subseteq VendasTx \ ManuaisTx
  <2>1. op = "estornar" => y.v \notin ManuaisTx
    BY <1>1, <1>4 DEF EmOrdem, Trecho
  <2>2. estornada \subseteq VendasTx \ ManuaisTx
    BY DEF TravasInv, Tr!TypeOK
  <2> QED
    BY <1>1, <1>10, <2>1, <2>2
<1>16. /\ status' \in [VendasTx -> {"nenhuma", "PENDENTE", "APROVADO", "CANCELADO"}]
       /\ dono' \in [Tr!Unicas -> VendasTx \cup {Nulo}]
  BY <1>1 DEF TravasInv, Tr!TypeOK
<1> HIDE DEF x, y
<1> QED
  BY <1>6, <1>9, <1>12, <1>14, <1>15, <1>16, UmaAnda

LEMMA TerminarInv == ASSUME TravasInv, NEW p \in PedidosTx, Tr!Terminar(p) PROVE TravasInv'
<1> DEFINE v == tx[p].v
           s == IF tx[p].tipo = "cancelar" THEN "CANCELADO" ELSE "APROVADO"
           D == [r \in DOMAIN dono |->
                   IF r \in tx[p].escritas THEN IF tx[p].tipo = "cancelar" THEN Nulo ELSE tx[p].v ELSE dono[r]]
<1>1. /\ status' = [status EXCEPT ![v] = s] /\ dono' = D
      /\ tx' = [tx EXCEPT ![p] = Tr!Ocioso] /\ estornada' = estornada
      /\ tx[p].tipo # "ocioso"
  BY DEF Tr!Terminar
<1>2. v \in VendasTx
  BY <1>1 DEF TravasInv, EmOrdem
<1>3. /\ status \in [VendasTx -> {"nenhuma", "PENDENTE", "APROVADO", "CANCELADO"}]
      /\ dono \in [Tr!Unicas -> VendasTx \cup {Nulo}] /\ estornada \subseteq VendasTx \ ManuaisTx
  BY DEF TravasInv, Tr!TypeOK
<1>4. s \in {"nenhuma", "PENDENTE", "APROVADO", "CANCELADO"}
  OBVIOUS
<1>5. status' \in [VendasTx -> {"nenhuma", "PENDENTE", "APROVADO", "CANCELADO"}]
  <2> HIDE DEF v, s
  <2> QED
    BY <1>1, <1>2, <1>3, <1>4
<1>6. D \in [Tr!Unicas -> VendasTx \cup {Nulo}]
  BY <1>2, <1>3
<1>7. Tr!Ocioso.tem = {}
  BY DEF Tr!Ocioso
<1> HIDE DEF D
<1> QED
  BY <1>1, <1>3, <1>5, <1>6, <1>7, OciosoEmOrdem, UmaAnda

LEMMA ReverterInv == ASSUME TravasInv, NEW p \in PedidosTx, Tr!Reverter(p) PROVE TravasInv'
<1>1. tx' = [tx EXCEPT ![p] = Tr!Ocioso] /\ status' = status /\ dono' = dono /\ estornada' = estornada
  BY DEF Tr!Reverter
<1>2. /\ status' \in [VendasTx -> {"nenhuma", "PENDENTE", "APROVADO", "CANCELADO"}]
      /\ dono' \in [Tr!Unicas -> VendasTx \cup {Nulo}] /\ estornada' \subseteq VendasTx \ ManuaisTx
  BY <1>1 DEF TravasInv, Tr!TypeOK
<1>3. Tr!Ocioso.tem = {}
  BY DEF Tr!Ocioso
<1> QED
  BY <1>1, <1>2, <1>3, OciosoEmOrdem, UmaAnda

LEMMA TravasPasso == ASSUME TravasInv, [Tr!Next]_travas PROVE TravasInv'
<1>1. CASE Tr!Next
  <2>1. PICK p \in PedidosTx :
           \/ \E v \in VendasTx : Tr!Vender(p, v) \/ Tr!ConfirmarPagamento(p, v) \/ Tr!Cancelar(p, v)
           \/ Tr!Executar(p) \/ Tr!Terminar(p) \/ Tr!Reverter(p)
    BY <1>1 DEF Tr!Next
  <2>2. ASSUME NEW v \in VendasTx, Tr!Vender(p, v) PROVE TravasInv'
    <3>1. Tr!Iniciar(p, "vender", v, Tr!VendaManual(v))
      BY <2>2 DEF Tr!Vender
    <3>2. Trecho(v, IF "vender" = "cancelar" THEN "cancelar" ELSE "vender", Tr!VendaManual(v), 1, 8)
      BY VendaManualEmOrdem
    <3> QED
      BY <3>1, <3>2, IniciarInv
  <2>3. ASSUME NEW v \in VendasTx, Tr!ConfirmarPagamento(p, v) PROVE TravasInv'
    <3>1. Tr!Iniciar(p, "confirmar", v, Tr!Confirmacao(v))
      BY <2>3 DEF Tr!ConfirmarPagamento
    <3>2. Trecho(v, IF "confirmar" = "cancelar" THEN "cancelar" ELSE "vender", Tr!Confirmacao(v), 1, 8)
      BY ConfirmacaoEmOrdem
    <3> QED
      BY <3>1, <3>2, IniciarInv
  <2>4. ASSUME NEW v \in VendasTx, Tr!Cancelar(p, v) PROVE TravasInv'
    <3>1. PICK roteiro \in Tr!Cancelamentos(v) : Tr!Iniciar(p, "cancelar", v, roteiro)
      BY <2>4 DEF Tr!Cancelar
    <3>2. Tr!TypeOK
      BY DEF TravasInv
    <3>3. Trecho(v, IF "cancelar" = "cancelar" THEN "cancelar" ELSE "vender", roteiro, 1, 8)
      BY <3>2, CancelamentosEmOrdem
    <3> QED
      BY <3>1, <3>3, IniciarInv
  <2> QED
    BY <2>1, <2>2, <2>3, <2>4, ExecutarInv, TerminarInv, ReverterInv
<1>2. CASE UNCHANGED travas
  <2>1. status' = status /\ dono' = dono /\ tx' = tx /\ estornada' = estornada
    BY <1>2 DEF travas
  <2>2. Tr!TypeOK'
    BY <2>1 DEF TravasInv, Tr!TypeOK
  <2> QED
    BY <2>1, <2>2 DEF TravasInv
<1> QED
  BY <1>1, <1>2

-----------------------------------------------------------------------------
(* Who waits for whom. *)
LEMMA OMaisAdiante ==
    ASSUME NEW C, C # {}, NEW L \in [C -> 1 .. 8]
    PROVE  \E p \in C : \A q \in C : L[q] <= L[p]
<1> SUFFICES ASSUME \A p \in C : \E q \in C : L[q] > L[p]
             PROVE  FALSE
  <2>1. \A p, q \in C : ~(L[q] <= L[p]) => L[q] > L[p]
    OBVIOUS
  <2> QED
    BY <2>1
<1>1. \E p \in C : L[p] >= 1
  OBVIOUS
<1>2. \A k \in 1 .. 8 : (\E p \in C : L[p] >= k) => \E p \in C : L[p] >= k + 1
  OBVIOUS
<1>3. \E p \in C : L[p] >= 4
  BY <1>1, <1>2
<1>4. \E p \in C : L[p] >= 8 + 1
  BY <1>2, <1>3
<1> QED
  BY <1>4

LEMMA QuemSegura ==
    ASSUME TravasInv, NEW p \in PedidosTx, NEW q \in PedidosTx, Tr!Segura(q, p), Tr!TemTrabalho(q)
    PROVE  Depois(Modo(tx[q]), Tr!Proxima(p).linha, Tr!Proxima(q).linha)
<1>1. EmOrdem(tx[q]) /\ tx[q] \in Transacao
  BY DEF TravasInv
<1>2. tx[q].roteiro \in Seq(PassosTx) /\ tx[q].roteiro # << >>
  BY <1>1 DEF Transacao, Tr!TemTrabalho
<1>3. 1 \in 1 .. Len(tx[q].roteiro) /\ Tr!Proxima(q) = tx[q].roteiro[1]
  BY <1>2 DEF Tr!Proxima
<1>4. Tr!Proxima(p).linha \in tx[q].tem
  BY DEF Tr!Segura
<1> QED
  BY <1>1, <1>3, <1>4 DEF EmOrdem

LEMMA CicloSoDeUmModo ==
    ASSUME TravasInv, NEW C \in SUBSET PedidosTx, Tr!Ciclo(C), NEW m, \A p \in C : Modo(tx[p]) = m
    PROVE  \A p \in C : Tr!Proxima(p).linha.tabela = "Bilhete"
<1> DEFINE L == [p \in C |-> Lugar(m, Tr!Proxima(p).linha)]
           D == {p \in C : Tr!Proxima(p).linha.tabela = "Bilhete"}
<1>1. /\ C # {} /\ \A p \in C : \E q \in C : Tr!Segura(q, p)
      /\ \A E \in SUBSET C : Tr!Impasse(E) => E = C
  BY DEF Tr!Ciclo, Tr!Impasse
<1>2. \A p \in C : Tr!TemTrabalho(p)
  BY <1>1 DEF Tr!Segura
<1>3. /\ L \in [C -> 1 .. 8] /\ \A p \in C : L[p] = Lugar(m, Tr!Proxima(p).linha)
  BY LugarEntre
<1>4. PICK z \in C : \A p \in C : L[p] <= L[z]
  BY <1>1, <1>3, OMaisAdiante
<1>5. ASSUME NEW p \in C, NEW q \in C, Tr!Segura(q, p)
      PROVE  L[p] < L[q] \/ (p \in D /\ q \in D)
  <2>1. Depois(m, Tr!Proxima(p).linha, Tr!Proxima(q).linha)
    BY <1>2, <1>5, QuemSegura
  <2> QED
    BY <1>3, <2>1 DEF Depois
<1>6. z \in D
  <2>1. PICK q \in C : Tr!Segura(q, z)
    BY <1>1
  <2>2. ~(L[z] < L[q])
    BY <1>3, <1>4
  <2> HIDE DEF D, L
  <2> QED
    BY <1>5, <2>1, <2>2
<1>7. \A p \in D : L[p] = L[z]
  BY <1>3, <1>6, LugarDeBilhete
<1>8. ASSUME NEW p \in D PROVE \E q \in D : Tr!Segura(q, p)
  <2>1. PICK q \in C : Tr!Segura(q, p)
    BY <1>1
  <2>2. p \in C
    OBVIOUS
  <2>3. ~(L[p] < L[q])
    BY <1>3, <1>4, <1>7
  <2> HIDE DEF D, L
  <2> QED
    BY <1>5, <1>8, <2>1, <2>2, <2>3
<1>9. D \in SUBSET C
  OBVIOUS
<1>10. Tr!Impasse(D)
  <2> HIDE DEF D
  <2> QED
    BY <1>6, <1>8 DEF Tr!Impasse
<1>11. D = C
  BY <1>1, <1>9, <1>10
<1> QED
  BY <1>11

LEMMA ModoUm ==
    ASSUME NEW x PROVE /\ x.tipo = "cancelar" => Modo(x) = "cancelar"
                       /\ x.tipo # "cancelar" => Modo(x) = "vender"
  BY DEF Modo

LEMMA ImpassesTemCancelamento == ASSUME TravasInv PROVE Tr!ImpasseTemCancelamento
<1> SUFFICES ASSUME NEW C \in SUBSET Tr!Parados, Tr!Ciclo(C),
                    ~(/\ \E p \in C : tx[p].tipo = "cancelar"
                      /\ \E p \in C : tx[p].tipo # "cancelar")
             PROVE  \A p \in C : Tr!Proxima(p).linha.tabela = "Bilhete"
  BY DEF Tr!ImpasseTemCancelamento
<1>1. C \in SUBSET PedidosTx
  BY DEF Tr!Parados
<1>2. CASE \A p \in C : tx[p].tipo # "cancelar"
  <2>1. \A p \in C : Modo(tx[p]) = "vender"
    BY <1>2, ModoUm
  <2> QED
    BY <1>1, <2>1, CicloSoDeUmModo
<1>3. CASE \A p \in C : tx[p].tipo = "cancelar"
  <2>1. \A p \in C : Modo(tx[p]) = "cancelar"
    BY <1>3, ModoUm
  <2> QED
    BY <1>1, <2>1, CicloSoDeUmModo
<1> QED
  BY <1>2, <1>3

\* The row of a sale of Prêmios is the last of every script.
LEMMA VendaNoFim ==
    ASSUME NEW v, v \notin SenaTx, NEW x, NEW r
    PROVE  ~Depois(Modo(x), Tr!Venda(v), r)
<1>1. Tr!Venda(v).tabela = "Venda" /\ Tr!Venda(v).id = v
  BY DEF Tr!Venda, Tr!Linha
<1>2. CASE x.tipo = "cancelar"
  <2>1. Modo(x) = "cancelar"
    BY <1>2, ModoUm
  <2>2. Lugar("cancelar", Tr!Venda(v)) = 5 /\ Lugar("cancelar", r) \in 1 .. 5
    BY <1>1 DEF Lugar
  <2> QED
    BY <1>1, <2>1, <2>2 DEF Depois
<1>3. CASE x.tipo # "cancelar"
  <2>1. Modo(x) = "vender"
    BY <1>3, ModoUm
  <2>2. Lugar("vender", Tr!Venda(v)) = 8 /\ Lugar("vender", r) \in 1 .. 8
    BY Lugares, LugarEntre
  <2> QED
    BY <1>1, <2>1, <2>2 DEF Depois
<1> QED
  BY <1>2, <1>3

LEMMA EstornosNaoCaem == ASSUME TravasInv PROVE Tr!EstornoDePremiosNaoCai
<1> SUFFICES ASSUME NEW p \in Tr!Parados, tx[p].v \notin SenaTx,
                    Tr!Proxima(p).linha = Tr!Venda(tx[p].v),
                    NEW C \in SUBSET Tr!Parados, p \in C, Tr!Ciclo(C)
             PROVE  FALSE
  BY DEF Tr!EstornoDePremiosNaoCai
<1>1. \A r \in C : \E q \in C : Tr!Segura(q, r)
  BY DEF Tr!Ciclo, Tr!Impasse
<1>2. PICK q \in C : Tr!Segura(q, p)
  BY <1>1
<1>3. Tr!TemTrabalho(q)
  BY <1>1 DEF Tr!Segura
<1>4. p \in PedidosTx /\ q \in PedidosTx
  BY DEF Tr!Parados
<1>5. Depois(Modo(tx[q]), Tr!Venda(tx[p].v), Tr!Proxima(q).linha)
  BY <1>2, <1>3, <1>4, QuemSegura
<1> QED
  BY <1>5, VendaNoFim

LEMMA TravasInvariante == PosseSpec => []TravasInv
<1>1. PosseInit => TravasInv
  BY TravasInit DEF PosseInit
<1>2. TravasInv /\ [PosseNext]_<<vars, travas>> => TravasInv'
  <2> SUFFICES ASSUME TravasInv, [PosseNext]_<<vars, travas>> PROVE TravasInv'
    OBVIOUS
  <2>1. [Tr!Next]_travas
    BY DEF PosseNext
  <2> QED
    BY <2>1, TravasPasso
<1> QED
  BY <1>1, <1>2, PTL DEF PosseSpec

\* Whatever the sales, the tickets and the requests: the transactions that move money close a
\* circle of waits only when a cancellation meets a sale or a confirmation, and the cancellation
\* of a sale of Prêmios that has asked for the refund is in none.
THEOREM ImpassesSempreConhecidos == PosseSpec => []ImpassesConhecidos
<1>1. TravasInv => ImpassesConhecidos
  BY ImpassesTemCancelamento, EstornosNaoCaem DEF ImpassesConhecidos, TravasInv
<1> QED
  BY <1>1, TravasInvariante, PTL
=============================================================================
