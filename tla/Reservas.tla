------------------------------ MODULE Reservas ------------------------------
(***************************************************************************)
(* The reservations of numbers that POS, WhatsApp and shop keep in Redis,  *)
(* under reserva:{edicao}:{numero}, and the sales made from them.          *)
(*                                                                         *)
(* Redis runs one command at a time: each action below is one command, or  *)
(* one query, of a request.  POS and WhatsApp write the number in its      *)
(* short form (BigInt) and keep their owner in the value; the shop writes  *)
(* whatever text the browser sent, often the padded form its own listing   *)
(* shows, and a timestamp.  The commit of a sale, which Vendas details, is *)
(* one step here; edition and channel are fixed, Redis is configured.      *)
(***************************************************************************)
EXTENDS Integers, FiniteSets, Sequences

CONSTANTS
    Numeros,        \* numbers of the edition's range
    Bases,          \* heads of combos: the first chance
    Salto,          \* distance between two chances of a combo
    Chances,        \* chances a combo on sale may have (1: unitary)
    Operadores,     \* POS operators
    Clientes,       \* WhatsApp customers
    Loja,           \* whoever buys or reserves in the shop
    Ninguem,        \* no key, no ticket
    Vendas,         \* sales
    Pedidos,        \* requests that may be in flight at the same time
    Formas,         \* forms of a number in a key: "curta" and, from the shop, "longa"
    Quantidades,    \* combos, or unitary tickets, a customer asks for
    VendasTx, SenaTx, ManuaisTx, NumerosTx, EscolhaTx, PedidosTx, Nulo  \* the constants of TravasDeLinha

ASSUME ReservasAssumption ==
    /\ Bases \subseteq Numeros /\ Numeros \subseteq Nat
    /\ Salto \in Nat /\ Chances \subseteq Nat \ {0} /\ Quantidades \subseteq Nat \ {0}
    /\ Loja # Ninguem /\ Ninguem \notin Numeros \cup Vendas
    /\ {Loja, Ninguem} \cap (Operadores \cup Clientes) = {}
    /\ Operadores \cap Clientes = {}
    /\ {"curta"} \subseteq Formas /\ Formas \subseteq {"curta", "longa"}

\* A sale of Prêmios inserts its tickets in the order in which they were chosen.
ASSUME TravasAssumption ==
    /\ IsFiniteSet(NumerosTx) /\ EscolhaTx \in [VendasTx -> Seq(NumerosTx)]
    /\ ManuaisTx \subseteq VendasTx /\ Nulo \notin VendasTx

VARIABLES
    ativa,      \* the edition is ATIVA
    reserva,    \* reserva[k]: the owner written under key k, or Ninguem
    bilhete,    \* bilhete[n]: the sale that has number n
    venda,      \* venda[v]: the row of sale v
    pedido,     \* pedido[p]: what request p is doing
    prometida,  \* history: <<n, d>> answered 201 to d and not expired since
    furou       \* history: has something happened that voids a promise?

vars == <<ativa, reserva, bilhete, venda, pedido, prometida, furou>>

Donos == Operadores \cup Clientes
Chaves == Numeros \X Formas
Curta(n) == <<n, "curta">>

Grupo(base, chances) == {base + i * Salto : i \in 0..(chances - 1)}

SemVenda == [dono |-> Ninguem, status |-> "nenhuma", sel |-> {}, chances |-> 1, qtd |-> 0]
Ocioso == [passo |-> "ocioso", dono |-> Ninguem, nums |-> {}, faltam |-> {},
           atual |-> Ninguem, criadas |-> {}, v |-> Ninguem, chances |-> 1, qtd |-> 0]

Passos == {"ocioso", "comprados", "reservar", "conferir", "renovar", "desfazer",
           "garantir", "criar", "cobrar", "keys", "estender", "regravar"}

Seguir(p, passo) == pedido' = [pedido EXCEPT ![p].passo = passo]
SeguirCom(p, n, passo) == pedido' = [pedido EXCEPT ![p].passo = passo, ![p].atual = n]
Riscar(p, n, passo) ==
    pedido' = [pedido EXCEPT ![p].passo = passo, ![p].faltam = @ \ {n}, ![p].atual = Ninguem]
Encerrar(p) == pedido' = [pedido EXCEPT ![p] = Ocioso]

Gravar(n, d) == reserva' = [reserva EXCEPT ![Curta(n)] = d]
\* Mutant: any reservation will do.
ExisteChave(p, n) == reserva[Curta(n)] # Ninguem
\* reservaPertenceAoOperador, reservaPertenceAoCliente.
Pertence(p, n) == reserva[Curta(n)] = pedido[p].dono

\* Somebody counts on the reservation of n: a request being served, or a sale
\* that waits for its payment.
Contam(n) == {pedido[p].dono : p \in {q \in Pedidos : n \in pedido[q].nums \cup {pedido[q].atual}}} \cup
             {venda[v].dono : v \in {w \in Vendas : venda[w].status = "PENDENTE" /\ n \in venda[w].sel}}

\* d asks for numbers it has already in hand in another request or sale.
Repete(d, nums) ==
    \E n \in nums : d \in Contam(n)
                    \/ \E v \in Vendas : venda[v].dono = d /\ n \in venda[v].sel

-----------------------------------------------------------------------------
Init ==
    /\ ativa = TRUE
    /\ reserva = [k \in Chaves |-> Ninguem]
    /\ bilhete = [n \in Numeros |-> Ninguem]
    /\ venda = [v \in Vendas |-> SemVenda]
    /\ pedido = [p \in Pedidos |-> Ocioso]
    /\ prometida = {} /\ furou = FALSE

EncerrarEdicao ==
    /\ ativa /\ ativa' = FALSE
    /\ UNCHANGED <<reserva, bilhete, venda, pedido, prometida, furou>>

\* reservarCartelas of POS and WhatsApp: the edition is active; whatever text came,
\* the numbers are normalised and not repeated.
IniciarReserva(p, d, nums) ==
    /\ pedido[p].passo = "ocioso" /\ ativa /\ nums # {}
    /\ pedido' = [pedido EXCEPT ![p] =
           [Ocioso EXCEPT !.passo = "comprados", !.dono = d, !.nums = nums, !.faltam = nums]]
    /\ furou' = (furou \/ Repete(d, nums))
    /\ UNCHANGED <<ativa, reserva, bilhete, venda, prometida>>

\* bilhete.findMany: 409 (POS) or 400 (WhatsApp) when one of them is sold.
LerComprados(p) ==
    /\ pedido[p].passo = "comprados"
    /\ IF \A n \in pedido[p].nums : bilhete[n] = Ninguem
       THEN Seguir(p, "reservar") ELSE Encerrar(p)
    /\ UNCHANGED <<ativa, reserva, bilhete, venda, prometida, furou>>

\* Mutant: SET without NX, as the shop does.
PorSempre(p, n) ==
    /\ pedido[p].passo = "reservar" /\ n \in pedido[p].faltam
    /\ Gravar(n, pedido[p].dono)
    /\ pedido' = [pedido EXCEPT ![p].faltam = @ \ {n}, ![p].criadas = @ \cup {n}]
    /\ UNCHANGED <<ativa, bilhete, venda, prometida, furou>>
\* SET key value EX ttl NX: the next number of the list.
PorChave(p, n) ==
    /\ pedido[p].passo = "reservar" /\ n \in pedido[p].faltam
    /\ IF reserva[Curta(n)] = Ninguem
       THEN /\ Gravar(n, pedido[p].dono)
            /\ pedido' = [pedido EXCEPT ![p].faltam = @ \ {n}, ![p].criadas = @ \cup {n}]
       ELSE SeguirCom(p, n, "conferir") /\ UNCHANGED reserva
    /\ UNCHANGED <<ativa, bilhete, venda, prometida, furou>>

\* GET: a key of the same owner is renewed, any other answer refuses.
ConferirChave(p) ==
    /\ pedido[p].passo = "conferir"
    /\ IF Pertence(p, pedido[p].atual)
       THEN Seguir(p, "renovar") ELSE SeguirCom(p, Ninguem, "desfazer")
    /\ UNCHANGED <<ativa, reserva, bilhete, venda, prometida, furou>>

\* SETEX, on whatever the key holds by now.
RenovarChave(p) ==
    /\ pedido[p].passo = "renovar"
    /\ Gravar(pedido[p].atual, pedido[p].dono)
    /\ Riscar(p, pedido[p].atual, "reservar")
    /\ UNCHANGED <<ativa, bilhete, venda, prometida, furou>>

\* DEL of the keys this request created; the renewed ones stay.  409.
DesfazerReserva(p) ==
    /\ pedido[p].passo = "desfazer"
    /\ reserva' = [k \in Chaves |-> IF k \in {Curta(n) : n \in pedido[p].criadas}
                                    THEN Ninguem ELSE reserva[k]]
    /\ Encerrar(p)
    /\ UNCHANGED <<ativa, bilhete, venda, prometida, furou>>

\* 201: the numbers are held for POS_RESERVA_TTL_SEGUNDOS.
ConcluirReserva(p) ==
    /\ pedido[p].passo = "reservar" /\ pedido[p].faltam = {}
    /\ prometida' = prometida \cup (pedido[p].nums \X {pedido[p].dono})
    /\ Encerrar(p)
    /\ UNCHANGED <<ativa, reserva, bilhete, venda, furou>>

\* Redis fails in the middle: nothing catches the error, the keys stay.
FalharReserva(p) ==
    /\ pedido[p].passo \in {"reservar", "conferir", "renovar", "desfazer"}
    /\ Encerrar(p)
    /\ furou' = TRUE
    /\ UNCHANGED <<ativa, reserva, bilhete, venda, prometida>>

\* The shop: SETEX of the text as it came, without NX and without an owner.  Its
\* own check of the sold numbers is a query before, like LerComprados.
ReservarNaLoja(k) ==
    /\ ativa /\ bilhete[k[1]] = Ninguem
    /\ reserva' = [reserva EXCEPT ![k] = Loja]
    /\ furou' = (furou \/ reserva[k] \in Donos)
    /\ UNCHANGED <<ativa, bilhete, venda, pedido, prometida>>

\* A key reaches its TTL.  A request takes far less than a TTL, so a key that a
\* request in flight has just written does not expire under it.
Expirar(k) ==
    /\ reserva[k] # Ninguem
    /\ \A p \in Pedidos : k \notin {Curta(n) : n \in pedido[p].criadas}
    /\ reserva' = [reserva EXCEPT ![k] = Ninguem]
    /\ prometida' = {x \in prometida : Curta(x[1]) # k}
    /\ furou' = (furou \/ (reserva[k] \in Donos /\ reserva[k] \in Contam(k[1])))
    /\ UNCHANGED <<ativa, bilhete, venda, pedido>>

-----------------------------------------------------------------------------
\* POS criarVenda and WhatsApp criarPedidoComPix.  With no selection nothing is
\* asked of Redis.  POS buys q unitary tickets, or q combos whose heads it picked;
\* WhatsApp never compares the quantity with the selection.
IniciarCompra(p, d, nums, c, q) ==
    /\ pedido[p].passo = "ocioso"
    /\ d \in Clientes => ativa
    /\ (d \in Operadores /\ c = 1 /\ nums # {}) => Cardinality(nums) = q
    /\ c > 1 => nums \subseteq Bases
    /\ pedido' = [pedido EXCEPT ![p] =
           [Ocioso EXCEPT !.passo = IF nums = {} THEN "criar" ELSE "garantir",
                          !.dono = d, !.nums = nums, !.faltam = nums,
                          !.chances = c, !.qtd = q]]
    /\ furou' = (furou \/ Repete(d, nums))
    /\ UNCHANGED <<ativa, reserva, bilhete, venda, prometida>>

\* garantirReservasSelecionadas: GET of each key; 409 unless it is the owner's.
GarantirReserva(p, n) ==
    /\ pedido[p].passo = "garantir" /\ n \in pedido[p].faltam
    /\ IF Pertence(p, n)
       THEN Riscar(p, n, IF pedido[p].faltam = {n} THEN "criar" ELSE "garantir")
       ELSE Encerrar(p)
    /\ UNCHANGED <<ativa, reserva, bilhete, venda, prometida, furou>>

\* What the sale keeps of the selection: VendasService.create saves
\* cartelasSelecionadas and never looks at combosSelecionados; WhatsApp saves the
\* numeroBase of each combo.
SelecaoGravada(p) ==
    IF pedido[p].dono \in Operadores /\ pedido[p].chances > 1 THEN {} ELSE pedido[p].nums

\* The row is written PENDENTE.  VendasService.create reads the edition now, 400
\* unless active; WhatsApp has read it before the reservations.
CriarVenda(p, v) ==
    /\ pedido[p].passo = "criar" /\ venda[v].status = "nenhuma"
    /\ IF ativa \/ pedido[p].dono \in Clientes
       THEN /\ venda' = [venda EXCEPT ![v] =
                   [dono |-> pedido[p].dono, status |-> "PENDENTE", sel |-> SelecaoGravada(p),
                    chances |-> pedido[p].chances, qtd |-> pedido[p].qtd]]
            /\ pedido' = [pedido EXCEPT ![p].passo = "cobrar", ![p].v = v]
       ELSE Encerrar(p) /\ UNCHANGED venda
    /\ UNCHANGED <<ativa, reserva, bilhete, prometida, furou>>

\* The gateway charges; when it fails the sale is RECUSADO and the reservation is
\* left to expire.
Cobrar(p) ==
    /\ pedido[p].passo = "cobrar"
    /\ IF pedido[p].nums = {} THEN Encerrar(p) ELSE Seguir(p, "keys")
    /\ UNCHANGED <<ativa, reserva, bilhete, venda, prometida, furou>>

FalharCobranca(p) ==
    /\ pedido[p].passo = "cobrar"
    /\ venda' = [venda EXCEPT ![pedido[p].v].status = "RECUSADO"]
    /\ Encerrar(p)
    /\ UNCHANGED <<ativa, reserva, bilhete, prometida, furou>>

\* estenderReservas: POS visits every key of the edition, WhatsApp the ones picked.
ListarParaEstender(p) ==
    /\ pedido[p].passo = "keys"
    /\ pedido' = [pedido EXCEPT ![p].passo = "estender",
           ![p].faltam = IF pedido[p].dono \in Operadores
                         THEN {n \in Numeros : reserva[Curta(n)] # Ninguem}
                         ELSE pedido[p].nums]
    /\ UNCHANGED <<ativa, reserva, bilhete, venda, prometida, furou>>

\* GET, and SETEX with the long TTL when the key is still the owner's.
LerParaEstender(p, n) ==
    /\ pedido[p].passo = "estender" /\ n \in pedido[p].faltam
    /\ IF Pertence(p, n) THEN SeguirCom(p, n, "regravar") ELSE Riscar(p, n, "estender")
    /\ UNCHANGED <<ativa, reserva, bilhete, venda, prometida, furou>>

\* A POS visits what another of its requests holds too: that one may have been refused, and
\* its keys undone, since the GET.
Estender(p) ==
    /\ pedido[p].passo = "regravar"
    /\ Gravar(pedido[p].atual, pedido[p].dono)
    /\ Riscar(p, pedido[p].atual, "estender")
    /\ furou' = (furou \/ ~Pertence(p, pedido[p].atual))
    /\ UNCHANGED <<ativa, bilhete, venda, prometida>>

ConcluirCompra(p) ==
    /\ pedido[p].passo = "estender" /\ pedido[p].faltam = {}
    /\ Encerrar(p)
    /\ UNCHANGED <<ativa, reserva, bilhete, venda, prometida, furou>>

\* The shop's comprar: one unitary ticket or combos, with or without a selection,
\* never compared with Redis.
ComprarNaLoja(v, nums, c, q) ==
    /\ ativa /\ venda[v].status = "nenhuma"
    /\ nums # {} => c = 1 /\ Cardinality(nums) = q
    /\ venda' = [venda EXCEPT ![v] = [dono |-> Loja, status |-> "PENDENTE", sel |-> nums,
                                      chances |-> c, qtd |-> q]]
    /\ UNCHANGED <<ativa, reserva, bilhete, pedido, prometida, furou>>

-----------------------------------------------------------------------------
Livre(nums) == \A n \in nums : n \in Numeros /\ bilhete[n] = Ninguem

\* Groups that are free whole, taken from the lowest head on; Redis is not asked.
GruposPara(v) ==
    LET livres == {b \in Bases : Livre(Grupo(b, venda[v].chances))}
        tomados == {b \in livres : Cardinality({a \in livres : a <= b}) <= venda[v].qtd}
    IN  IF Cardinality(tomados) < venda[v].qtd THEN {}
        ELSE UNION {Grupo(b, venda[v].chances) : b \in tomados}

\* alocarBilhetes: with a selection, exactly the saved numbers; else whole groups.
Alocacao(v) ==
    IF venda[v].sel # {} THEN {n \in venda[v].sel : Livre(venda[v].sel)} ELSE GruposPara(v)

\* v takes a number on whose reservation somebody else counts, or its own owner in
\* another sale.
Atropela(v) ==
    LET alheios == IF venda[v].sel = {} THEN Donos ELSE Donos \ {venda[v].dono}
    IN  \E n \in Alocacao(v) : alheios \cap ({reserva[Curta(n)]} \cup Contam(n)) # {}

\* The payment arrives and the sale's transaction commits.  Without numbers the
\* transaction is undone and the sale stays PENDENTE.
Confirmar(v) ==
    /\ venda[v].status = "PENDENTE" /\ Alocacao(v) # {}
    /\ bilhete' = [n \in Numeros |-> IF n \in Alocacao(v) THEN v ELSE bilhete[n]]
    /\ venda' = [venda EXCEPT ![v].status = "APROVADO"]
    /\ furou' = (furou \/ Atropela(v))
    /\ UNCHANGED <<ativa, reserva, pedido, prometida>>

Next ==
    \/ EncerrarEdicao
    \/ \E p \in Pedidos :
         \/ \E d \in Donos, nums \in SUBSET Numeros : IniciarReserva(p, d, nums)
         \/ LerComprados(p) \/ ConferirChave(p) \/ RenovarChave(p)
         \/ DesfazerReserva(p) \/ ConcluirReserva(p) \/ FalharReserva(p)
         \/ \E n \in Numeros : PorChave(p, n) \/ GarantirReserva(p, n) \/ LerParaEstender(p, n)
         \/ \E d \in Donos, nums \in SUBSET Numeros, c \in Chances, q \in Quantidades :
              IniciarCompra(p, d, nums, c, q)
         \/ \E v \in Vendas : CriarVenda(p, v)
         \/ Cobrar(p) \/ FalharCobranca(p) \/ ListarParaEstender(p) \/ Estender(p)
         \/ ConcluirCompra(p)
    \/ \E k \in Chaves : ReservarNaLoja(k) \/ Expirar(k)
    \/ \E v \in Vendas :
         \/ \E nums \in SUBSET Numeros, c \in Chances, q \in Quantidades :
              ComprarNaLoja(v, nums, c, q)
         \/ Confirmar(v)

Spec == Init /\ [][Next]_vars

\* A sale also holds rows of PostgreSQL, in the transactions of TravasDeLinha.
VARIABLES status, dono, tx, estornada
travas == <<status, dono, tx, estornada>>
Tr == INSTANCE TravasDeLinha WITH
          Vendas <- VendasTx, DaSena <- SenaTx, Manuais <- ManuaisTx, Numeros <- NumerosTx,
          Escolha <- EscolhaTx, Pedidos <- PedidosTx

PosseInit == Init /\ Tr!Init
PosseNext == (Next /\ UNCHANGED travas) \/ (Tr!Next /\ UNCHANGED vars)
PosseSpec == PosseInit /\ [][PosseNext]_<<vars, travas>>

-----------------------------------------------------------------------------
Venda == [dono : Donos \cup {Loja, Ninguem}, status : {"nenhuma", "PENDENTE", "APROVADO", "RECUSADO"},
          sel : SUBSET Numeros, chances : Nat, qtd : Nat]
Pedido == [passo : Passos, dono : Donos \cup {Ninguem}, nums : SUBSET Numeros,
           faltam : SUBSET Numeros, atual : Numeros \cup {Ninguem}, criadas : SUBSET Numeros,
           v : Vendas \cup {Ninguem}, chances : Nat, qtd : Nat]

\* Types; a request looks at one number exactly while it asks Redis about it, and makes keys
\* of its own numbers only.
TypeOK ==
    /\ ativa \in BOOLEAN /\ furou \in BOOLEAN
    /\ reserva \in [Chaves -> Donos \cup {Loja, Ninguem}]
    /\ bilhete \in [Numeros -> Vendas \cup {Ninguem}]
    /\ venda \in [Vendas -> Venda] /\ pedido \in [Pedidos -> Pedido]
    /\ \A p \in Pedidos :
         /\ pedido[p].criadas \subseteq pedido[p].nums
         /\ pedido[p].atual \in Numeros <=> pedido[p].passo \in {"conferir", "renovar", "regravar"}
         /\ pedido[p].passo \notin {"estender", "regravar"} => pedido[p].faltam \subseteq pedido[p].nums
    /\ prometida \subseteq Numeros \X Donos

\* Nobody holds a key that no request in flight is writing and no answer promised:
\* a refused reservation leaves nothing that would keep others from the numbers.
SemReservaOrfa ==
    ~furou => \A n \in Numeros, d \in Donos :
                  reserva[Curta(n)] = d => \/ <<n, d>> \in prometida
                                           \/ \E p \in Pedidos : pedido[p].dono = d /\ n \in pedido[p].criadas

\* What was promised by 201 is held, until it expires.
PromessaVale ==
    ~furou => \A x \in prometida : reserva[Curta(x[1])] = x[2]

\* The keys in Redis are exactly the promises and the work in flight: no promise is lost and
\* nothing else keeps a number from others.
ReservaConfere == TypeOK /\ SemReservaOrfa /\ PromessaVale

\* A POS or WhatsApp sale that waits for its payment with a selection will find the
\* numbers it selected: neither sold nor selected by somebody else.
SelecaoGarantida ==
    ~furou => \A v \in Vendas :
                  venda[v].status = "PENDENTE" /\ venda[v].dono \in Donos =>
                      \A n \in venda[v].sel :
                          /\ bilhete[n] = Ninguem
                          /\ \A w \in Vendas \ {v} :
                                 venda[w].dono \in Donos /\ venda[w].status \in {"PENDENTE", "APROVADO"}
                                     => n \notin venda[w].sel

\* An approved sale has as many numbers as the combos it charged for have chances.
\* The code breaks it: alocarBilhetes reads the numeroBase of a WhatsApp combo as the
\* one number to deliver.
EntregaOQueCobra ==
    \A v \in Vendas : venda[v].status = "APROVADO" =>
        Cardinality({n \in Numeros : bilhete[n] = v}) = venda[v].qtd * venda[v].chances

\* The circles of waits have a cancellation and a sale or confirmation in them
\* (TravasDeLinha!ImpasseTemCancelamento), and the cancellation of a sale of Prêmios that has
\* asked for the refund is in none (TravasDeLinha!EstornoDePremiosNaoCai).
ImpassesConhecidos == Tr!TypeOK /\ Tr!ImpasseTemCancelamento /\ Tr!EstornoDePremiosNaoCai
=============================================================================
