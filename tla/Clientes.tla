------------------------------ MODULE Clientes ------------------------------
(***************************************************************************)
(* The commercial link of a customer, a seller and a network: the rules of *)
(* vinculo-cliente.util under the handlers of ClientesService and the      *)
(* purchases that rewrite it.                                              *)
(*                                                                         *)
(* A PATCH distinguishes a field that did not come (Ausente) from one that *)
(* came empty (Nulo).  It reads the customer, then the seller that will    *)
(* hold, then writes; meanwhile another PATCH, a purchase or a transfer of *)
(* the seller to another network may have happened.                        *)
(***************************************************************************)
EXTENDS FiniteSets

CONSTANTS
    Clientes, Vendedores, Distribuidores,
    Pedidos,        \* PATCHes in flight at the same time
    Admin,
    Nulo, Ausente   \* nobody or an empty field; a field that did not come

VARIABLES
    rede,     \* rede[v]: the network of the seller
    vinculo,  \* vinculo[c]: [v, d], or SemCadastro
    patch     \* patch[p]: what PATCH p has read and decided

vars == <<rede, vinculo, patch>>

SemCadastro == [v |-> Ausente, d |-> Ausente]
Orfao == [v |-> Nulo, d |-> Nulo]
Atores == {Admin} \cup Vendedores \cup Distribuidores
Livre == [passo |-> "livre", c |-> Nulo, ator |-> Admin, vi |-> Ausente, di |-> Ausente,
          atual |-> Orfao, redeLida |-> Nulo, rv |-> Nulo, novo |-> Orfao]
Existe(c) == vinculo[c] # SemCadastro

\* The network that an actor acts for, as it is in the database now.
RedeDe(ator) == IF ator \in Vendedores THEN rede[ator] ELSE ator

\* buildHierarchyWhere: the network's customers, whoever of it serves them.
Enxerga(ator, c) == Existe(c) /\ (ator = Admin \/ vinculo[c].d = RedeDe(ator))

-----------------------------------------------------------------------------
\* resolverVinculoCliente: the explicit value wins; an empty network comes from the
\* seller, of which dv is the network.
ResolverVinculo(v, d, dv) == [v |-> v, d |-> IF v # Nulo /\ d = Nulo THEN dv ELSE d]

\* vendedorFinalDaAtualizacao
VendedorFinal(vi, atual) == IF vi # Ausente THEN vi ELSE atual.v
Informado(x) == IF x = Ausente THEN Nulo ELSE x

\* A network cannot be emptied under a seller that the request does not name: 400.
RecusaEsvaziar(vi, di, atual) == di = Nulo /\ vi = Ausente /\ atual.v # Nulo

\* The seller on file gives way when the customer changes network, and only then.
VendedorCede(vi, di, atual, dv) ==
    /\ vi = Ausente /\ di \in Distribuidores
    /\ di # atual.d /\ atual.v # Nulo /\ dv # di

\* resolverVinculoClienteNaAtualizacao
ResolverAtualizacao(vi, di, atual, dv) ==
    LET v == VendedorFinal(vi, atual)
    IN  ResolverVinculo(IF VendedorCede(vi, di, atual, dv) THEN Nulo ELSE v,
                        IF di # Ausente THEN di ELSE IF v # Nulo THEN Nulo ELSE atual.d,
                        dv)

\* Mutant: nobody checks where the request points.
TudoPermitido(ator, vi, di, contexto) == TRUE
\* garantirVinculoPermitido: a seller points to itself and its network, and does not let
\* go; a distributor points to its network and its sellers, and does not let go of the
\* network.
VinculoPermitido(ator, vi, di, contexto) ==
    /\ ator \in Vendedores =>
           /\ vi \in Vendedores => vi = ator
           /\ contexto = "atualizacao" => vi # Nulo
           /\ di \in Distribuidores => di = rede[ator]
    /\ ator \in Distribuidores =>
           /\ di \in Distribuidores => di = ator
           /\ contexto = "atualizacao" => di # Nulo
           /\ vi \in Vendedores => rede[vi] = ator

-----------------------------------------------------------------------------
Init ==
    /\ rede \in [Vendedores -> Distribuidores]
    /\ vinculo = [c \in Clientes |-> SemCadastro]
    /\ patch = [p \in Pedidos |-> Livre]

\* create: the seller's own link, the distributor's network, or what ADMIN names; an
\* empty field is one that did not come.
Criar(c, ator, vi, di) ==
    /\ ~Existe(c) /\ VinculoPermitido(ator, vi, di, "criacao")
    /\ vinculo' = [vinculo EXCEPT ![c] =
           IF ator \in Vendedores THEN [v |-> ator, d |-> rede[ator]]
           ELSE IF ator \in Distribuidores THEN [v |-> Informado(vi), d |-> ator]
           ELSE ResolverVinculo(Informado(vi), Informado(di),
                                IF vi \in Vendedores THEN rede[vi] ELSE Nulo)]
    /\ UNCHANGED <<rede, patch>>

\* loginLoja: the first access of a customer of the shop, with no link.
PrimeiroAcesso(c) ==
    /\ ~Existe(c)
    /\ vinculo' = [vinculo EXCEPT ![c] = Orfao]
    /\ UNCHANGED <<rede, patch>>

\* update, up to the validation: 404 out of the scope, 403 out of the rules.  The row
\* of the seller that the request names is read here.
Ler(p, c, ator, vi, di) ==
    /\ patch[p] = Livre
    /\ Enxerga(ator, c) /\ VinculoPermitido(ator, vi, di, "atualizacao")
    /\ vi # Ausente \/ di # Ausente
    /\ patch' = [patch EXCEPT ![p] =
           [Livre EXCEPT !.passo = "decidir", !.c = c, !.ator = ator, !.vi = vi, !.di = di,
                         !.atual = vinculo[c], !.redeLida = RedeDe(ator),
                         !.rv = IF vi \in Vendedores THEN rede[vi] ELSE Nulo]]
    /\ UNCHANGED <<rede, vinculo>>

\* The seller on file is read only now, if it is the one that will hold.
Decidir(p) ==
    LET q == patch[p]
        v == VendedorFinal(q.vi, q.atual)
        dv == IF v = Nulo THEN Nulo ELSE IF q.vi = Ausente THEN rede[v] ELSE q.rv
    IN  /\ q.passo = "decidir"
        /\ patch' = [patch EXCEPT ![p] =
               IF RecusaEsvaziar(q.vi, q.di, q.atual) THEN Livre
               ELSE [q EXCEPT !.passo = "gravar",
                              !.novo = ResolverAtualizacao(q.vi, q.di, q.atual, dv)]]
        /\ UNCHANGED <<rede, vinculo>>

Gravar(p) ==
    /\ patch[p].passo = "gravar"
    /\ vinculo' = [vinculo EXCEPT ![patch[p].c] = patch[p].novo]
    /\ patch' = [patch EXCEPT ![p] = Livre]
    /\ UNCHANGED rede

\* resolverVinculoDaCompra: a sale takes the customer to its seller and network; one
\* without either keeps the link.
Comprar(c, v, d) ==
    /\ v # Nulo \/ d # Nulo \/ ~Existe(c)
    /\ vinculo' = [vinculo EXCEPT ![c] =
           ResolverVinculo(v, d, IF v = Nulo THEN Nulo ELSE rede[v])]
    /\ UNCHANGED <<rede, patch>>

\* PATCH of the seller by ADMIN, in Cadastros: its customers stay where they are.
Transferir(v, d) ==
    /\ rede[v] # d
    /\ rede' = [rede EXCEPT ![v] = d]
    /\ UNCHANGED <<vinculo, patch>>

Informe(S) == S \cup {Nulo, Ausente}

Next ==
    \/ \E c \in Clientes :
         \/ PrimeiroAcesso(c)
         \/ \E v \in Vendedores \cup {Nulo}, d \in Distribuidores \cup {Nulo} : Comprar(c, v, d)
         \/ \E ator \in Atores, vi \in Informe(Vendedores), di \in Informe(Distribuidores) :
              \/ Criar(c, ator, vi, di)
              \/ \E p \in Pedidos : Ler(p, c, ator, vi, di)
    \/ \E p \in Pedidos : Decidir(p) \/ Gravar(p)
    \/ \E v \in Vendedores, d \in Distribuidores : Transferir(v, d)

Spec == Init /\ [][Next]_vars

-----------------------------------------------------------------------------
\* Types; and the CHECK of the table: a seller without a network is never written, which
\* would abort the request.
Vinculo == [v : Vendedores \cup {Nulo}, d : Distribuidores \cup {Nulo}]
TypeOK ==
    /\ rede \in [Vendedores -> Distribuidores]
    /\ vinculo \in [Clientes -> Vinculo \cup {SemCadastro}]
    /\ patch \in [Pedidos -> [passo : {"livre", "decidir", "gravar"}, c : Clientes \cup {Nulo},
                  ator : Atores, vi : Informe(Vendedores), di : Informe(Distribuidores),
                  atual : Vinculo, redeLida : Distribuidores \cup {Nulo, Admin},
                  rv : Distribuidores \cup {Nulo}, novo : Vinculo]]

Decidido(p) == patch[p].passo = "gravar"

VinculoCoerente ==
    /\ \A c \in Clientes : vinculo[c].v # Nulo => vinculo[c].d # Nulo
    /\ \A p \in Pedidos : Decidido(p) => (patch[p].novo.v # Nulo => patch[p].novo.d # Nulo)

\* Whatever it names and however the rows move under it, the PATCH of a seller or of a
\* distributor does not take the customer to a network other than the one it acted for.
NaoVaiParaOutraRede ==
    \A p \in Pedidos :
        Decidido(p) /\ patch[p].ator # Admin => patch[p].novo.d \in {patch[p].redeLida, Nulo}

\* A PATCH that does not name the seller keeps the one on file, unless it moves the
\* customer to another network.
VendedorNaoSeSolta ==
    \A p \in Pedidos :
        Decidido(p) /\ patch[p].vi = Ausente /\ patch[p].di \in {Ausente, patch[p].atual.d} =>
            patch[p].novo.v = patch[p].atual.v
=============================================================================
