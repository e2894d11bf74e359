------------------------------- MODULE Origem -------------------------------
(***************************************************************************)
(* To whom a sale is credited, in both products: the seller_id of the link *)
(* that brought the customer to a public shop, or the token of who sells   *)
(* in the panel and on the POS.  Capital de Premios and Capital Sena have  *)
(* a copy each of the rule (LojaPublicaService, VendasService and          *)
(* VendasSenaService).                                                     *)
(*                                                                         *)
(* One purchase of one customer: what it reads of the seller, the link it  *)
(* writes on the customer and the sale are three statements, and a         *)
(* transfer of the seller or another purchase may fall between them.       *)
(***************************************************************************)
EXTENDS FiniteSets

CONSTANTS
    Vendedores, Distribuidores,
    Admin, Publico,   \* who buys on the public shop has no token
    Nulo, Estranho    \* an empty field; an id of nobody

VARIABLES
    rede,     \* rede[v]: the network of the seller
    vinculo,  \* the link of the customer: [v, d], or Nulo before the registration
    compra    \* the purchase in flight, or Nulo

vars == <<rede, vinculo, compra>>

Atores == {Admin, Publico} \cup Vendedores \cup Distribuidores
Produtos == {"premios", "sena"}
Orfao == [v |-> Nulo, d |-> Nulo]
Pares == [v : Vendedores \cup {Nulo}, d : Distribuidores \cup {Nulo}]

\* A seller_id is that of the user or that of the registration, of a seller or of a network.
Sellers == {"usuario", "cadastro"} \X (Vendedores \cup Distribuidores)
Corpos == [v : Vendedores \cup {Nulo, Estranho}, d : Distribuidores \cup {Nulo},
           seller : Sellers \cup {Nulo, Estranho}]
Recusa == [v |-> Estranho, d |-> Estranho]

\* aplicarVinculoDoToken; the public shops take nothing but the seller_id.
AplicarVinculoDoToken(ator, corpo) ==
    CASE ator \in Vendedores -> [v |-> ator, d |-> Nulo, seller |-> Nulo]
      [] ator \in Distribuidores -> [corpo EXCEPT !.d = ator, !.seller = Nulo]
      [] ator = Publico -> [corpo EXCEPT !.v = Nulo, !.d = Nulo]
      [] OTHER -> corpo

\* resolverSellerOrigem: a network's link names no seller.
ResolverSeller(seller) ==
    CASE seller = Nulo -> Orfao
      [] seller = Estranho -> Recusa
      [] OTHER -> IF seller[2] \in Vendedores THEN [v |-> seller[2], d |-> rede[seller[2]]]
                  ELSE [v |-> Nulo, d |-> seller[2]]

\* The seller must exist, and be of the network when a distributor names it; the network
\* that nobody named is the seller's.
DoCorpo(ator, dto) ==
    IF \/ dto.v = Estranho
       \/ ator \in Distribuidores /\ dto.v # Nulo /\ rede[dto.v] # ator
    THEN Recusa
    ELSE [v |-> dto.v, d |-> IF dto.v # Nulo /\ dto.d = Nulo THEN rede[dto.v] ELSE dto.d]

OrigemPremios(ator, dto) == IF ator = Publico THEN ResolverSeller(dto.seller) ELSE DoCorpo(ator, dto)

\* The copy of resolverSellerOrigem that VendasSenaService has.
SellerDaSena(seller) == ResolverSeller(seller)

\* VendasSenaService.create: the seller_id is always resolved and gives the whole pair, or
\* nothing when the body has either field.
OrigemSena(ator, dto) ==
    LET s == SellerDaSena(dto.seller) IN
    IF s = Recusa THEN Recusa
    ELSE IF dto.v = Nulo /\ dto.d = Nulo THEN s ELSE DoCorpo(ator, dto)

Origem(produto, ator, dto) ==
    IF produto = "premios" THEN OrigemPremios(ator, dto) ELSE OrigemSena(ator, dto)

-----------------------------------------------------------------------------
Init ==
    /\ rede \in [Vendedores -> Distribuidores]
    /\ vinculo \in {[v |-> v, d |-> rede[v]] : v \in Vendedores} \cup {Orfao, Nulo}
    /\ compra = Nulo

\* The controllers.
Receber(produto, ator, corpo) ==
    /\ compra = Nulo
    /\ compra' = [passo |-> "pedida", produto |-> produto, ator |-> ator,
                  dto |-> AplicarVinculoDoToken(ator, corpo), par |-> Orfao,
                  antes |-> vinculo, rede |-> FALSE, vinculo |-> FALSE]
    /\ UNCHANGED <<rede, vinculo>>

\* Mutant: the customer is found, and the link written, before the seller is validated.
LerOrigemDepoisDoCliente ==
    /\ compra # Nulo /\ compra.passo = "pedida"
    /\ LET par == Origem(compra.produto, compra.ator, compra.dto) IN
       /\ compra' = IF par = Recusa THEN [compra EXCEPT !.passo = "vendedor recusado"]
                    ELSE [compra EXCEPT !.passo = "lida", !.par = par]
       /\ vinculo' = IF compra.dto.d # Nulo THEN [v |-> Nulo, d |-> compra.dto.d] ELSE vinculo
    /\ UNCHANGED rede
\* create up to the customer.
LerOrigem ==
    /\ compra # Nulo /\ compra.passo = "pedida"
    /\ LET par == Origem(compra.produto, compra.ator, compra.dto) IN
       compra' = IF par = Recusa THEN [compra EXCEPT !.passo = "vendedor recusado"]
                 ELSE [compra EXCEPT !.passo = "lida", !.par = par]
    /\ UNCHANGED <<rede, vinculo>>

\* A customer found by CPF who is not of age is refused here; the id of nobody too.
RecusarCliente ==
    /\ compra # Nulo /\ compra.passo = "lida"
    /\ compra' = [compra EXCEPT !.passo = "recusada"]
    /\ UNCHANGED <<rede, vinculo>>

\* A purchase from somebody takes the customer there; one from nobody leaves the link.
VinculoDaCompra(par) == IF par # Orfao \/ vinculo = Nulo THEN par ELSE vinculo

\* buscarOuCriarCliente, buscarClientePorIdParaCompra.
GravarVinculo ==
    /\ compra # Nulo /\ compra.passo = "lida"
    /\ vinculo' = VinculoDaCompra(compra.par)
    /\ compra' = [compra EXCEPT !.passo = "vinculada"]
    /\ UNCHANGED rede

\* The age of a customer found by id, the selected cards and the kind of payment are
\* looked at with the link already written.
RecusarDepois ==
    /\ compra # Nulo /\ compra.passo = "vinculada"
    /\ compra' = [compra EXCEPT !.passo = "recusada"]
    /\ UNCHANGED <<rede, vinculo>>

CriarVenda ==
    /\ compra # Nulo /\ compra.passo = "vinculada"
    /\ compra' = [compra EXCEPT !.passo = "criada"]
    /\ UNCHANGED <<rede, vinculo>>

Terminar ==
    /\ compra # Nulo /\ compra.passo \in {"vendedor recusado", "recusada", "criada"}
    /\ compra' = Nulo
    /\ UNCHANGED <<rede, vinculo>>

-----------------------------------------------------------------------------
\* ADMIN moves a seller to another network: sales and customers stay where they are.
Transferir(v, d) ==
    /\ rede[v] # d
    /\ rede' = [rede EXCEPT ![v] = d]
    /\ compra' = IF compra = Nulo THEN Nulo ELSE [compra EXCEPT !.rede = TRUE]
    /\ UNCHANGED vinculo

\* Another purchase of the customer, or a PATCH, in the middle of this one.
OutroVinculo(par) ==
    /\ compra # Nulo /\ vinculo # Nulo /\ par # vinculo
    /\ vinculo' = par
    /\ compra' = [compra EXCEPT !.vinculo = TRUE]
    /\ UNCHANGED rede

Next ==
    \/ compra = Nulo /\ \E produto \in Produtos, ator \in Atores, corpo \in Corpos : Receber(produto, ator, corpo)
    \/ LerOrigem \/ RecusarCliente \/ GravarVinculo \/ RecusarDepois \/ CriarVenda \/ Terminar
    \/ \E v \in Vendedores, d \in Distribuidores : Transferir(v, d)
    \/ \E v \in Vendedores : OutroVinculo([v |-> v, d |-> rede[v]])

Spec == Init /\ [][Next]_vars

-----------------------------------------------------------------------------
TypeOK ==
    /\ rede \in [Vendedores -> Distribuidores]
    /\ vinculo = Nulo \/ vinculo \in Pares
    /\ compra # Nulo =>
           /\ compra.passo \in {"pedida", "lida", "vinculada", "criada", "recusada", "vendedor recusado"}
           /\ compra.dto \in Corpos /\ compra.par \in Pares

Criada == compra # Nulo /\ compra.passo = "criada"

\* Who sells is credited, whatever the body says: a seller with its own sale, a network
\* with its own, and the public shop credits the owner of the link or nobody.
CreditaQuemVendeu ==
    Criada =>
        /\ compra.ator \in Vendedores => compra.par.v = compra.ator
        /\ compra.ator \in Distribuidores => compra.par.d = compra.ator
        /\ compra.ator = Publico =>
               LET s == compra.dto.seller IN
               IF s = Nulo THEN compra.par = Orfao
               ELSE compra.par.v = s[2] \/ compra.par = [v |-> Nulo, d |-> s[2]]

\* The network credited is that of the seller credited, unless the ADMIN named both or the
\* seller was moved meanwhile.
RedeDoVendedor ==
    Criada /\ compra.par.v # Nulo /\ ~compra.rede
           /\ ~(compra.ator = Admin /\ compra.dto.v # Nulo /\ compra.dto.d # Nulo)
        => compra.par.d = rede[compra.par.v]

\* The customer belongs to who sold to it last, unless another request wrote the link.
ClienteSegueVenda ==
    Criada /\ compra.par # Orfao /\ ~compra.vinculo => vinculo = compra.par

\* A purchase that is refused because of its seller leaves the customer where it was.
RecusadoSemRastro ==
    compra # Nulo /\ compra.passo = "vendedor recusado" /\ ~compra.vinculo =>
        vinculo = compra.antes

\* The two products credit the same pair for the same request, but for a seller_id, which
\* the panel of Capital de Premios does not know.
ProdutosConcordam ==
    compra # Nulo /\ compra.passo = "pedida" =>
        LET dto == compra.dto IN
        compra.ator = Publico \/ dto.seller = Nulo =>
            OrigemPremios(compra.ator, dto) = OrigemSena(compra.ator, dto)
=============================================================================
