------------------------------- MODULE MCRedes -------------------------------
(***************************************************************************)
(* Who belongs to which network, in six scenes:  two requests at once on   *)
(* the registrations of one network; one request at a time over two        *)
(* networks (Cadastros); the link of a customer to two sellers and two     *)
(* networks while a PATCH is in flight (Clientes); a purchase that credits *)
(* one of them (Origem); the link and the QR code of a seller (Links); and *)
(* its card machines (Frota).                                              *)
(***************************************************************************)
EXTENDS Redes, Sequences, TLC

CONSTANTS d1, d2, n1, n2, v1, v2, r1, r2, p1, c1, m1

VARIABLE cena

UmaRede ==
    /\ Cardinality({d \in Distribuidores : linha'[d].status # "nenhum"}) <= 1
    /\ UNCHANGED <<token, frota>>
    /\ \A d \in Distribuidores : ~linha'[d].saldo
\* One request at a time; and of the two networks one keeps a session, a machine or money.
UmDeCadaVez ==
    /\ Cardinality({r \in Pedidos : pedido'[r] # Livre}) <= 1
    /\ \A v \in Vendedores : ~linha'[v].saldo
    /\ Cardinality({d \in Distribuidores : token'[d] # 0})
         + Cardinality(frota' \cup {d \in Distribuidores : linha'[d].saldo}) <= 1

\* The script runs with one request at a time, and two requests generate for Premios.
UmScript ==
    /\ lista' # Nulo => Cardinality({r \in Pedidos : geracao'[r] # K!Livre}) <= 1
    /\ \A r \in Pedidos : geracao'[r].produto = "sena" => \A o \in Pedidos \ {r} : geracao'[o] = K!Livre

\* Two requests at once on a machine with no sales; a history of a network that keeps
\* its machine and its seller; and a full one is only read.
UmaFrota ==
    /\ Len(historico) < MaxVendas
    /\ \A r, o \in F!EmVoo' : r # o => historico = << >>
    /\ historico' # historico => mudou = {}

\* At most one row moves under a purchase, and none between two.
UmaMudanca ==
    IF compra' = Nulo THEN redeDaCompra' = redeDaCompra
    ELSE Cardinality({x \in {"rede", "vinculo"} : compra'[x]}) <= 1

\* What a scene does not play began with the network n1 and a customer of nobody.
MCInit ==
    /\ cena \in {"uma rede", "um pedido", "clientes", "origem", "links", "frota"}
    /\ RedesInit
    /\ cena # "clientes" => redeDe = [v \in {v1, v2} |-> n1]
    /\ cena # "origem" => redeDaCompra = [v \in {v1, v2} |-> n1] /\ vinculoDaCompra = Nulo
    /\ cena # "links" => nome = "a" /\ \A p \in DOMAIN link : ~link[p].qrcode
    /\ cena # "frota" => redeDaFrota = [v \in {v1} |-> n1]
MCNext ==
    /\ UNCHANGED cena
    /\ \/ cena = "uma rede" /\ PassoDoCadastro /\ UmaRede
       \/ cena = "um pedido" /\ PassoDoCadastro /\ UmDeCadaVez
       \/ cena = "clientes" /\ PassoDoCliente
       \/ cena = "origem" /\ PassoDaCompra /\ UmaMudanca
       \/ cena = "links" /\ PassoDoLink /\ UmScript
       \/ cena = "frota" /\ PassoDaFrota /\ UmaFrota
MCSpec == MCInit /\ [][MCNext]_<<vars, clientes, compras, links, maquinas, cena>>

Simetria == Permutations(Pedidos) \cup Permutations(Distribuidores) \cup Permutations(Redes)
=============================================================================
