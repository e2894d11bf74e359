------------------------------ MODULE MCSorteio ------------------------------
(***************************************************************************)
(* The draw of an edition: two ADMIN requests and the closing job.         *)
(***************************************************************************)
EXTENDS SorteioEmSerie, TLC

CONSTANTS e1, r1, r2, b1, b2

\* Everything is in one edition; all tickets have the same balls, so that tickets, balls,
\* requests and prizes are interchangeable.
MCEdicaoDo == [x \in Premios \cup Bilhetes |-> e1]
MCBolas == [b \in Bilhetes |-> Globo]
Simetria == UNION {Permutations(S) : S \in {Pedidos, Premios, Bilhetes, Globo}}

\* Bound: two at most are in flight at the same time, of the requests and the job.
Atores == {p \in Pedidos : NoAr(p)} \cup {j \in Jobs : Rodando(j)}

MCSpec == SerieInit /\ [][SerieNext /\ Cardinality(Atores') <= 2]_<<vars, concorreu>>
=============================================================================
