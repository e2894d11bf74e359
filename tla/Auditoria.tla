------------------------------ MODULE Auditoria ------------------------------
(***************************************************************************)
(* What PrismaService does around every write: it reads the row as it was, *)
(* writes, and records both in AuditLog.  The two extra statements use the *)
(* client of the process and not the transaction's: they see what is       *)
(* committed, they commit by themselves, and they need a connection of the *)
(* pool while the transaction holds another one.                           *)
(*                                                                         *)
(* A request is a list of writes, in one transaction or a single one       *)
(* outside; the value of a row is the write that made it.                  *)
(***************************************************************************)
EXTENDS Integers, Sequences, FiniteSets

CONSTANTS
    Pedidos,    \* requests, each of which comes once
    Linhas,     \* rows
    Roteiros,   \* lists of writes [op, linha] of a request
    Conexoes,   \* connection_limit
    Nulo

VARIABLES
    banco,      \* banco[l]: the value committed
    trilha,     \* AuditLog
    pedido,     \* pedido[p]
    concorreu,  \* history: two requests were in flight together
    opaca       \* history: rows with a write that the trail cannot chain

vars == <<banco, trilha, pedido, concorreu, opaca>>

Chegando == [passo |-> "chegar", tx |-> FALSE, fila |-> <<>>, i |-> 0, antes |-> Nulo, novo |-> Nulo]
Init ==
    /\ banco = [l \in Linhas |-> Nulo]
    /\ trilha = <<>>
    /\ pedido = [p \in Pedidos |-> Chegando]
    /\ concorreu = FALSE
    /\ opaca = {}

(***************************************************************************)
(* Rows and connections                                                    *)
(***************************************************************************)
Fora == {"chegar", "feito", "falhou"}
EmCurso == {p \in Pedidos : pedido[p].passo \notin Fora}
Folga == Cardinality({p \in EmCurso : pedido[p].tx}) < Conexoes

Alvo(p) == pedido[p].fila[pedido[p].i]
\* The rows that a transaction has written, and keeps until it ends.
Presas(p) == IF pedido[p].tx
             THEN {pedido[p].fila[j].linha : j \in 1 .. (pedido[p].i - 1)}
                    \cup (IF pedido[p].passo \in {"registrar", "seguir"} THEN {Alvo(p).linha} ELSE {})
             ELSE {}
LinhaLivre(p) == \A q \in EmCurso \ {p} : Alvo(p).linha \notin Presas(q)

\* Writes that leave a row in the trail.
Auditada(op) == op \in {"update", "updateMany"}

\* Writes whose row is read before.
TemAntes(op) == op = "update"

Primeiro(op) == IF TemAntes(op) THEN "antes" ELSE "escrever"

\* Mutant: the row is read with a lock.
SoLinhaLivre(p) == Folga /\ \A q \in EmCurso : Alvo(p).linha \notin Presas(q)
PodeLer(p) == Folga

(***************************************************************************)
(* A request                                                               *)
(***************************************************************************)
Segue(p, r) == pedido' = [pedido EXCEPT ![p] = r]

Chegar(p, roteiro, tx) ==
    /\ pedido[p].passo = "chegar" /\ Folga
    /\ ~tx => Len(roteiro) = 1
    /\ Segue(p, [pedido[p] EXCEPT !.passo = Primeiro(roteiro[1].op), !.tx = tx, !.fila = roteiro, !.i = 1])
    /\ concorreu' = (concorreu \/ EmCurso # {})
    /\ UNCHANGED <<banco, trilha, opaca>>

LerAntes(p) ==
    /\ pedido[p].passo = "antes" /\ PodeLer(p)
    /\ Segue(p, [pedido[p] EXCEPT !.antes = banco[Alvo(p).linha], !.passo = "escrever"])
    /\ UNCHANGED <<banco, trilha, concorreu, opaca>>

\* The error of a row that cannot be read is swallowed.
SemAntes(p) ==
    /\ pedido[p].passo = "antes"
    /\ Segue(p, [pedido[p] EXCEPT !.passo = "escrever"])
    /\ opaca' = opaca \cup {Alvo(p).linha}
    /\ UNCHANGED <<banco, trilha, concorreu>>

Escrever(p) ==
    LET x == pedido[p]
        l == Alvo(p).linha
        op == Alvo(p).op
    IN  /\ x.passo = "escrever" /\ LinhaLivre(p) /\ (x.tx \/ Folga)
        /\ Segue(p, [x EXCEPT !.novo = <<p, x.i>>, !.passo = IF Auditada(op) THEN "registrar" ELSE "seguir"])
        /\ banco' = IF x.tx THEN banco ELSE [banco EXCEPT ![l] = <<p, x.i>>]
        /\ opaca' = IF op = "updateMany" \/ l \in Presas(p) THEN opaca \cup {l} ELSE opaca
        /\ UNCHANGED <<trilha, concorreu>>

Registrar(p) ==
    /\ pedido[p].passo = "registrar" /\ Folga
    /\ trilha' = Append(trilha, [linha |-> Alvo(p).linha, antes |-> pedido[p].antes, depois |-> pedido[p].novo])
    /\ Segue(p, [pedido[p] EXCEPT !.passo = "seguir"])
    /\ UNCHANGED <<banco, concorreu, opaca>>

\* The next write, or the end: the commit of a transaction.
Seguir(p) ==
    LET x == pedido[p]
        fim == x.i = Len(x.fila)
        Ultima(l) == {j \in DOMAIN x.fila : x.fila[j].linha = l /\ \A k \in DOMAIN x.fila : x.fila[k].linha = l => k <= j}
    IN  /\ x.passo = "seguir"
        /\ Segue(p, IF fim THEN [x EXCEPT !.passo = "feito"]
                    ELSE [x EXCEPT !.i = @ + 1, !.passo = Primeiro(x.fila[x.i + 1].op),
                                   !.antes = Nulo, !.novo = Nulo])
        /\ banco' = IF fim /\ x.tx
                    THEN [l \in Linhas |-> IF Ultima(l) = {} THEN banco[l] ELSE <<p, CHOOSE j \in Ultima(l) : TRUE>>]
                    ELSE banco
        /\ UNCHANGED <<trilha, concorreu, opaca>>

\* An error, or the wait for a connection or for a row outlives the limits of Prisma.
Falhar(p) ==
    /\ p \in EmCurso
    /\ Segue(p, [pedido[p] EXCEPT !.passo = "falhou"])
    /\ opaca' = opaca \cup {pedido[p].fila[j].linha : j \in 1 .. pedido[p].i}
    /\ UNCHANGED <<banco, trilha, concorreu>>

Andar(p) == LerAntes(p) \/ SemAntes(p) \/ Escrever(p) \/ Registrar(p) \/ Seguir(p)
Next ==
    \E p \in Pedidos :
        (\E r \in Roteiros, tx \in BOOLEAN : Chegar(p, r, tx)) \/ Andar(p) \/ Falhar(p)
Spec == Init /\ [][Next]_vars

Valores == (Pedidos \X (1 .. 3)) \cup {Nulo}
TypeOK ==
    /\ banco \in [Linhas -> Valores] /\ opaca \subseteq Linhas
    /\ \A i \in DOMAIN trilha : trilha[i].linha \in Linhas /\ {trilha[i].antes, trilha[i].depois} \subseteq Valores
    /\ Cardinality({p \in EmCurso : pedido[p].tx}) <= Conexoes

\* Who looks for the author of what is in the database finds it, however the requests
\* overlap and fail: only a write outside a transaction may be there without its record,
\* until it is made, or for ever if its request stopped before.
EscritaTemRegistro ==
    \A l \in Linhas : banco[l] # Nulo =>
        \/ \E i \in DOMAIN trilha : trilha[i].linha = l /\ trilha[i].depois = banco[l]
        \/ LET autor == pedido[banco[l][1]] IN ~autor.tx /\ autor.passo # "feito"

\* What the first n records say that a row is.
Contado(registros, l, n) ==
    LET dela == {k \in 1 .. n : registros[k].linha = l}
    IN  IF dela = {} THEN Nulo
        ELSE registros[CHOOSE k \in dela : \A j \in dela : j <= k].depois

\* While requests come one at a time the records of a row are a chain that ends in the row:
\* but for a write in lots, a transaction that writes the row twice (the second record does
\* not see the first) and a request that failed (the records of its transaction stay).
TrilhaEncadeadaEmSerie ==
    ~concorreu /\ EmCurso = {} =>
        \A l \in Linhas \ opaca :
            /\ \A k \in DOMAIN trilha :
                  trilha[k].linha = l => trilha[k].antes = Contado(trilha, l, k - 1)
            /\ banco[l] = Contado(trilha, l, Len(trilha))

\* As long as one connection of the pool is left somebody goes on, and no one has to wait for
\* the limits of Prisma: only a pool full of transactions, each of which wants a second
\* connection for its trail, stops the process.  (Requests that write their rows in opposite
\* orders are the matter of TravasDeLinha.)
ComFolgaNaoTrava ==
    EmCurso # {} /\ Folga =>
        \E p \in EmCurso :
            \/ pedido[p].passo = "antes" /\ PodeLer(p)
            \/ pedido[p].passo = "escrever" /\ LinhaLivre(p)
            \/ pedido[p].passo \in {"registrar", "seguir"}
=============================================================================
