---------------------------- MODULE FaleConosco ----------------------------
(***************************************************************************)
(* The contact form of the shop: the throttler of the route, by address,   *)
(* then the limits by address and by CPF, then the cooldown of the         *)
(* message, then the message itself.  Each is a call to Redis of its own,  *)
(* and the request may stop, or Redis fail, between any two.  Without      *)
(* REDIS_URL the rows of the messages are counted instead.                 *)
(***************************************************************************)
EXTENDS Naturals, FiniteSets, Sequences

CONSTANTS
    Cpfs, Mensagens,  \* who writes, and what (its fingerprint); all from one address
    Pedidos,          \* requests in flight at the same time
    Nulo,
    Limite,           \* Limite[k], of "guarda", "ip" and "cpf"
    MaxMensagens,     \* bound: the messages of a behaviour
    MaxConta          \* bound: no request comes while a counter is beyond

VARIABLES
    comRedis,    \* is REDIS_URL set?
    conta,       \* conta[k]: the counter of a key, 0 when there is no key
    prazo,       \* the keys with a TTL
    pedido,      \* pedido[r]: the request that r is
    gravadas,    \* the messages saved, with the windows that each is still in
    parou,       \* history: the keys that a stop left without TTL
    perdida,     \* history: the messages whose request stopped after the cooldown
    concorreu    \* history: have two requests been in flight together, without Redis?

redis == <<conta, prazo>>
vars == <<comRedis, redis, pedido, gravadas, parou, perdida, concorreu>>

\* The keys of a request.  guarda and bloqueio are the two of the throttler.
Chaves == {<<"guarda">>, <<"bloqueio">>, <<"ip">>} \cup {<<"cpf", c>> : c \in Cpfs}
              \cup {<<"cooldown", c, t>> : c \in Cpfs, t \in Mensagens}
Chave(q) == CASE q.passo \in {"guarda", "ip"} -> <<q.passo>>
              [] q.passo = "cpf" -> <<"cpf", q.c>>
              [] q.passo = "cooldown" -> <<"cooldown", q.c, q.t>>
Livre == [passo |-> "livre", c |-> Nulo, t |-> Nulo, total |-> 0]
Janelas == {"cooldown", "ip", "cpf"}

\* Mutant: the cooldown comes before the limits.
CooldownAntes(passo) ==
    CASE passo = "guarda" -> "cooldown" [] passo = "cooldown" -> "ip"
      [] passo = "ip" -> "cpf" [] passo = "cpf" -> "gravar"
\* enviarFaleConosco: the limits, and only then the cooldown.
Depois(passo) ==
    CASE passo = "guarda" -> "ip" [] passo = "ip" -> "cpf"
      [] passo = "cpf" -> "cooldown" [] passo = "cooldown" -> "gravar"

-----------------------------------------------------------------------------
Init ==
    /\ comRedis \in BOOLEAN
    /\ conta = [k \in Chaves |-> 0] /\ prazo = {}
    /\ pedido = [r \in Pedidos |-> Livre]
    /\ gravadas = << >>
    /\ parou = {} /\ perdida = {} /\ concorreu = FALSE

Ir(r, q) == pedido' = [pedido EXCEPT ![r] = q]
Seguir(r) == Ir(r, [pedido[r] EXCEPT !.passo = Depois(@), !.total = 0])
Recusar(r) == Ir(r, Livre)

Chegar(r, c, t) ==
    /\ pedido[r] = Livre /\ Len(gravadas) < MaxMensagens /\ \A k \in Chaves : conta[k] <= MaxConta
    /\ Ir(r, [passo |-> "guarda", c |-> c, t |-> t, total |-> 0])
    /\ UNCHANGED <<comRedis, redis, gravadas, parou, perdida>>

\* The throttler: one script, in which a blocked address is not counted, the first hit gets
\* the TTL and the hit over the limit sets the block.
Guardar(r) ==
    LET hits == conta[<<"guarda">>] + 1
    IN  /\ pedido[r].passo = "guarda" /\ comRedis
        /\ \/ /\ conta[<<"bloqueio">>] > 0
              /\ Recusar(r) /\ UNCHANGED redis
           \/ /\ conta[<<"bloqueio">>] = 0 /\ hits <= Limite["guarda"]
              /\ conta' = [conta EXCEPT ![<<"guarda">>] = hits]
              /\ prazo' = prazo \cup {<<"guarda">>}
              /\ Seguir(r)
           \/ /\ conta[<<"bloqueio">>] = 0 /\ hits > Limite["guarda"]
              /\ conta' = [conta EXCEPT ![<<"guarda">>] = hits, ![<<"bloqueio">>] = 1]
              /\ prazo' = prazo \cup {<<"guarda">>, <<"bloqueio">>}
              /\ Recusar(r)
        /\ UNCHANGED <<comRedis, gravadas, parou, perdida>>
\* Without Redis, or when the script fails, each process counts in its own memory, which is
\* not followed here: it lets the request by, or does not.
GuardarNaMemoria(r) ==
    /\ pedido[r].passo = "guarda"
    /\ Seguir(r) \/ Recusar(r)
    /\ UNCHANGED <<comRedis, redis, gravadas, parou, perdida>>

\* incrementarLimiteRedis: INCR...
Incrementar(r) ==
    LET q == pedido[r]  k == Chave(q)
    IN  /\ q.passo \in {"ip", "cpf"} /\ comRedis /\ q.total = 0
        /\ conta' = [conta EXCEPT ![k] = @ + 1]
        /\ Ir(r, [q EXCEPT !.total = conta[k] + 1])
        /\ UNCHANGED <<comRedis, prazo, gravadas, parou, perdida>>
\* ...and EXPIRE by the request that made the key; then the comparison.
Primeiro(q) == q.total = 1
Conferir(r) ==
    LET q == pedido[r]
    IN  /\ q.passo \in {"ip", "cpf"} /\ q.total > 0
        /\ prazo' = IF Primeiro(q) THEN prazo \cup {Chave(q)} ELSE prazo
        /\ IF q.total > Limite[q.passo] THEN Recusar(r) ELSE Seguir(r)
        /\ UNCHANGED <<comRedis, conta, gravadas, parou, perdida>>

\* SET EX NX, one call.
Nx(k) == conta[k] = 0
Esfriar(r) ==
    LET q == pedido[r]  k == Chave(q)
    IN  /\ q.passo = "cooldown" /\ comRedis
        /\ IF Nx(k)
           THEN /\ conta' = [conta EXCEPT ![k] = 1] /\ prazo' = prazo \cup {k}
                /\ Seguir(r)
           ELSE Recusar(r) /\ UNCHANGED redis
        /\ UNCHANGED <<comRedis, gravadas, parou, perdida>>

\* Without Redis: the rows in each window.  Those of the cooldown are of the same message.
NaJanela(q) ==
    {i \in DOMAIN gravadas :
        /\ q.passo \in gravadas[i].janelas
        /\ q.passo # "ip" => gravadas[i].c = q.c
        /\ q.passo = "cooldown" => gravadas[i].t = q.t}
LerLinhas(r) ==
    LET q == pedido[r]
    IN  /\ q.passo \in Janelas /\ ~comRedis
        /\ IF Cardinality(NaJanela(q)) >= (IF q.passo = "cooldown" THEN 1 ELSE Limite[q.passo])
           THEN Recusar(r) ELSE Seguir(r)
        /\ UNCHANGED <<comRedis, redis, gravadas, parou, perdida>>

Gravar(r) ==
    /\ pedido[r].passo = "gravar"
    /\ gravadas' = Append(gravadas, [c |-> pedido[r].c, t |-> pedido[r].t, janelas |-> Janelas])
    /\ Ir(r, Livre)
    /\ UNCHANGED <<comRedis, redis, parou, perdida>>

\* What a stop leaves: a counter that its first request did not give a TTL to, or the
\* cooldown of a message that is not saved.
Deixar(r, total, esfriou) ==
    LET q == pedido[r]
    IN  /\ parou' = IF total = 1 THEN parou \cup {Chave(q)} ELSE parou
        /\ perdida' = IF esfriou THEN perdida \cup {<<q.c, q.t>>} ELSE perdida
        /\ Ir(r, Livre)
        /\ UNCHANGED <<comRedis, gravadas>>
\* The process ends, or a call fails (500): what was written stays.
Parar(r) ==
    /\ pedido[r] # Livre
    /\ Deixar(r, pedido[r].total, pedido[r].passo = "gravar" /\ comRedis)
    /\ UNCHANGED redis
\* The call was done, and its answer is lost: ioredis gives up, or repeats it and finds the
\* key there.
PerderResposta(r) ==
    LET q == pedido[r]  k == Chave(q)
    IN  /\ q.passo \in Janelas /\ comRedis /\ q.total = 0
        /\ conta' = [conta EXCEPT ![k] = IF q.passo = "cooldown" THEN 1 ELSE @ + 1]
        /\ prazo' = IF q.passo = "cooldown" THEN prazo \cup {k} ELSE prazo
        /\ q.passo = "cooldown" => Nx(k)
        /\ Deixar(r, IF q.passo = "cooldown" THEN 0 ELSE conta[k] + 1, q.passo = "cooldown")

\* A key whose time has come; a row leaves the windows, the shorter first.  A request does
\* not take the 120 s of its own cooldown to save the message.
Expirar(k) ==
    /\ k \in prazo
    /\ k[1] = "cooldown" => \A r \in Pedidos :
           pedido[r].passo = "gravar" => <<pedido[r].c, pedido[r].t>> # <<k[2], k[3]>>
    /\ conta' = [conta EXCEPT ![k] = 0] /\ prazo' = prazo \ {k}
    /\ perdida' = IF k[1] = "cooldown" THEN perdida \ {<<k[2], k[3]>>} ELSE perdida
    /\ gravadas' = [i \in DOMAIN gravadas |->
           IF k[1] = "cooldown" /\ gravadas[i].c = k[2] /\ gravadas[i].t = k[3]
           THEN [gravadas[i] EXCEPT !.janelas = @ \ {"cooldown"}] ELSE gravadas[i]]
    /\ UNCHANGED <<comRedis, pedido, parou>>
Envelhecer(i) ==
    /\ ~comRedis /\ gravadas[i].janelas # {}
    /\ gravadas' = [gravadas EXCEPT ![i].janelas =
           @ \ {IF "cooldown" \in @ THEN "cooldown" ELSE IF "ip" \in @ THEN "ip" ELSE "cpf"}]
    /\ UNCHANGED <<comRedis, redis, pedido, parou, perdida>>

EmVoo == {r \in Pedidos : pedido[r] # Livre}
Passo ==
    \/ \E r \in Pedidos :
         \/ \E c \in Cpfs, t \in Mensagens : Chegar(r, c, t)
         \/ Guardar(r) \/ GuardarNaMemoria(r) \/ Incrementar(r) \/ Conferir(r)
         \/ Esfriar(r) \/ LerLinhas(r) \/ Gravar(r) \/ Parar(r) \/ PerderResposta(r)
    \/ \E k \in Chaves : Expirar(k)
    \/ \E i \in DOMAIN gravadas : Envelhecer(i)
Next == Passo /\ concorreu' = (concorreu \/ (~comRedis /\ \E r, s \in EmVoo' : r # s))

Spec == Init /\ [][Next]_vars

-----------------------------------------------------------------------------
Linha == [c : Cpfs, t : Mensagens, janelas : SUBSET Janelas]
TypeOK ==
    /\ comRedis \in BOOLEAN
    /\ conta \in [Chaves -> Nat] /\ prazo \subseteq {k \in Chaves : conta[k] > 0}
    /\ \A r \in Pedidos : pedido[r].passo \in {"livre", "guarda", "gravar"} \cup Janelas
    /\ gravadas \in Seq(Linha)
    /\ parou \subseteq Chaves /\ perdida \subseteq Cpfs \X Mensagens /\ concorreu \in BOOLEAN

NoCooldown(c, t) ==
    {i \in DOMAIN gravadas :
        gravadas[i].c = c /\ gravadas[i].t = t /\ "cooldown" \in gravadas[i].janelas}

\* The same message is saved once in its cooldown, also when it is sent twice at once;
\* without Redis, when one request comes after the other.
MensagemUmaVez ==
    ~concorreu =>
        \A c \in Cpfs, t \in Mensagens : Cardinality(NoCooldown(c, t)) <= 1

\* "Aguarde alguns instantes antes de reenviar a mesma mensagem" (loja-publica.service.ts:1253)
\* is said of a message that was saved or is being saved, unless its request stopped
\* between the two: a refusal by the limits does not hold back the next try.
RecusaTemMensagem ==
    \A c \in Cpfs, t \in Mensagens : conta[<<"cooldown", c, t>>] > 0 =>
        \/ NoCooldown(c, t) # {} \/ <<c, t>> \in perdida
        \/ \E r \in Pedidos : pedido[r].passo = "gravar" /\ pedido[r].c = c /\ pedido[r].t = t

\* A limit yields by itself: its counter has a TTL, or the request that made it is about to
\* give it one; one that stopped between INCR and EXPIRE leaves a customer refused for ever.
LimiteCede ==
    \A k \in Chaves : conta[k] > 0 =>
        \/ k \in prazo \cup parou
        \/ \E r \in Pedidos : pedido[r].total = 1 /\ Chave(pedido[r]) = k
=============================================================================
