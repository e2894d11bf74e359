-------------------------------- MODULE Links --------------------------------
(***************************************************************************)
(* The link and the QR code of a seller in the two shops: QrcodeService,   *)
(* the same steps for sellers and networks, for Capital de Premios and     *)
(* Capital Sena.                                                           *)
(*                                                                         *)
(* The link holds the name of the seller.  A generation reads the row,     *)
(* uploads the image to a key that never changes, and writes the row;      *)
(* another one, a change of the name or a PATCH of the link may fall in    *)
(* between, and the maintenance script writes links from a list that it    *)
(* read before.                                                            *)
(***************************************************************************)
EXTENDS Naturals, FiniteSets

CONSTANTS
    Pedidos,      \* generations in flight at the same time
    Nomes,        \* names of the seller
    Nulo

VARIABLES
    nome,
    linha,     \* linha[p]: [link, qrcode] of the product in the row of the seller
    imagem,    \* imagem[p]: the link drawn by the image at the key of the product, or Nulo
    pedido,    \* pedido[r]: [passo, produto, link, so]; so: no other of the product overlapped
    lista,     \* what the script has read: [nome, linha], or Nulo
    desvio     \* products whose link was written without an image, or by two requests at once

vars == <<nome, linha, imagem, pedido, lista, desvio>>

Produtos == {"premios", "sena"}
\* criarLinkLoja, criarLinkLojaSena
LinkDe(produto, n) == [loja |-> produto, nome |-> n]
\* A link that the ADMIN typed.
Avulso == [loja |-> "outra", nome |-> Nulo]
Livre == [passo |-> "livre", produto |-> Nulo, link |-> Nulo, so |-> TRUE]
Parado == \A r \in Pedidos : pedido[r] = Livre

\* A new seller has neither; one from before the column has an image and no link.
Init ==
    /\ nome \in Nomes
    /\ linha \in [Produtos -> {[link |-> Nulo, qrcode |-> FALSE], [link |-> Nulo, qrcode |-> TRUE]}]
    /\ imagem = [p \in Produtos |-> IF linha[p].qrcode THEN LinkDe(p, nome) ELSE Nulo]
    /\ pedido = [r \in Pedidos |-> Livre]
    /\ lista = Nulo /\ desvio = {}

\* The image on file is that of the link of the name.
Atual(p) == linha[p].qrcode /\ linha[p].link = LinkDe(p, nome)

\* gerarQrcode...: the image on file is used again if the link is that of the name and the
\* image can be fetched (obterBufferPorUrl).
Reutilizar(r, p) == pedido[r] = Livre /\ Atual(p) /\ UNCHANGED vars
Gerar(r, p) ==
    /\ pedido[r] = Livre
    /\ LET outros == {o \in Pedidos : pedido[o].produto = p} IN
       /\ pedido' = [o \in Pedidos |->
              IF o = r THEN [passo |-> "enviar", produto |-> p, link |-> LinkDe(p, nome), so |-> outros = {}]
              ELSE IF o \in outros THEN [pedido[o] EXCEPT !.so = FALSE] ELSE pedido[o]]
       /\ desvio' = IF outros # {} THEN desvio \cup {p} ELSE desvio
    /\ UNCHANGED <<nome, linha, imagem, lista>>

\* obterQrcode...Link: the link and the image on file, or a generation.
Obter(r, p) == IF Atual(p) THEN UNCHANGED vars ELSE Gerar(r, p)

\* Mutant: the image of Capital Sena is kept at the key of the other.
EnviarNaMesmaChave(r) ==
    /\ pedido[r].passo = "enviar"
    /\ imagem' = [imagem EXCEPT !["premios"] = pedido[r].link]
    /\ pedido' = [pedido EXCEPT ![r].passo = "gravar"]
    /\ UNCHANGED <<nome, linha, lista, desvio>>
\* uploadPublicObject, to a key of the seller and the product.
Enviar(r) ==
    /\ pedido[r].passo = "enviar"
    /\ imagem' = [imagem EXCEPT ![pedido[r].produto] = pedido[r].link]
    /\ pedido' = [pedido EXCEPT ![r].passo = "gravar"]
    /\ UNCHANGED <<nome, linha, lista, desvio>>

GravarGerado(r) ==
    /\ pedido[r].passo = "gravar"
    /\ linha' = [linha EXCEPT ![pedido[r].produto] = [link |-> pedido[r].link, qrcode |-> TRUE]]
    /\ pedido' = [pedido EXCEPT ![r] = Livre]
    /\ desvio' = IF pedido[r].so THEN desvio \ {pedido[r].produto} ELSE desvio
    /\ UNCHANGED <<nome, imagem, lista>>

\* The upload or the update fails, or the process stops: what was done stays.
Falhar(r) ==
    /\ pedido[r] # Livre
    /\ desvio' = IF pedido[r].passo = "gravar" THEN desvio \cup {pedido[r].produto} ELSE desvio
    /\ pedido' = [pedido EXCEPT ![r] = Livre]
    /\ UNCHANGED <<nome, linha, imagem, lista>>

-----------------------------------------------------------------------------
\* PATCH of the seller: a new name leaves link and image; a new link drops the image.
Renomear(n) ==
    /\ nome' = n
    /\ UNCHANGED <<linha, imagem, pedido, lista, desvio>>
TrocarLink ==
    /\ linha' = [linha EXCEPT !["premios"] = [link |-> Avulso, qrcode |-> FALSE]]
    /\ UNCHANGED <<nome, imagem, pedido, lista, desvio>>

\* atualizarLinksEQrcodesSellers reads every row first.
IniciarLote ==
    /\ lista = Nulo
    /\ lista' = [nome |-> nome, linha |-> linha]
    /\ UNCHANGED <<nome, linha, imagem, pedido, desvio>>
\* RECRIAR_TODOS, and CRIAR_AUSENTES of a row without an image, generate.
LoteGera(r, p, recriar) ==
    /\ lista # Nulo
    /\ recriar \/ ~lista.linha[p].qrcode
    /\ Gerar(r, p)
\* CRIAR_AUSENTES of a row with an image and no link: the link of the name that was read.
LoteGravaLink(p) ==
    /\ lista # Nulo /\ lista.linha[p].qrcode /\ lista.linha[p].link = Nulo
    /\ linha' = [linha EXCEPT ![p].link = LinkDe(p, lista.nome)]
    /\ desvio' = desvio \cup {p}
    /\ UNCHANGED <<nome, imagem, pedido, lista>>
TerminarLote ==
    /\ lista # Nulo /\ Parado
    /\ lista' = Nulo
    /\ UNCHANGED <<nome, linha, imagem, pedido, desvio>>

Next ==
    \/ \E r \in Pedidos : Enviar(r) \/ GravarGerado(r) \/ Falhar(r)
    \/ \E r \in Pedidos, p \in Produtos :
         Gerar(r, p) \/ Reutilizar(r, p) \/ Obter(r, p) \/ \E recriar \in BOOLEAN : LoteGera(r, p, recriar)
    \/ \E n \in Nomes : Renomear(n)
    \/ TrocarLink
    \/ IniciarLote \/ TerminarLote \/ \E p \in Produtos : LoteGravaLink(p)

Spec == Init /\ [][Next]_vars

-----------------------------------------------------------------------------
TypeOK ==
    LET Links == {LinkDe(p, n) : p \in Produtos, n \in Nomes} \cup {Avulso, Nulo} IN
    /\ nome \in Nomes /\ desvio \subseteq Produtos
    /\ linha \in [Produtos -> [link : Links, qrcode : BOOLEAN]]
    /\ imagem \in [Produtos -> Links]
    /\ pedido \in [Pedidos -> [passo : {"livre", "enviar", "gravar"}, produto : Produtos \cup {Nulo},
                               link : Links, so : BOOLEAN]]

\* Whatever the order of uploads and updates, the image of a product opens that product's
\* shop, and a row that says it has an image has one.
ImagemAbreALoja ==
    \A p \in Produtos :
        /\ imagem[p] # Nulo => imagem[p].loja = p
        /\ linha[p].qrcode => imagem[p] # Nulo

\* The image draws the link of the row, and an answer that uses both again tells the truth,
\* unless two generations overlapped, one stopped half way, or the script wrote a link
\* beside an image that it did not draw; a generation that runs alone repairs it.
ImagemDesenhaOLink ==
    \A p \in Produtos \ desvio :
        linha[p].qrcode /\ linha[p].link # Nulo /\ (\A r \in Pedidos : pedido[r].produto # p) =>
            imagem[p] = linha[p].link
=============================================================================
