------------------------------ MODULE Vitrine ------------------------------
(***************************************************************************)
(* What each channel shows of an edition of Capital de Premios, what it    *)
(* charges for it and what the approval can deliver.                       *)
(*                                                                         *)
(* The shop, the POS, the panel and WhatsApp each read the combos of the   *)
(* edition with code of their own (LojaPublicaService, PosService,         *)
(* VendasService, WhatsappApiService), and the approval looks the combo up *)
(* again.  Meanwhile the ADMIN replaces the combos, puts the edition under *)
(* maintenance, or its time passes.  One customer, one sale at a time.     *)
(***************************************************************************)
EXTENDS Naturals, FiniteSets, FiniteSetsExt

CONSTANTS
    Conjuntos,      \* sets of combos [origem, chances, preco] that the ADMIN may save
    MaxQuantidade,  \* bound: units of one sale
    MaxVersoes,     \* bound: times the combos are replaced
    Nulo

VARIABLES
    edicao,  \* [versao, combos, valorCartela, aberta, manutencao, vencida]
    tela,    \* what the customer has on the screen, or Nulo
    venda    \* the sale of the customer, or Nulo

vars == <<edicao, tela, venda>>

\* The PATCH deletes the combos and creates them again: an id does not outlive a version.
Id(combo, versao) == <<versao, combo.origem, combo.chances>>

\* resolverOrigemDoCombo
OrigemDoCombo(origem) == IF origem = "POS" THEN "DIGITAL" ELSE origem
DaOrigem(combos, origem) == {c \in combos : c.origem = OrigemDoCombo(origem)}
DeChances(combos, k) == {c \in combos : c.chances = k}

\* resolverValorCartelaLegado: the price of a combo of one chance, of whatever origin;
\* without one, a part of the smallest combo.
Legado(combos) ==
    IF DeChances(combos, 1) # {} THEN {c.preco : c \in DeChances(combos, 1)}
    ELSE LET menor == Min({c.chances : c \in combos})
             preco == Min({c.preco : c \in DeChances(combos, menor)})
         IN  {preco \div menor}

\* resolverConfiguracaoDaVenda: the combos that may be chosen; k = 0 asks for none.
Configuracao(combos, origem, k) ==
    LET daOrigem == DaOrigem(combos, origem) IN
    IF k # 0 THEN DeChances(daOrigem, k)
    ELSE IF DeChances(daOrigem, 1) # {} THEN DeChances(daOrigem, 1) ELSE daOrigem

Init ==
    /\ \E combos \in Conjuntos : \E v \in Legado(combos) :
         edicao = [versao |-> 0, combos |-> combos, valorCartela |-> v,
                   aberta |-> TRUE, manutencao |-> FALSE, vencida |-> FALSE]
    /\ tela = Nulo /\ venda = Nulo

-----------------------------------------------------------------------------
\* What each channel shows.  An offer without an id is bought with the numbers that the
\* customer picked, which the shop and the POS refuse together with an id.
Oferta(canal, origem, id, chances, preco) ==
    [canal |-> canal, origem |-> origem, id |-> id, chances |-> chances, preco |-> preco,
     versao |-> edicao.versao]

Digitais == DaOrigem(edicao.combos, "DIGITAL")
\* mapearOpcoesCompraDaEdicao
VitrineDaLoja ==
    {Oferta("LOJA", "DIGITAL", Id(c, edicao.versao), c.chances, c.preco) : c \in Digitais}
        \cup {Oferta("LOJA", "DIGITAL", Nulo, 1, c.preco) : c \in DeChances(Digitais, 1)}
\* listarOpcoesVenda
VitrineDoPos ==
    {Oferta("POS", "POS", Id(c, edicao.versao), c.chances, c.preco) : c \in Digitais}
        \cup {Oferta("POS", "POS", Nulo, 1, c.preco) : c \in DeChances(Digitais, 1)}
\* mapearOpcoesCompraDaCampanha: one card always, at valorCartela.
VitrineDoWhatsapp ==
    {Oferta("WHATSAPP", "DIGITAL", Nulo, 1, edicao.valorCartela)}
        \cup {Oferta("WHATSAPP", "DIGITAL", Nulo, c.chances, c.preco) :
                 c \in Digitais \ DeChances(Digitais, 1)}
\* listarCombosDisponiveis, by origin and number of chances.
VitrineDoPainel ==
    {Oferta("PAINEL", c.origem, Id(c, edicao.versao), c.chances, c.preco) : c \in edicao.combos}
Vitrine == VitrineDaLoja \cup VitrineDoPos \cup VitrineDoWhatsapp \cup VitrineDoPainel

\* The shop's home and the campaign show the edition that is ATIVA, also under maintenance.
Olhar(oferta) ==
    /\ edicao.aberta /\ oferta \in Vitrine
    /\ oferta.canal = "PAINEL" => ~edicao.manutencao /\ ~edicao.vencida
    /\ tela' = oferta
    /\ UNCHANGED <<edicao, venda>>

-----------------------------------------------------------------------------
\* The purchase: what it reads of the edition decides everything, the row comes later.
Venda(oferta, chances, preco, quantidade) ==
    [passo |-> "lida", canal |-> oferta.canal, origem |-> oferta.origem, chances |-> chances,
     quantidade |-> quantidade, total |-> preco * quantidade, visto |-> oferta.preco,
     vista |-> oferta.versao, lida |-> edicao.versao,
     parada |-> edicao.manutencao \/ edicao.vencida]

NaJanela == edicao.aberta /\ ~edicao.manutencao /\ ~edicao.vencida
PorId(combos, id) == {c \in combos : Id(c, edicao.versao) = id}

Confere(preco, quantidade, valor) == preco * quantidade = valor

\* LojaPublicaService.comprar: of the digital combos, by id or the default; the value sent
\* is that of the screen.
LerNaLoja(oferta, quantidade) ==
    {Venda(oferta, c.chances, c.preco, quantidade) :
        c \in {x \in IF oferta.id # Nulo THEN PorId(Digitais, oferta.id)
                     ELSE Configuracao(edicao.combos, "DIGITAL", 0) :
                   Confere(x.preco, quantidade, oferta.preco * quantidade)}}

\* VendasService.create, for the POS and the panel: the id gives a number of chances, and
\* the combo is looked up again by the origin.
LerNaVenda(oferta, quantidade) ==
    LET pedidas == IF oferta.id = Nulo THEN {0}
                   ELSE {c.chances : c \in PorId(edicao.combos, oferta.id)}
    IN  {Venda(oferta, c.chances, c.preco, quantidade) :
            c \in UNION {Configuracao(edicao.combos, oferta.origem, k) : k \in pedidas}}

\* Mutant: the pack is sold as the customer asks for it.
LerSemCombo(oferta, quantidade) == {Venda(oferta, oferta.chances, oferta.preco, quantidade)}
\* criarPedidoComPix: one card costs valorCartela, whether or not there is a combo for it.
LerNoWhatsapp(oferta, quantidade) ==
    IF oferta.chances = 1 THEN {Venda(oferta, 1, edicao.valorCartela, quantidade)}
    ELSE {Venda(oferta, c.chances, c.preco, quantidade) : c \in DeChances(Digitais, oferta.chances)}

\* WhatsApp looks at the status of the edition only.
Leituras(oferta, quantidade) ==
    CASE oferta.canal = "LOJA" /\ NaJanela -> LerNaLoja(oferta, quantidade)
      [] oferta.canal \in {"POS", "PAINEL"} /\ NaJanela -> LerNaVenda(oferta, quantidade)
      [] oferta.canal = "WHATSAPP" /\ edicao.aberta -> LerNoWhatsapp(oferta, quantidade)
      [] OTHER -> {}

Comprar(quantidade) ==
    /\ tela # Nulo /\ venda = Nulo
    /\ venda' \in Leituras(tela, quantidade)
    /\ UNCHANGED <<edicao, tela>>

CriarVenda ==
    /\ venda # Nulo /\ venda.passo = "lida"
    /\ venda' = [venda EXCEPT !.passo = "criada"]
    /\ UNCHANGED <<edicao, tela>>

\* alocarBilhetes, of a sale without selected numbers: one that finds no combo fails, and
\* the sale waits.
Aprovar ==
    /\ venda # Nulo /\ venda.passo = "criada"
    /\ Configuracao(edicao.combos, venda.origem, venda.chances) # {}
    /\ venda' = [venda EXCEPT !.passo = "aprovada"]
    /\ UNCHANGED <<edicao, tela>>

\* The customer buys again.
Recomecar ==
    /\ venda # Nulo /\ venda.passo # "lida"
    /\ venda' = Nulo /\ tela' = Nulo
    /\ UNCHANGED edicao

-----------------------------------------------------------------------------
TrocarCombos(combos) ==
    /\ edicao.versao < MaxVersoes
    /\ \E v \in Legado(combos) :
         edicao' = [edicao EXCEPT !.versao = @ + 1, !.combos = combos, !.valorCartela = v]
    /\ UNCHANGED <<tela, venda>>

MudarManutencao ==
    /\ edicao' = [edicao EXCEPT !.manutencao = ~@]
    /\ UNCHANGED <<tela, venda>>

\* dataEncerramento passes; the job closes the edition at its next run.
Vencer ==
    /\ ~edicao.vencida
    /\ edicao' = [edicao EXCEPT !.vencida = TRUE]
    /\ UNCHANGED <<tela, venda>>
Encerrar ==
    /\ edicao.vencida /\ edicao.aberta
    /\ edicao' = [edicao EXCEPT !.aberta = FALSE]
    /\ UNCHANGED <<tela, venda>>

Next ==
    \/ \E oferta \in Vitrine : Olhar(oferta)
    \/ \E quantidade \in 1 .. MaxQuantidade : Comprar(quantidade)
    \/ CriarVenda \/ Aprovar \/ Recomecar
    \/ \E combos \in Conjuntos : TrocarCombos(combos)
    \/ MudarManutencao \/ Vencer \/ Encerrar

Spec == Init /\ [][Next]_vars

-----------------------------------------------------------------------------
TypeOK ==
    /\ edicao.combos \in Conjuntos /\ edicao.valorCartela \in Legado(edicao.combos)
    /\ edicao.versao \in 0 .. MaxVersoes
    /\ {edicao.aberta, edicao.manutencao, edicao.vencida} \subseteq BOOLEAN
    /\ tela # Nulo => tela.canal \in {"LOJA", "POS", "WHATSAPP", "PAINEL"} /\ tela.versao <= edicao.versao
    /\ venda # Nulo => /\ venda.passo \in {"lida", "criada", "aprovada"}
                       /\ venda.vista <= venda.lida /\ venda.lida <= edicao.versao

Criada == venda # Nulo /\ venda.passo \in {"criada", "aprovada"}

\* A card of one chance sold where no combo has one.
SemCombo(v) == v.canal = "WHATSAPP" /\ v.chances = 1
               /\ DeChances(DaOrigem(edicao.combos, "DIGITAL"), 1) = {}

\* A sale costs what the screen said.  The combos may have been replaced since; even then
\* the shop does not charge another price.
CobraOQueMostrou ==
    Criada => \/ venda.total = venda.quantidade * venda.visto
              \/ venda.lida # venda.vista /\ venda.canal # "LOJA"

\* While the combos on the screen are those of the edition, and its window is open, what
\* the screen offers is accepted, for its price and its number of chances.
OfertaVale ==
    tela # Nulo /\ tela.versao = edicao.versao /\ NaJanela =>
        \A q \in 1 .. MaxQuantidade :
            /\ Leituras(tela, q) # {}
            /\ \A v \in Leituras(tela, q) : v.chances = tela.chances /\ v.total = q * tela.preco

\* Two channels that sell the same cards charge the same for them, when the combos of one
\* chance are all digital (valorCartela may come from one that is not).
PrecoIgualNosCanais ==
    DeChances(edicao.combos, 1) \subseteq Digitais =>
        \A a, b \in {o \in Vitrine : OrigemDoCombo(o.origem) = "DIGITAL"} :
            a.chances = b.chances /\ DeChances(Digitais, a.chances) # {} => a.preco = b.preco

\* What was sold can be delivered while the combos that it was sold from are there, but for
\* the single card of WhatsApp in an edition that has no combo for it.
VendidoSeEntrega ==
    Criada /\ venda.lida = edicao.versao /\ ~SemCombo(venda) =>
        Configuracao(edicao.combos, venda.origem, venda.chances) # {}

\* Maintenance blocks every sale in every channel, and so does the end of the sales.  The
\* code breaks it: WhatsApp looks at neither.
ManutencaoBloqueia == Criada => ~venda.parada
=============================================================================
