------------------------------- MODULE Matriz -------------------------------
(***************************************************************************)
(* The matrix of titles and the editions that sell from it: RangesService, *)
(* the combos of EdicoesService and the report of heads.                   *)
(*                                                                         *)
(* The ADMIN sends a file; the process that receives it answers at once    *)
(* and imports it in batches, keeping the job in its memory.  The API runs *)
(* several processes.  A batch may fail; what becomes of the failure       *)
(* depends on the format of the file.  Meanwhile the edition is created,   *)
(* its combos are replaced, it goes on sale, and sales take titles.        *)
(***************************************************************************)
EXTENDS Titulos, Sequences, FiniteSets, FiniteSetsExt

CONSTANTS
    Processos,    \* PM2 workers
    Arquivos,     \* files: [xlsx, linhas], each line [n, s], n = 0 when it is not valid
    Lote,         \* MATRIZ_BATCH_SIZE
    Titulo,       \* the numbers of the matrix
    Ofertas,      \* sets of combos that the ADMIN may send
    MaxVendas,    \* bound: sales
    Nada          \* no balls, no file, no activation

VARIABLES
    matriz,      \* matriz[n]: the balls of title n, or Nada
    importacao,  \* importacao[w]: currentJob of process w
    edicao,      \* [status, combos]
    ativacao,    \* the activation in flight: what it read, or Nada
    vendas,      \* sales: [chave, intervalo, cartelas], cartelas empty until approved
    trocada      \* history: the combos changed on sale, or under an activation

matrizVars == <<matriz, importacao, edicao, ativacao, vendas, trocada>>

SemJob == [estado |-> "sem_importacao_ativa", arquivo |-> Nada, lidas |-> 0, importados |-> 0,
           inicio |-> 0, final |-> 0, perdeu |-> FALSE, sozinha |-> FALSE]
SemEdicao == [status |-> "nenhuma", combos |-> {}]

MatrizInit ==
    /\ matriz = [n \in Titulo |-> Nada]
    /\ importacao = [w \in Processos |-> SemJob]
    /\ edicao = SemEdicao
    /\ ativacao = Nada /\ vendas = << >> /\ trocada = FALSE

-----------------------------------------------------------------------------
\* importarMatriz and the import that it starts.  A line that is not valid is passed over.
Validas(linhas) == SelectSeq(linhas, LAMBDA l : l.n # 0)
Linhas == UNION {{a.linhas[i] : i \in DOMAIN a.linhas} : a \in Arquivos}

\* A line with a number has balls; a combo has a chance at least, its titles an interval.
ASSUME MatrizAssumption ==
    /\ Lote \in Nat \ {0} /\ MaxVendas \in Nat
    /\ Titulo \subseteq Nat \ {0}
    /\ Nada \notin Arquivos \cup {l.s : l \in Linhas}
    /\ \A a \in Arquivos : Validas(a.linhas) \in Seq({l \in Linhas : l.n \in Titulo})
    /\ \A combos \in Ofertas :
         /\ IsFiniteSet(combos)
         /\ combos \subseteq [origem : {"DIGITAL", "FISICO"}, chances : Nat \ {0},
                               inicio : Nat, fim : Nat, intervalo : Nat \ {0}]

Numeros(linhas) == {linhas[i].n : i \in DOMAIN linhas}
EmAndamento(w) == importacao[w].estado = "em_andamento"

\* The job that says whether one is running is the one of the process that answers.
Enviar(w, a) ==
    /\ ~EmAndamento(w)
    /\ importacao' = [x \in Processos |->
           IF x = w
           THEN [SemJob EXCEPT !.estado = "em_andamento", !.arquivo = a,
                               !.sozinha = \A y \in Processos : ~EmAndamento(y)]
           ELSE [importacao[x] EXCEPT !.sozinha = FALSE]]
    /\ UNCHANGED <<matriz, edicao, ativacao, vendas, trocada>>

\* The lines of its file, and those of the batch that comes.
LinhasDe(w) == Validas(importacao[w].arquivo.linhas)
LoteDe(w) ==
    SubSeq(LinhasDe(w), importacao[w].lidas + 1, Min({importacao[w].lidas + Lote, Len(LinhasDe(w))}))
\* ON CONFLICT DO UPDATE does not touch a row twice in one statement: Postgres refuses it.
Repetido(lote) == Cardinality(Numeros(lote)) < Len(lote)

\* Mutant: a title that exists keeps its balls.
InserirSeNova(lote) ==
    [n \in Titulo |-> IF matriz[n] = Nada /\ n \in Numeros(lote)
                      THEN lote[CHOOSE i \in DOMAIN lote : lote[i].n = n].s ELSE matriz[n]]
\* executarInsertLote
Inserir(lote) ==
    [n \in Titulo |-> IF n \in Numeros(lote)
                      THEN lote[CHOOSE i \in DOMAIN lote : lote[i].n = n].s ELSE matriz[n]]

\* The least and the greatest number read, not inserted.
FaixaLida(w) ==
    LET ns == Numeros(SubSeq(LinhasDe(w), 1, importacao[w].lidas + Len(LoteDe(w))))
    IN  <<Min(ns), Max(ns)>>

\* flushLote, when the INSERT succeeds.
InserirLote(w) ==
    /\ EmAndamento(w) /\ LoteDe(w) # << >> /\ ~Repetido(LoteDe(w))
    /\ matriz' = Inserir(LoteDe(w))
    /\ importacao' = [importacao EXCEPT
           ![w].lidas = @ + Len(LoteDe(w)), ![w].importados = @ + Len(LoteDe(w)),
           ![w].inicio = FaixaLida(w)[1], ![w].final = FaixaLida(w)[2]]
    /\ UNCHANGED <<edicao, ativacao, vendas, trocada>>

\* The INSERT of a full batch of a CSV fails inside the try of the line that filled it,
\* which is logged as not valid: the batch is gone and the import goes on.
PerderLote(w) ==
    /\ EmAndamento(w) /\ ~importacao[w].arquivo.xlsx /\ Len(LoteDe(w)) = Lote
    /\ importacao' = [importacao EXCEPT ![w].lidas = @ + Lote, ![w].perdeu = TRUE]
    /\ UNCHANGED <<matriz, edicao, ativacao, vendas, trocada>>

\* Any other failure ends the import: of the INSERT of an XLSX or of the last lines of a
\* CSV, or of the reading of the file.
FalharImportacao(w) ==
    /\ EmAndamento(w)
    /\ importacao' = [importacao EXCEPT ![w].estado = "erro"]
    /\ UNCHANGED <<matriz, edicao, ativacao, vendas, trocada>>

ConcluirImportacao(w) ==
    /\ EmAndamento(w) /\ LoteDe(w) = << >>
    /\ importacao' = [importacao EXCEPT ![w].estado =
                          IF importacao[w].importados = 0 THEN "erro" ELSE "concluido"]
    /\ UNCHANGED <<matriz, edicao, ativacao, vendas, trocada>>

\* max_memory_restart, or a deploy: the job goes with the process.
ReiniciarProcesso(w) ==
    /\ importacao[w] # SemJob
    /\ importacao' = [importacao EXCEPT ![w] = SemJob]
    /\ UNCHANGED <<matriz, edicao, ativacao, vendas, trocada>>

-----------------------------------------------------------------------------
\* EdicoesService, what concerns combos.
EdicaoExiste == edicao.status # "nenhuma"
NaMatriz(ns) == ns \cap {n \in Titulo : matriz[n] # Nada}

\* resolverQtdNumerosCartela: each combo has a first title in the matrix.
ComMatriz(combos) == \A c \in combos : NaMatriz(Cabecas(c)) # {}

CriarEdicao(combos) ==
    /\ ~EdicaoExiste /\ CombosValidos(combos) /\ ComMatriz(combos)
    /\ edicao' = [status |-> "RASCUNHO", combos |-> combos]
    /\ UNCHANGED <<matriz, importacao, ativacao, vendas, trocada>>

\* update: the combos are replaced, whatever the status.
TrocarCombos(combos) ==
    /\ EdicaoExiste /\ CombosValidos(combos) /\ ComMatriz(combos) /\ combos # edicao.combos
    /\ edicao' = [edicao EXCEPT !.combos = combos]
    /\ trocada' = (edicao.status = "ATIVA" \/ ativacao # Nada)
    /\ UNCHANGED <<matriz, importacao, ativacao, vendas>>

\* obterInventarioRanges: the rows in any of the ranges against the sizes of the ranges, which
\* count a title once for each range that it is in.
CabecasPorCombo(combos) == UNION {{<<c, h>> : h \in Cabecas(c)} : c \in combos}
Pronto(combos) ==
    Cardinality(NaMatriz(UNION {Cabecas(c) : c \in combos})) >= Cardinality(CabecasPorCombo(combos))

PedirAtivacao ==
    /\ edicao.status = "RASCUNHO" /\ ativacao = Nada
    /\ Pronto(edicao.combos)
    /\ ativacao' = edicao.combos
    /\ UNCHANGED <<matriz, importacao, edicao, vendas, trocada>>
AtivarEdicao ==
    /\ ativacao # Nada
    /\ edicao' = [edicao EXCEPT !.status = "ATIVA"]
    /\ ativacao' = Nada
    /\ trocada' = (trocada /\ edicao.combos # ativacao)
    /\ UNCHANGED <<matriz, importacao, vendas>>

DesativarEdicao ==
    /\ edicao.status = "ATIVA"
    /\ edicao' = [edicao EXCEPT !.status = "RASCUNHO"]
    /\ UNCHANGED <<matriz, importacao, ativacao, vendas, trocada>>

\* remove takes the sales along; an activation that had read the edition fails.  It reads
\* RASCUNHO before its transaction, which asks no status again: every edition is a draft once,
\* so a request that read it then may commit while it is on sale.
RemoverEdicao ==
    /\ EdicaoExiste
    /\ edicao' = SemEdicao /\ ativacao' = Nada /\ vendas' = << >> /\ trocada' = FALSE
    /\ UNCHANGED <<matriz, importacao>>

-----------------------------------------------------------------------------
\* Sales, of which Vendas and Reservas tell the rest: the combo is chosen when the sale
\* is created and looked up again when it is approved.
ComboDe(chave) == {c \in edicao.combos : <<c.origem, c.chances>> = chave}

VenderCombo(combo) ==
    /\ edicao.status = "ATIVA" /\ Len(vendas) < MaxVendas
    /\ vendas' = Append(vendas, [chave |-> <<combo.origem, combo.chances>>,
                                 intervalo |-> 0, cartelas |-> {}])
    /\ UNCHANGED <<matriz, importacao, edicao, ativacao, trocada>>

Vendidos == UNION UNION {vendas[i].cartelas : i \in DOMAIN vendas}
\* Groups that are whole in the matrix, not sold and apart from each other.
Entregas(combo) ==
    LET livres == {g \in {Cartela(h, combo.chances, combo.intervalo) : h \in Cabecas(combo)} :
                       g \subseteq NaMatriz(g) /\ g \cap Vendidos = {}}
    IN  {gs \in SUBSET livres : gs # {} /\ Cardinality(gs) <= 2
                                 /\ \A a, b \in gs : a = b \/ a \cap b = {}}

AprovarVenda(i, combo, cartelas) ==
    /\ vendas[i].cartelas = {}
    /\ combo \in ComboDe(vendas[i].chave) /\ cartelas \in Entregas(combo)
    /\ vendas' = [vendas EXCEPT ![i].intervalo = combo.intervalo, ![i].cartelas = cartelas]
    /\ UNCHANGED <<matriz, importacao, edicao, ativacao, trocada>>

\* buscarCabecasDaEdicao: the interval is that of the combo of today.
IntervaloDe(chave) ==
    IF ComboDe(chave) = {} THEN 1 ELSE (CHOOSE c \in ComboDe(chave) : TRUE).intervalo
CartelasDoRelatorio(v) ==
    ReconstruirCartelas(UNION v.cartelas, v.chave[2], IntervaloDe(v.chave))

MatrizNext ==
    \/ \E w \in Processos :
         \/ \E a \in Arquivos : Enviar(w, a)
         \/ InserirLote(w) \/ PerderLote(w)
         \/ FalharImportacao(w) \/ ConcluirImportacao(w) \/ ReiniciarProcesso(w)
    \/ \E combos \in Ofertas : CriarEdicao(combos) \/ TrocarCombos(combos)
    \/ PedirAtivacao \/ AtivarEdicao \/ DesativarEdicao \/ RemoverEdicao
    \/ \E combo \in edicao.combos :
         \/ VenderCombo(combo)
         \/ \E i \in DOMAIN vendas, cartelas \in Entregas(combo) : AprovarVenda(i, combo, cartelas)

MatrizSpec == MatrizInit /\ [][MatrizNext]_matrizVars

-----------------------------------------------------------------------------
Gravadas(w) == SubSeq(LinhasDe(w), 1, importacao[w].importados)

MatrizTypeOK ==
    /\ matriz \in [Titulo -> {l.s : l \in Linhas} \cup {Nada}]
    /\ \A w \in Processos :
         \/ importacao[w] = [SemJob EXCEPT !.sozinha = importacao[w].sozinha]
         \/ /\ importacao[w].estado \in {"em_andamento", "concluido", "erro"}
            /\ importacao[w].arquivo \in Arquivos
            /\ 0 <= importacao[w].importados /\ importacao[w].importados <= importacao[w].lidas
            /\ importacao[w].lidas <= Len(LinhasDe(w))
            /\ {importacao[w].inicio, importacao[w].final} \subseteq Titulo \cup {0}
    /\ edicao.status \in {"nenhuma", "RASCUNHO", "ATIVA"} /\ edicao.combos \in Ofertas \cup {{}}
    /\ ativacao \in Ofertas \cup {Nada}
    /\ Len(vendas) <= MaxVendas
    /\ trocada \in BOOLEAN

\* While no batch is lost, what the panel shows of an import is true, also of one that
\* failed or is still running: the lines it counts are in the matrix, they lie between
\* the numbers it shows, and one that ended well has them all.
ImportacaoHonesta ==
    \A w \in Processos :
        LET ns == Numeros(Gravadas(w)) IN
        importacao[w].importados > 0 /\ ~importacao[w].perdeu =>
            /\ ns \subseteq NaMatriz(ns)
            /\ <<Min(ns), Max(ns)>> = <<importacao[w].inicio, importacao[w].final>>
            /\ importacao[w].estado = "concluido" => ns = Numeros(LinhasDe(w))

\* The balls of a title are those of its last line in the last file, when that import
\* lost nothing and no other process was importing.
UltimaLinhaVale ==
    \A w \in Processos :
        importacao[w].estado = "concluido" /\ importacao[w].sozinha /\ ~importacao[w].perdeu =>
            LET ls == LinhasDe(w) IN
            \A i \in DOMAIN ls :
                (\A k \in DOMAIN ls : ls[k].n = ls[i].n => k <= i) => matriz[ls[i].n] = ls[i].s

\* The matrix is what the panel says was imported, and of each title the last line.
ImportacaoConfere == MatrizTypeOK /\ ImportacaoHonesta /\ UltimaLinhaVale

\* An edition goes on sale with every head of its combos in the matrix, however the import
\* and the requests interleave, unless the combos changed under it.
AtivaComEstoque ==
    edicao.status = "ATIVA" /\ ~trocada =>
        \A c \in edicao.combos : Cabecas(c) = NaMatriz(Cabecas(c))

\* No title belongs to two combos of an edition, counting the chances that fall outside
\* the ranges: two sales of different combos never compete for a title.
CombosNaoColidem ==
    \A a, b \in edicao.combos : a # b => TitulosDoCombo(a) \cap TitulosDoCombo(b) = {}

\* The report of heads finds the cards that were sold, although a ticket does not say which
\* title heads its card, while the combo keeps the interval it had.
RelatorioAchaAsCartelas ==
    \A i \in DOMAIN vendas :
        vendas[i].intervalo = IntervaloDe(vendas[i].chave) =>
            CartelasDoRelatorio(vendas[i]) = vendas[i].cartelas

\* The combos of an edition on sale have their titles, each its own, and a sold card is found
\* again from them.
CombosServem == AtivaComEstoque /\ CombosNaoColidem /\ RelatorioAchaAsCartelas
=============================================================================
