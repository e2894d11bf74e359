------------------------------ MODULE MCMatriz ------------------------------
(***************************************************************************)
(* The catalogue and what is read of it in four scenes: two processes      *)
(* import files (Matriz); an edition is created, changed, activated and    *)
(* sold while one file comes in; the index of a card becomes a sequence    *)
(* (Sequencias); and the panels and the files add up the sales (Paineis).  *)
(***************************************************************************)
EXTENDS Matriz, Paineis, TLC

S == INSTANCE Sequencias

CONSTANTS a, b, v1, v2, e1, e2, c1

L(n, s) == [n |-> n, s |-> s]

\* Batches of two: an odd CSV with a line that is not valid, one that repeats a title in
\* another batch, one that repeats it in the same batch, and an XLSX.
Csv == [xlsx |-> FALSE, linhas |-> <<L(1, a), L(0, a), L(2, a), L(3, a), L(4, a), L(5, a)>>]
CsvRepete == [xlsx |-> FALSE, linhas |-> <<L(1, b), L(2, b), L(1, a)>>]
CsvRepeteNoLote == [xlsx |-> FALSE, linhas |-> <<L(6, a), L(6, b), L(2, b)>>]
Xlsx == [xlsx |-> TRUE, linhas |-> <<L(3, b), L(4, b), L(5, b), L(6, b)>>]
XlsxTudo == [xlsx |-> TRUE, linhas |-> [n \in 1 .. 6 |-> L(n, a)]]
MCArquivos == {Csv, CsvRepete, CsvRepeteNoLote, Xlsx, XlsxTudo}

C(chances, inicio, fim, intervalo) ==
    [origem |-> "DIGITAL", chances |-> chances, inicio |-> inicio, fim |-> fim, intervalo |-> intervalo]

\* Accepted: two chances at a distance of two, alone and with a combo beside it; at a
\* distance of one; two combos by range.  Refused: a head range inside the second chances
\* of another, before and after it; the same number of chances twice.
MCOfertas ==
    {{C(2, 1, 3, 1)}, {C(2, 1, 2, 2)}, {C(2, 1, 2, 2), C(1, 5, 6, 1)}, {C(2, 1, 3, 1), C(1, 5, 6, 1)},
     {C(1, 1, 2, 1), C(2, 3, 4, 2)},
     {C(2, 1, 2, 2), C(1, 3, 4, 1)}, {C(1, 4, 5, 1), C(2, 1, 2, 3)},
     {C(2, 1, 1, 1), C(2, 5, 5, 1)}}

VARIABLES cena, mistura

\* One customer buys once in each of two editions.
MCEdicaoDe == (v1 :> e1) @@ (v2 :> e2)
MCClienteDe == [v \in Vendas |-> c1]
\* Bound: of the two sellers one is moved, excluded, or both.
UmQueMuda == Cardinality(transferidos' \cup excluidos') <= 1
\* In the other scenes nothing is sold on the panels.
SemPaineis == PaineisInit /\ produto = "CDP" /\ \E d \in Redes : redeDe = [s \in Vendedores |-> d]

\* The halves of a domain of six, four values each; any hash for two rounds, some for the
\* others.
Metades == [0 .. 3 -> 0 .. 3]
Hashes == {<<f, g, [f EXCEPT ![0] = 1], g>> : f \in Metades, g \in {[h \in 0 .. 3 |-> k] : k \in 0 .. 3}}

MCInit ==
    /\ MatrizInit
    /\ \/ cena \in {"importacao", "edicao"} /\ mistura = << >> /\ SemPaineis
       \/ cena = "sequencia" /\ mistura \in Hashes /\ SemPaineis
       \/ cena = "paineis" /\ mistura = << >> /\ PaineisInit

Importacao(w) ==
    InserirLote(w) \/ PerderLote(w) \/ FalharImportacao(w) \/ ConcluirImportacao(w) \/ ReiniciarProcesso(w)

MCNext ==
    /\ UNCHANGED <<cena, mistura>>
    /\ \/ cena = "paineis" /\ PaineisNext /\ UmQueMuda /\ UNCHANGED matrizVars
       \/ cena = "importacao" /\ UNCHANGED paineisVars
          /\ \E w \in Processos : Importacao(w) \/ \E f \in Arquivos : Enviar(w, f)
       \/ cena = "edicao" /\ UNCHANGED paineisVars /\ MatrizNext
          /\ Cardinality({w \in Processos : importacao'[w] # SemJob}) <= 1
          /\ \A w \in Processos : importacao'[w].arquivo \in {Nada, XlsxTudo}
MCSpec == MCInit /\ [][MCNext]_<<matrizVars, paineisVars, cena, mistura>>

Simetria == Permutations(Processos) \cup Permutations(Vendedores) \cup Permutations(Redes)

\* Different indices have different ranks, whatever the hash: the network is a permutation,
\* and so is the walk that keeps it in the domain.
RanksDistintos ==
    cena = "sequencia" =>
        \A i, j \in 0 .. 5 : S!Permutar(mistura, 6, i) = S!Permutar(mistura, 6, j) => i = j
=============================================================================
