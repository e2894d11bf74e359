------------------------------ MODULE Titulos ------------------------------
(***************************************************************************)
(* The titles of an edition: which ones a card of several chances takes,   *)
(* which ones a combo occupies, when a set of combos is accepted, and the  *)
(* cards of a sale found again from its titles (edicoes-setores.util,      *)
(* EdicoesService.validarCombos, relatorios-cabecas.util).                 *)
(*                                                                         *)
(* The range of a combo bounds the heads only: chance c of the card of     *)
(* head h is the title h + c * intervalo, and falls outside the range.     *)
(***************************************************************************)
EXTENDS Naturals

\* A combo: [origem, chances, inicio, fim, intervalo].
Cabecas(combo) == combo.inicio .. combo.fim
Cartela(cabeca, chances, intervalo) == {cabeca + c * intervalo : c \in 0 .. chances - 1}

\* expandirSetoresDoCombo: every title that the combo may deliver.
TitulosDoCombo(combo) ==
    UNION {Cartela(h, combo.chances, combo.intervalo) : h \in Cabecas(combo)}

\* calcularFaixaOcupadaPeloCombo
Faixa(combo) ==
    [inicio |-> combo.inicio, fim |-> combo.fim + (combo.chances - 1) * combo.intervalo]

\* Of two that are next to each other in the order of their first titles, whichever way the
\* sort leaves those that have the same one.
Seguidos(combos, a, b) ==
    /\ a # b /\ a.inicio <= b.inicio
    /\ \A c \in combos : c.inicio <= a.inicio \/ c.inicio >= b.inicio

\* Mutant: only the ranges of the heads are compared.
FaixaDasCabecas(combos) ==
    \A a, b \in combos : Seguidos(combos, a, b) => b.inicio > a.fim
\* In the order of their first titles, no combo begins where the one before goes on.
FaixasSeparadas(combos) ==
    \A a, b \in combos : Seguidos(combos, a, b) => Faixa(b).inicio > Faixa(a).fim

\* validarCombos
CombosValidos(combos) ==
    /\ combos # {}
    /\ \A a, b \in combos : a # b => <<a.origem, a.chances>> # <<b.origem, b.chances>>
    /\ \A c \in combos : c.fim >= c.inicio
    /\ FaixasSeparadas(combos)

\* reconstruirCartelasDaVenda, from the smallest title up: one that no smaller head took heads
\* a card, which takes its other chances that are left.
CabecasDaVenda(numeros, chances, intervalo) ==
    CHOOSE cabecas \in SUBSET numeros :
        \A n \in numeros :
            n \in cabecas <=> ~ \E h \in cabecas : h < n /\ n \in Cartela(h, chances, intervalo)
ReconstruirCartelas(numeros, chances, intervalo) ==
    LET cabecas == CabecasDaVenda(numeros, chances, intervalo)
        tomados(h) == UNION {Cartela(g, chances, intervalo) : g \in {x \in cabecas : x < h}}
    IN  {Cartela(h, chances, intervalo) \cap (numeros \ tomados(h)) : h \in cabecas}
=============================================================================
