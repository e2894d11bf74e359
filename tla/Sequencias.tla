----------------------------- MODULE Sequencias -----------------------------
(***************************************************************************)
(* The sequence of balls of a card from its index: the index is permuted   *)
(* by a Feistel network that walks on while it leaves the domain, and the  *)
(* result is the rank of a combination (edicoes-sequencia.util).  The hash *)
(* of the seed, SHA-256 in the code, is any function of round and half.    *)
(***************************************************************************)
EXTENDS Naturals, Sequences, Bitwise

\* calcularCombinacao: multiply and divide, exact at each step.
Combinacoes(n, k) ==
    IF k > n THEN 0
    ELSE LET limite == IF k < n - k THEN k ELSE n - k
             produto[i \in 0 .. limite] ==
                 IF i = 0 THEN 1 ELSE (produto[i - 1] * (n - limite + i)) \div i
         IN  produto[limite]

\* obterCombinacaoPorRank: the smallest ball from inicio on whose block of combinations
\* reaches the rank; the last ball is the next one, whatever is left of the rank.
RECURSIVE PorRank(_, _, _, _)
PorRank(inicio, n, k, rank) ==
    LET bloco == Combinacoes(n - inicio, k - 1) IN
    CASE k = 0 -> << >>
      [] k = 1 \/ (k > 1 /\ rank < bloco) -> <<inicio>> \o PorRank(inicio + 1, n, k - 1, rank)
      [] OTHER -> PorRank(inicio + 1, n, k, rank - bloco)

-----------------------------------------------------------------------------
Rodadas == 4

\* Mutant: the half is masked with the hash instead of mixed with it.
MisturarComE(a, b) == a & b
Misturar(a, b) == a ^^ b

\* permutarNoDominioBinario: mistura[rodada] is the hash, on halves below metade.
Feistel(mistura, metade, valor) ==
    LET lados[r \in 0 .. Rodadas] ==
            IF r = 0 THEN <<valor \div metade, valor % metade>>
            ELSE LET l == lados[r - 1] IN <<l[2], Misturar(l[1], mistura[r][l[2]])>>
    IN  lados[Rodadas][1] * metade + lados[Rodadas][2]

\* calcularBitsNecessarios, rounded up to two halves: the size of one half.
RECURSIVE Metade(_, _)
Metade(modulo, metade) == IF metade * metade >= modulo /\ metade > 1 THEN metade ELSE Metade(modulo, 2 * metade)

\* permutarIndice: walk on until the value falls in the domain.
RECURSIVE Permutar(_, _, _)
Permutar(mistura, modulo, valor) ==
    IF modulo <= 1 THEN 0
    ELSE LET p == Feistel(mistura, Metade(modulo, 1), valor)
         IN  IF p < modulo THEN p ELSE Permutar(mistura, modulo, p)
=============================================================================
