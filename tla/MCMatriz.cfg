\* Files of up to six titles in batches of two.
CONSTANTS
    a = a  b = b
    v1 = v1  v2 = v2  e1 = e1  e2 = e2  c1 = c1
    Vendas = {v1, v2}
    Vendedores = {s1, s2}
    Redes = {d1, d2}
    EdicoesLidas = {e1, e2}
    Clientes = {c1}
    EdicaoDe <- MCEdicaoDe
    ClienteDe <- MCClienteDe
    MaxMes = 2
    Vazio = Vazio
    Nada = Nada
    Processos = {w1, w2}
    Arquivos <- MCArquivos
    Lote = 2
    Titulo = {1, 2, 3, 4, 5, 6}
    Ofertas <- MCOfertas
    MaxVendas = 2
SYMMETRY Simetria
SPECIFICATION MCSpec
CHECK_DEADLOCK FALSE
INVARIANTS
    ImportacaoConfere
    CombosServem
    RanksDistintos

    
