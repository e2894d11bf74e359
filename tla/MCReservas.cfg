CONSTANTS
    p1 = p1  p2 = p2  o1 = o1  c1 = c1  v1 = v1  v2 = v2
    m1 = m1  f1 = f1  s1 = s1  t3 = t3  Nulo = Nulo
    VendasTx = {m1, f1, s1}
    SenaTx = {s1}
    ManuaisTx = {m1}
    NumerosTx = {1}
    EscolhaTx <- MCEscolhaTx
    PedidosTx = {p1, p2, t3}
    Loja = Loja  Ninguem = Ninguem
    Numeros = {1, 2}
    Bases = {1, 2}
    Salto = 2
    Chances = {1}
    Operadores = {o1}
    Clientes = {c1}
    Vendas = {v1, v2}
    Pedidos = {p1, p2}
    Formas = {"curta"}
    Quantidades = {1}
SPECIFICATION MCSpec
SYMMETRY Simetria
CHECK_DEADLOCK FALSE
INVARIANTS
    ReservaConfere
    SelecaoGarantida
    ImpassesConhecidos
