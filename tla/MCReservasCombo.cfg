CONSTANTS
    p1 = p1  p2 = p2  o1 = o1  c1 = c1  v1 = v1  v2 = v2
    m1 = m1  f1 = f1  s1 = s1  t3 = t3  Nulo = Nulo
    VendasTx = {m1, f1, s1}
    SenaTx = {s1}
    ManuaisTx = {m1}
    NumerosTx = {1}
    EscolhaTx <- MCEscolhaTx
    PedidosTx = {p1, p2, t3}
    Loja = Loja  Ninguem = Ninguem
    Numeros = {1, 2, 3, 4}
    Bases = {1, 2}
    Salto = 2
    Chances = {2}
    Operadores = {}
    Clientes = {c1}
    Vendas = {v1}
    Pedidos = {p1}
    Formas = {"curta"}
    Quantidades = {1}
SPECIFICATION MCSpec
INVARIANT EntregaOQueCobra
CHECK_DEADLOCK FALSE
