\* Two networks, a registered seller and a customer between two sellers.
CONSTANTS
    d1 = d1  d2 = d2  v1 = v1  v2 = v2  r1 = r1  r2 = r2  p1 = p1  c1 = c1  m1 = m1  n1 = n1  n2 = n2
    Admin = Admin  Nulo = Nulo  Ausente = Ausente
    Publico = Publico  Estranho = Estranho
    Distribuidores = {d1, d2}
    Vendedores = {v1}
    Pedidos = {r1, r2}
    MaxTokens = 1
    Redes = {n1, n2}
    VendedoresDaLoja = {v1, v2}
    Clientes = {c1}
    Alteracoes = {p1}
    Nomes = {"a", "b"}
    Maquininhas = {m1}
    MaxVendas = 2
SPECIFICATION MCSpec
SYMMETRY Simetria
CHECK_DEADLOCK FALSE
INVARIANTS
    OperaQuemPode
    VinculoSobrevive
    CreditoTemOrigem
    ImagemConfere
    FrotaConfere
