CONSTANTS
    p1 = p1  p2 = p2  v1 = v1  s1 = s1  k1 = k1
    d1 = d1  d2 = d2  c1 = c1  c2 = c2  n1 = n1  x1 = x1  x2 = x2  w1 = w1  t1 = t1
    a1 = a1  a2 = a2  a3 = a3
    Admin = Admin
    Nulo = Nulo
    Vendas = {v1, s1, k1}
    Sena = {s1}
    Cartao = {k1}
    Pedidos = {p1, p2}
    MaxAvisos = 2
    Compras = {x1, x2}
    Clientes = {c1, c2}
    Cpfs = {n1}
    CpfDe <- MCCpfDe
    Mascarados = {c2}
    Vendedores = {w1}
    Distribuidores = {d1, d2}
    ProdutoDe <- MCProdutoDe
    Quantidade <- MCQuantidade
    Chances <- MCChances
    Mensagens = {t1}
    Limite <- MCLimite
    MaxMensagens = 2
    MaxConta = 2
    VendasPos = {1, 2}
    Jobs = {j1}
    Paineis = {w1}
    LoteDoJob = 1
    Escritores = {a1, a2, a3}
    LinhasDoBanco = {1, 2}
    Roteiros <- MCRoteiros
    Conexoes = 2
    Conjuntos <- MCConjuntos
    MaxQuantidade = 2
    MaxVersoes = 1
SPECIFICATION MCSpec
SYMMETRY Simetria
INVARIANT ManutencaoBloqueia
CHECK_DEADLOCK FALSE
