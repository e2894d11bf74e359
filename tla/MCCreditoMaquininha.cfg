\* One machine that starts with 2 of at most 3, two sales of 0 or 2, two
\* requests at a time, fair.  The limit moves between "not configured" and 3.
\* Two sales of the machine, and the job.
SPECIFICATION MCFairSpec
CONSTANTS
    Maquininhas = {m1}
    v1 = v1  v2 = v2  p1 = p1  j1 = j1
    Vendas = {v1, v2}
    Pedidos = {p1, p2}
    Nulo = Nulo
    ValoresVenda = {0, 2}
    ValoresAjuste = {1}
    Limites = {0, 3}
    LimiteMaximo = 3
    CreditoInicial = 2
    MaxMovimentos = 2
\* When every sale of the machine is settled nothing is left to do.
CHECK_DEADLOCK FALSE
INVARIANTS
    ContaConfere
    CreditoSegueVenda
PROPERTIES
    RazaoComTeto
    TodoPedidoTermina
    PagaEResolvida
