\* Two editions, one request and the job of the scene.
SPECIFICATION MCFairSpec
CONSTANTS
    p1 = p1  e1 = e1  e2 = e2  r1 = r1  r2 = r2
    Nulo = Nulo
    Edicoes = {e1, e2}
    Cartelas = {}
    Vendas = {}
    EdicaoDaVenda <- SemCartela
    VendaDe <- SemCartela
    Atendimentos = {}
    Numeros <- SemCartela
    Extra <- SemCartela
    Resultados = {}
    Pedidos = {p1}
    Jobs = {j1}
CHECK_DEADLOCK FALSE
PROPERTIES
    CicloEmSerie
    JobsAndam
    HallSegueOBanco
    PagaDaFrenteEResolvida
