\* Two sales that compete for four numbers, two requests; v1 pays only its
\* distributor, v2 pays its seller too.  In the Sena, a third request.
\* In the judging, one card, a result and its correction, two requests and the job.
SPECIFICATION MCSpec
CONSTANTS
    v1 = v1
    v2 = v2
    e1 = e1
    c1 = c1
    j1 = j1
    Vendas = {v1, v2}
    Numeros = {1, 2, 3, 4}
    Pedidos = {p1, p2}
    Jobs = {}
    Nulo = Nulo
    Quantidade <- MCQuantidade
    Escolha <- MCEscolha
    VendasPos = {v1}
    ComVendedor = {v2}
    ComDistribuidor = {v1, v2}
    VendasDaSena = {v1, v2}
    PedidosSena = {p1, p2, p3}
    QuantidadeSena <- MCQuantidadeSena
    ComVendedorSena = {v1}
    ComDistribuidorSena = {v1, v2}
    EdicoesSena = {e1}
    CartelasSena = {c1}
    VendasApuradas = {v1}
    EdicaoDaVendaSena <- MCEdicao
    VendaDaCartela <- MCVenda
    AtendimentosSena = {p1, p2}
    NumerosDaCartela <- MCNumeros
    ExtraDaCartela <- MCExtra
    Resultados <- MCResultados
    PedidosAdmin = {p1, p2}
    JobsDoCiclo = {j1}
SYMMETRY Simetria
CHECK_DEADLOCK FALSE
INVARIANTS
    NumeroVendidoUmaVez
    SaldosConferem
    BilhetesSeguemVenda
    SenaConfere
    VendaCoerenteEmSerie
    ApuracaoConfere
PROPERTIES
    ImplementaCatalogo
    CicloDaSenaSegue
