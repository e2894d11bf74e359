\* One edition with two prizes and two tickets, two ADMIN requests, and the job.
SPECIFICATION MCSpec
CONSTANTS
    e1 = e1
    r1 = r1
    r2 = r2
    b1 = b1
    b2 = b2
    Nulo = Nulo
    Edicoes = {e1}
    Premios = {r1, r2}
    EdicaoDo <- MCEdicaoDo
    Bilhetes = {b1, b2}
    Bolas <- MCBolas
    Globo = {n1, n2}
    Pedidos = {p1, p2}
    Jobs = {j1}
SYMMETRY Simetria
CHECK_DEADLOCK FALSE
INVARIANTS
    SorteioConcorda
    GanhadorUnicoEmSerie
PROPERTIES
    PremiacaoJustaEmSerie
