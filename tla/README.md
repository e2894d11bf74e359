# Capital de Prêmios: verification project

TLA+ models of the back end in this repository (NestJS, Prisma over PostgreSQL,
Redis, BullMQ): the sales and the money they move, the credit of the card
machines, the life of the editions and their draws, the reservations and locks
in Redis, the webhooks of the gateways, the registrations of the networks, the
import of the catalogue, and what the panels and the public read of all that.
TLC checks the models on small instances; TLAPS proves the central invariants
for every value of the constants.

Run a model with `tlc -workers 2 -config X.cfg MCModule.tla`, a proof with
`tlapm Module_proofs.tla`. Every run, mutant, finding and theorem is listed in
`PROJECT.json`, and `map` there ties each definition to the lines it stands for.

## 1. Inventory

The program is a stateless HTTP server. Everything that lasts is in PostgreSQL
(and, for reservations, locks, caches and counters, in Redis), so a "component"
below is a service and the rows it writes; the concurrency is that of its
requests and jobs.

| component | state it keeps | operations | what makes it correct | modules |
|---|---|---|---|---|
| `maquininhas` | `Maquininha` (saldoCredito, limiteCredito, network, seller, deletedAt), `MovimentoCreditoMaquininha` | register, sale debit, refund, recharge, adjustment, limit, exclusion, link, history | no machine owes; the ledger is a chain that ends at the balance; a refund mirrors one consumption; a machine is operated from within its network | CreditoMaquininha, Frota |
| `vendas` and its job | `Venda`, `Bilhete`, `Comissao`, `ComissaoDistribuidor`, balances, `gatewayPayload` | create, charge, confirm, approve, cancel, change status, reconcile | a number has one buyer; balances equal commissions; an approved sale has its tickets; a paid sale is settled | Vendas, Reconciliacao, TravasDeLinha, Origem |
| `capital-sena/vendas-sena` | `VendaSena`, `CartelaSena`, two commissions | create, charge, confirm, cancel | cards follow the status and are created once; balances equal commissions | VendasSena, TravasDeLinha, Origem |
| `capital-sena/edicoes-sena` and its job | `EdicaoSena` | create, edit, open, close, remove; close expired, open next draft | one active edition; the status walks its edges; an expired edition closes | CicloSena |
| `capital-sena/sorteio-sena`, `apuracao-sena` | `ResultadoSena`, status of `CartelaSena` | type or correct a result, judge | judged only with a result; the bands of a finished edition are those of its result | CicloSena |
| `edicoes` and its job | `Edicao`, `Premio`, `EdicaoCombo` | create, update, open, close again, remove, maintenance; close expired | the status walks its edges; an expired edition closes; combos do not collide; an edition on sale has its stock | Sorteio, Matriz, Titulos, Vitrine |
| `sorteio` | `ResultadoPremio`, winner of `Premio` and `Bilhete` | start, mark, unmark, finish | a prize has one winner, whose numbers are all marked, and a ticket one prize; prize and result name the same winner | Sorteio, HallDaFama |
| `ranges` | `MatrizRange`, the job in the memory of a process | import CSV or XLSX in batches | the last valid line of a title is the one that counts; the status tells what happened | Matriz, Sequencias |
| `pos`, `loja-publica`, `whatsapp-api` | reservations, caches and counters in Redis, `MensagemFaleConosco` | show, reserve, extend, release, sell, poll, look up, contact | a promised number is delivered; what is shown is charged; who paid is told so | Reservas, Vitrine, Consultas, HallDaFama, FaleConosco |
| `pagamentos`, `common/redis` | the lock of a webhook in Redis | one handler per provider; choice of provider | a paid charge confirms its sale, once, however often and in whatever order it is notified | Pagamentos |
| `vendedores`, `distribuidores`, `auth` | `Vendedor`, `Distribuidor`, `Usuario` | register, approve, refuse, update, transfer, exclude, restore, log in | two logins agree; only the approved operate, and no longer when excluded | Cadastros |
| `clientes` | commercial link of `Cliente` | create, PATCH, purchase, transfer of its seller | a link is complete and stays in its network | Clientes, Origem |
| `qrcode` | link and image of a seller | generate, obtain, maintenance script | an image opens the shop of the link in its row | Links |
| `relatorios`, `dashboard` | none | panels, listings, files | the answers about the same sales add up | Paineis, Titulos |
| `auditoria` | `AuditLog` | written around every write | what is in the database has its record | Auditoria |

How they interact: `pos`, `loja-publica`, `whatsapp-api` and the ADMIN create
sales; a gateway answers through `pagamentos`, which confirms them; the POS asks
by polling and the reconciliation job sweeps what nobody asks about, and both
confirm too, with no common lock. An approval allocates numbers of the edition,
writes commissions and balances; on a card machine the same transaction debits
the machine. Editions open and close under the sales by hand and by job; the
draw and the judging read the tickets and cards the approvals left; the shop
shows the winners from a cache.

What is hard here, and what the models are about: almost every handler is
*read, decide, write* with awaits in between, under READ COMMITTED. Correctness
rests on a few conditional UPDATEs, row locks, unique indexes and `SET NX`, and
where one is missing two requests interleave. `hazards` in `PROJECT.json` lists
each place at its line with the properties that watch it.

## 2. Modelling conventions

* A request in flight is a record (`pedido[p]`): the step it is at and what it
  read. One action per statement or group of statements nothing can separate.
* A transaction's writes become visible in one action, its commit. Reads inside
  it happen in earlier actions: another request may commit in between, as READ
  COMMITTED allows. Where the row locks themselves matter (`CreditoMaquininha`,
  `TravasDeLinha`, the update of an edition in `Sorteio`) they are modelled.
* A failed request (an error, the end of the process) leaves what was committed:
  `Falhar`, `Reverter`, `Cair`.
* Numbers, sales and machines are model values or small integers; money counts in
  units; texts, images and JSON are reduced to the keys a property tells apart.
* The `MC` modules play several *scenes* in one run: the variable `cena` says
  which, and what a scene does not play stays as it began. A scene is a small
  instance of one module; nothing is shared between scenes but the clockwork of
  the run, so each has its own state space and the run is their union.
* History variables (`concorreu` and its likes) say that two requests, or a
  request and a job, have been in flight together. What the code promises only
  one request at a time is stated as `~concorreu => ...` (names that end in
  `EmSerie`) beside what it promises always. For the draw, the editions of the Sena
  and the sales, the variable and the specification that carries it are in modules
  of their own (`SorteioEmSerie`, `CicloSenaEmSerie`, `Produtos`), which the
  proofs use. A request that dies halfway and the next one are still "one at a
  time", so these properties cover every crash; sales, payments and the clock go on
  under it all the while.
* Other history variables (`furou`, `atropelado`, `disputada`, `cruzou` and so on)
  mark the known event after which a property is no longer claimed. They restrict
  what a property says, not what the actions do; section 4 names each. (`MCReservas`
  explores nothing after `furou`: all its properties are void there.)
* Definitions that begin with the comment `Mutant:` are wrong on purpose, used by
  no specification: each replaces one definition to show that a property notices.

## 3. Modules

**The credit.** `RazaoDeCredito` is the promise of the ledger: rows are appended
one at a time, each starts where the one before stopped, no machine goes below
zero, a sale consumes once and is refunded once. `CreditoMaquininha` is
`creditos-maquininha.service.ts` as transactions: `situacao`, `limite`, `saldo`,
`razao`, `venda`, the row lock `trava` and `pedido`. `AtualizarSaldo` is the
conditional `updateMany`, `Registrar` the ledger row and the commit.
`ImplementaRazao` is the refinement. `Frota` is the rest of
`maquininhas.service.ts` with the POS that reads a machine's history: the network
and seller of a machine, checked in one statement and written in another.

**The sales.** `CatalogoDeNumeros` is the promise of the stock: `Vender` gives
free numbers to one sale, `Liberar` takes all of a sale's numbers back. `Vendas`
is the life of a sale of Prêmios over all channels: `status`, the charge
(`cobranca`, `comGatewayId`), tickets `bilhetes` (pairs number, sale), the two
commissions and the two balances, the batch of each job, the requests. A POS
polling, a webhook, the ADMIN and the job end in the same `Alocar`/`Aprovar`.
`ImplementaCatalogo` is the refinement: a number's owner (`DonoDe`) is the sale
with its ticket. `VendasSena` is the same for Sena, where it differs: no stock,
no unique index on cards, commissions that do not depend on each other.
`Reconciliacao` is the job in the detail `Vendas` leaves out: the batch takes the
newest, a failed try cools down, the run holds a lock with a TTL, and every
writer of `gatewayPayload` (`carga`) writes it whole. `TravasDeLinha` is the order
in which the transactions of both products lock rows, with PostgreSQL's choice of
a victim; `Reservas` composes it with the keys in Redis (`PosseSpec`): both are what
a sale holds while it is made. `Origem` is whom a purchase credits.

**The editions.** `CicloSena`: ADMIN requests (`pedido`), the job (`ciclo`), the
result and the judging card by card, and beside them the requests that make, pay and
cancel the sales (`atendimento`), read and write apart: a confirmation reads PENDENTE
in one action and inserts its cards in another, a cancellation reads the sale, then its
cards, and writes later what it decided on them. `Sorteio`: the life of a Prêmios edition and
its draw; `status` and `vencida` (its closing has passed), the prizes with
`ganhador`, the `resultado` of each prize (balls marked and winner), the tickets
with `premiado`, the requests, the closing job. `update` with prizes holds the
row of the edition (`Travada`) until it commits; no other handler locks anything.
`CicloSenaEmSerie` and `SorteioEmSerie` add what they promise while one thing is
done at a time.
In both the sale is reduced to what it asks of the edition and what the draw or the
judging sees of it; the commissions are in `Vendas` and `VendasSena`. `HallDaFama` is what
the public reads of the winners, in three statements, and its cache.

**The catalogue.** `Matriz`: an import in batches, in the memory of one of several
processes, with lost batches and restarts, under an edition that is configured,
activated and sold. `Titulos`: the titles of a card and of a combo, when combos
collide, and the cards of a sale found again from its titles. `Sequencias` (with
recursive operators, so outside the proofs): the index of a card as a rank, by a
Feistel network that walks until it is in the domain. `Vitrine`: what each channel
shows, charges and delivers of the combos of an edition, each with code of its
own; `Canais` composes it.

**What comes from outside.** `Reservas`: the keys of POS, WhatsApp and shop in
Redis, command by command, with TTL and owner, and the sales made from them.
`Pagamentos`: the webhook of each provider under the distributed lock, repeated,
reordered and interrupted, and the provider a charge, a query or a cancellation
goes to. `Consultas`: who finds a sale, how many cards it has and whether it is
paid, in the panel, POS, shop and WhatsApp; a customer is a row, with a CPF that may be
stored with its mask (`Mascarados`) and be that of another row. `FaleConosco`: the contact form with
the throttler of its route and its limits, with Redis and without.

**The people.** `Cadastros`: networks and sellers, the two statuses, approval,
refusal, exclusion, restoration, and who may log in. `Clientes`: the commercial
link of a customer under PATCHes, purchases and transfers. `Links`: link and QR
code. `Paineis`: each panel, listing and file as the set of sales it adds up, of the product
of the page; the performance listings and the file of commissions read Prêmios whatever
page asks (`DosPremios`).
`Auditoria`: the trail around every write, and the second connection it needs.

How they compose: `CreditoMaquininha` refines `RazaoDeCredito` and `Vendas`
refines `CatalogoDeNumeros`. `Produtos` puts the sales of both products side by
side, with the history of what overlapped on each (`ProdutosSpec`), and adds the
editions of the Sena and their judging (`PlataformaSpec`); a step of one leaves the
rows of the others alone, as in the code. `Canais` puts the showcases, the webhooks, the consultations, the contact
form, the job with its payloads and the audit trail side by side in the same way, and `Redes` does it for the registrations, the
links of the customers, the purchases that credit a seller, the links of the sellers
and the machines: each keeps the network of its sellers as its own questions need it,
since a transfer may fall between any two of its steps. The editions see of a sale only what it asks of them,
and the sales see an edition that is on sale; a sale does not read its edition
after it was created, so neither side loses a behaviour. Where a module takes
another's operation as one step its header says so: the approval is one step in
`Pagamentos`, `Reconciliacao` and `Reservas`, whose questions are about what
surrounds it, and `Vendas` and `VendasSena` detail it.

## 4. Runs

| run | scenes | what they show | bounds |
|---|---|---|---|
| `credito` | credit; sales of the machine | balance, chain, refunds, sale and ledger together, maximum, refinement of the ledger; every request ends; a paid POS sale is settled by the job | 1 machine, 2 sales of 0 or 2, 2 requests, limit 0 or 3, ADMIN movements while the ledger has fewer than 2 rows; 2 sales, 1 request and the job |
| `vendas` | Prêmios; Sena; judging of the Sena | one buyer per number, balances, tickets, refinement of the catalogue; the same safety of Sena; judging only with a result, no card and no approval of a cancelled sale, and in series the right bands | 2 sales that collide on 4 numbers, 2 requests; 2 sales, 3 requests; 1 edition, 1 sale with one row of card, 2 results, 2 requests of the ADMIN, 2 of the sale, the job, of which 2 in flight, or 3 when a judging crosses two on the sale |
| `sorteio` | draw | prize and result name one winner; in series, one winner by the balls marked, one prize to a ticket, and the edges of an edition's life | 1 edition, 2 prizes, 2 tickets of the same 2 balls, 2 requests and the job, of which 2 in flight |
| `vivo` | Sena cycle; Prêmios closing; Hall of Fame; reconciliation | expired editions close, drafts open, the cached list of winners becomes right, a paid sale at the front of the batch is settled; in series, one active Sena edition and the edges of its life | 2 editions, 1 request, the job; 3 tickets, 2 prizes; 2 sales, a batch of 1 |
| `reservas` | reservations; row locks | a promised number is there, no key is orphaned, the selection is delivered; which circles of waits exist | 2 numbers, of which 2 requests at once want 3 at most, 1 POS, 1 WhatsApp, 1 sale of the shop; 3 sales and 3 transactions |
| `pagamentos` | charge and webhooks; channels; contact form; the job and the panel; audit trail; showcases | confirmed once, paid before approved, nobody notified waits; the channels agree; limits hold back and yield; the payload keeps its provider and reason; what is written has its record, and a connection left is enough to go on; what is shown is charged and delivered | 1 sale of 3 kinds, 2 notifications, 2 requests; 2 sales of 2 products, 2 networks, a customer stored twice, once with a mask; 1 message, 2 attempts; 2 sales, a batch of 1, 1 worker, 1 look; 3 writers, 2 rows, 2 connections; 5 sets of combos, 1 replacement, 2 units |
| `redes` | one network; two networks; customers; purchase; link; machines | logins agree, nobody operates unapproved or excluded, links of customers stay in their network, a sale credits who made it, an image opens the right shop, a machine stays in its network | 2 requests or 2 networks on the registrations; the other scenes play one part of `Redes` each, with 2 networks: 1 PATCH, 1 purchase, 2 requests on a link or a machine; 2 sellers; 1 machine with 2 sales |
| `matriz` | import; edition; sequences; panels | honest import, stock under an active edition, combos that do not collide, distinct ranks, answers that add up | files of up to 6 titles in batches of 2, 2 processes; a domain of 6; 2 sales, 2 sellers, 2 networks |

The last column summarises; the `.cfg` files and the `MC` modules hold the exact
values, and constraints inside an `MC` module (`Atores`, `Cabem`, `Poucos`, `SoConsultas`, `UmaDaSena`, `VencidaSemManutencao`, `UmaRede`,
`UmDeCadaVez`, `UmaMudanca`, `UmScript`, `UmaFrota`, `UmaVenda`, `UmQueMuda`,
`Sozinha`, `UmaDoJob`, `DoDia`, `EmOrdem`) name what a scene gives up to stay small: a third request in flight in the draw, a second sale of the shop, a second
seller that moves, two rows that move under one purchase, sessions and machines in
both networks, three in flight around the judging but for the case above, a poll of the sale of a
customer whose CPF has a mask or whose link moved after the sale (which no poll reads),
two notifications at once that PagBank sends of one sale of the Sena, maintenance of an
edition that has expired, a look of the panel during a
cancellation (the job, which writes the
same payload, still crosses it), a card or a sale of the Sena while the provider of the
day is one of two other PIX providers, and, once there is a charge, a third provider of the
day; writers of the trail, who are alike, in any order but that of their names.

Why these are enough: two requests make every race between two reads and two
writes of the same rows; a third meets the same guards. Two sales collide on a
stock of four numbers, two editions compete for being active, two balls make a
card that is partly marked, two tickets and two prizes a choice of each, two
networks a move from one to the other, two batches a title that comes back. What
is proved (section 6) holds without bounds. Deadlock checking is off where the
system may really stop: the sales of an instance are used up.

Each property of a run is a conjunction of named parts, each stated and commented
where it is defined; a run that fails names the conjunction, and the part is found
by checking it alone:

| run | property | parts |
|---|---|---|
| `credito` | `ContaConfere` | `TypeOK`, `SaldoNuncaNegativo`, `RazaoEncadeado` |
| | `CreditoSegueVenda` | `EstornoEspelhaConsumo`, `VendaERazaoAndamJuntos` |
| | `RazaoComTeto` | `ImplementaRazao` (refinement), `SoEstornoPassaDoMaximo` |
| | `TodoPedidoTermina`, `PagaEResolvida` | liveness, one each |
| `vendas` | `NumeroVendidoUmaVez`, `SaldosConferem`, `ImplementaCatalogo`, `VendaCoerenteEmSerie` | one each; the last for both products |
| | `BilhetesSeguemVenda` | `TypeOK`, `CartelasSeguemStatus`, `ComDistribuidorUmaVez` |
| | `SenaConfere` | of VendasSena: `TypeOK`, `SaldosDaSena`, `CartelasDaSena`, `DistribuidorDaSenaUmaVez` |
| | `ApuracaoConfere` | of CicloSena: `TypeOK`, `ResultadoAntesDeApurar`, `RemovidaSemRastro`, and `FaixasCorretas` in series |
| | `CicloDaSenaSegue` | of CicloSena: `CanceladaSemCartela`, `CanceladaNaoVolta`, and `CicloPermitido` in series |
| `sorteio` | `SorteioConcorda` | `TypeOK`, `PremioEResultadoConcordam` |
| | `GanhadorUnicoEmSerie` | `GanhadorUnico` in series |
| | `PremiacaoJustaEmSerie` | `PremiacaoJusta` and `CicloPermitido` in series |
| `vivo` | `CicloEmSerie` | `TypeOK`, and `UmaSoAtiva`, `CicloPermitido` in series |
| | `JobsAndam` | `ExpiradaEncerra` of both products, `RascunhoNaoEspera` |
| | `HallSegueOBanco` | `HallCompleto`, `EstadoEHallConcordam`, `HallAtualiza` |
| | `PagaDaFrenteEResolvida` | liveness |
| `reservas` | `ReservaConfere` | `TypeOK`, `SemReservaOrfa`, `PromessaVale` |
| | `SelecaoGarantida` | |
| | `ImpassesConhecidos` | of TravasDeLinha: `ImpasseTemCancelamento`, `EstornoDePremiosNaoCai` |
| `pagamentos` | `PagamentoAprovaUmaVez` | `TypeOK`, `ConfirmadaUmaVez`, `AprovadaFoiPaga`, `AvisadaNaoEspera` |
| | `EsperaNoProvedorCerto` | |
| | `VeQuemVendeu` | of Consultas: `FiltroNaoAlarga`, `PosEPainelConcordam`, `AchaPorCpf` |
| | `RespostasConcordam` | of Consultas: `CanaisContamIgual`, `PagoFoiAprovada` |
| | `ContatoConfere` | of FaleConosco: `MensagemUmaVez`, `RecusaTemMensagem`, `LimiteCede` |
| | `CargaNaoSePerde` | of Reconciliacao: `CargaNomeiaProvedor`, `MotivoFica` |
| | `TrilhaConfere` | of Auditoria: `TypeOK`, `EscritaTemRegistro`, `TrilhaEncadeadaEmSerie`, `ComFolgaNaoTrava` |
| | `OfertaSeCumpre` | of Vitrine: `TypeOK`, `CobraOQueMostrou`, `OfertaVale`, `PrecoIgualNosCanais`, `VendidoSeEntrega` |
| `redes` | `OperaQuemPode` | `TypeOK`, `StatusAndamJuntos`, `OperaSoAprovado`, `RecusadoForaDaFila`, `ExcluidoNaoOpera` |
| | `VinculoSobrevive` | of Clientes: `VinculoCoerente`, `NaoVaiParaOutraRede`, `VendedorNaoSeSolta` |
| | `CreditoTemOrigem` | of Origem: `CreditaQuemVendeu`, `RedeDoVendedor`, `ProdutosConcordam`, `ClienteSegueVenda`, `RecusadoSemRastro` |
| | `ImagemConfere` | of Links: `ImagemAbreALoja`, `ImagemDesenhaOLink` |
| | `FrotaConfere` | of Frota: `AparelhoNaRede`, `HistoricoDaRede`, `ListaNaoAlarga` (`FrotaEmSerie`) and `PaginasFecham` |
| `matriz` | `ImportacaoConfere` | `MatrizTypeOK`, `ImportacaoHonesta`, `UltimaLinhaVale` |
| | `CombosServem` | `AtivaComEstoque`, `CombosNaoColidem`, `RelatorioAchaAsCartelas` |
| | `RanksDistintos` | |
| | `PaineisFecham` | of Paineis: `SomaDaRede`, `RankingFecha`, `ListaTemLinha`, `ComissaoTemVenda`, `ClientesContidos`, `ArquivosFecham`, `ExcluidoContinuaSomando` |

What the marked properties do not claim, and after what:

* `PromessaVale`, `SemReservaOrfa`, `SelecaoGarantida`: after `furou`, which is a
  TTL that ends under its owner's feet, the shop's SETEX over a key of somebody, a
  sale that does not look at Redis, the same owner twice at once, or an extension
  that writes back a key undone since it was read;
* `ExcluidoNaoOpera`: of a registration in `atropelado`, whose exclusion fell
  between the read and the write of another handler;
* `HallCompleto`: of a list whose reading a draw or a cancellation crossed
  (`cruzou`); `EstadoEHallConcordam`: of a prize that two markings gave to two
  tickets (`empatados`);
* `ConfirmadaUmaVez`: of a sale that somebody confirmed without the common lock, or
  after it expired under its holder (`disputada`); `AprovadaFoiPaga`: of a sale the
  ADMIN approved (`pelaTela`); `AvisadaNaoEspera`: of a sale one of whose
  notifications ended without effect (`engolida`);
* `PagoFoiAprovada`: of an answer of the POS about a sale cancelled or refused while
  it polled (`cruzou`);
* `RecusaTemMensagem` and `LimiteCede`: after a stop between the counter and the
  message (`perdida`), or between INCR and EXPIRE (`parou`);
* `CargaNomeiaProvedor`: after an approval that brought a payload of its own
  (`trocada`); `MotivoFica`: of a sale cancelled while an agent was about to write
  (`cruzou`); `PagaDaFrenteEResolvida`: of a sale that leaves the window, or with a
  batch of newer pending ones before it, and while errors and stops come to an end;
* `CanceladaSemCartela` and `CanceladaNaoVolta`: of a sale that was being confirmed
  while it was being cancelled (`disputadas`);
* `AchaPorCpf`: of customers stored with a mask, of whose sales it says the opposite;
* `ComissaoTemVenda` and `SomaDaRede`, in their parts about performance and the file of
  commissions: of the Sena, which has none;
* `FaixasCorretas` (in `ApuracaoConfere`): after a judging that stopped midway (`interrompida`);
* `AparelhoNaRede`: of a seller that was moved; `HistoricoDaRede`: once a machine or
  a seller was (`mudou`);
* `ImagemDesenhaOLink`: after overlapping or interrupted generations, or a script
  that skipped the image (`desvio`), until a generation runs alone;
* `TrilhaEncadeadaEmSerie`: of writes in lots, second writes in one transaction and
  requests that failed (`opaca`).

Four runs end in a violation, of a sentence of the repository that the code does
not keep; `findings` quotes each one:

* `reserva_combo`: a WhatsApp order of one combo of two chances is approved with
  one ticket;
* `provedor_errado`: the approval replaces the payload that names the provider, so
  a cancellation may ask the wrong gateway;
* `manutencao`: WhatsApp sells an edition under maintenance;
* `sorteio_duas`: an edition opened while another is closed and not yet drawn.

### Met while modelling, not run

Behaviours the models contain, or that lie beside them, and against which no
property of ours speaks.

Sales and money:

* A cancellation takes back the seller's commission and never the distributor's
  (`vendas.service.ts:950-1016`, `vendas-sena.service.ts:596-654`);
  `REGRAS_DE_NEGOCIO.md:65` and `docs/SENA_BACKEND_IMPLEMENTACAO.md:835` speak of
  both. `VendaCoerenteEmSerie` therefore speaks of the seller's only.
* Two confirmations of a Sena sale without commissions both create its cards
  (`vendas-sena.service.ts:446`); `docs/SENA_BACKEND_IMPLEMENTACAO.md:573` says
  "webhook duplicado não duplica cartelas nem comissão".
* A confirmation of a Sena sale reads PENDENTE (`vendas-sena.service.ts:441-446`) before
  the transaction that writes APROVADO and its cards (`:460-490`), and a cancellation
  reads the cards (`:588-600`) before its own, which deletes cards only if it saw any.
  When the two cross, live cards may stay under a cancelled sale, and be judged, or a
  cancelled sale may be approved.
* The table of transitions (`vendas.service.ts:2657-2679`) is checked on a status
  read before the write: two requests that overlap leave it. A cancellation
  between the read and the commit of a confirmation is overwritten by APROVADO.
* A machine is excluded with credit when a recharge commits between the check and
  the write (`maquininhas.service.ts:342`; the comment at `:332` says "Excluir com
  saldo deixaria o crédito preso"). `lancarMovimento` conditions a recharge on the
  limit it read (`creditos-maquininha.service.ts:263-323`).
* The job takes the 20 newest pending POS sales, and unpaid ones never leave the
  batch: enough newer ones keep an older paid one out until it leaves the window
  of 180 minutes (`vendas.service.ts:769-777`). A look from the panel that fails
  puts the sale in cooldown for the job too, and `registrarFalha` and
  `registrarSucesso` write back the payload the batch had read.
* A Sena cancellation that has asked the gateway for the refund can be the victim
  PostgreSQL chooses in a deadlock: refunded, and still APROVADO. The call is made
  inside the transaction. (That a cancellation of Prêmios never is, once it has asked,
  is proved: its last row, the sale, is the last of every script of Prêmios.)
* The removal of an edition deletes its sales and commissions without taking these out
  of the balances (`edicoes.service.ts:468-507`). It reads RASCUNHO before its
  transaction, which does not ask again: the edition may be one that was opened and sold
  since, not only one that was set back to draft.

Webhooks, polling and reservations:

* Every webhook is answered 200, also when nothing was confirmed (busy lock, error,
  sale not found): only polling and job settle it then. Without Redis no webhook
  confirms. The lock of 30 s is not renewed, and the keys of an order and of its
  charge at PagBank do not exclude each other. A payment that arrives after the
  cancellation is answered JA_PROCESSADA.
* The panel's search by CPF compares the digits asked for with the column
  (`vendas.service.ts:837-851`), and so does WhatsApp's list of the orders of a customer:
  of a customer whose CPF is stored with a mask neither finds the sales. `cpf.util.ts:10-11`
  says that such rows may be left in the base and that reads accept both forms; the POS
  does (`pos.service.ts:1024-1030`), and can sell to that customer. `AchaPorCpf` says both
  halves.
* A POS polling answers APROVADO for a sale that was cancelled or refused meanwhile
  (`pos.service.ts:952`, `978`). WhatsApp's polling never confirms.
* `combosSelecionados` of the POS are validated and extended in Redis but not saved
  (`pos.controller.ts:749-752`, `807`; `create-venda.dto.ts:115-123`). A number
  reserved by WhatsApp can be sold by the shop, the ADMIN and sales that pick none.
  The shop writes padded keys that its own filter does not see. An extension of the
  POS reads a key and then writes it without a condition
  (`pos.service.ts:884-911`): it brings back a key that another request of the same
  operator, refused meanwhile, had undone. The proof of `ReservaConfere` needed this
  case, which the run's own bounds had left out. WhatsApp does not
  compare the quantity with `combosSelecionados`, nor look at `dataEncerramento`,
  and sells a UNITARIO card where no combo can deliver one.
* In the contact form a stop after the cooldown's SET NX makes the retry refused
  though nothing was saved; a counter that lost its EXPIRE refuses for ever;
  without Redis the limits are check-then-insert.

Editions, draws and catalogue:

* Two requests, or a request and the job, may leave two active Sena editions, and
  the job may open again one that was closed or judged since it read it. A card
  paid after the listing stays CONFIRMADA in a FINALIZADA edition; a judging that
  stopped keeps the bands it gave by a result corrected since
  (`apuracao-sena.service.ts:62`).
* In the draw, two markings at once lose a ball, or register two winners of one
  prize; a prize may be removed while its winner is registered; a ball unmarked
  after it made a winner leaves it the prize; a winner whose sale is cancelled
  leaves a prize that takes no more balls and shows no winner, and changes the Hall
  of Fame (the comment at `loja-publica.service.ts:114` counts finished draws only).
* A CSV batch whose INSERT fails is logged as one invalid line and the job ends
  "concluido" (`ranges.service.ts:440-463`); "409 if an import is running" holds
  per process. The last ball of a sequence ignores the rest of the rank
  (`edicoes-sequencia.util.ts:171-175`, used by seeds only).
* The WhatsApp view of the cards mixes the chances of different cards when two or
  more are sold together, the shop when sectors overlap; the legacy
  `valorCartela` takes the UMA_CHANCE price of any origin.

People, panels and trail:

* A PATCH of a seller empties the network of an unattended customer
  (`clientes.service.ts:304`, comment at `:255`); one written after a purchase takes
  the customer back; a transferred seller's customers keep the old network; a
  purchase refused after the link was written leaves the customer moved.
* A seller is restored outside a network that was excluded meanwhile, created under
  an inactive one, and attributed sales by a link when inactive; an exclusion races
  a PATCH and leaves an excluded row operating; approval and removal leave both
  stamps; nothing liquidates the balance that "Liquide o saque antes de excluir"
  asks for. The shop's login gives a token to an INATIVO customer.
* A machine moved between networks shows its history to the new one
  (`pos.service.ts:507`).
* Prêmios pays the seller's commission only inside the distributor's branch and
  falls back to a global percentage, Sena does neither.
* The maintenance script with CRIAR_AUSENTES writes a link beside an image it did
  not draw; overlapping generations may leave link and image apart.
* The Sena has no listing of performance and no file of commissions: those that there
  are read the sales and commissions of Prêmios (`distribuidores.service.ts:597-613`,
  `vendedores.service.ts:787-800`, `relatorios.service.ts:283`).
* The file of networks counts excluded sellers; the commission of a performance
  listing ignores the edition; a transferred seller's sales move in some panels and
  not in others; sales and commissions of one screen are two statements.
* The audit reads and writes through a second connection: as many transactions as
  connections (`.env.production.example:25`), each wanting one more, stall until
  Prisma's time limits; the record of a transaction that rolled back stays;
  `updateMany` leaves no values.

## 5. Fairness

No request of a user is obliged to arrive and none to fail.

`CreditoMaquininha!Justica`: strong fairness of each request's own steps;
PostgreSQL grants a row's lock in the order it was asked for.

`Vendas!Justica`: the steps of the job are fair, because BullMQ repeats it every
15 s and a sale in its window is in some batch again.

`CicloSena!Justica`: strong fairness of each step of the job: it is repeated
every 30 s and a query that is asked again and again does not fail for ever.

`Sorteio!Justica`: the same for the closing job, whose failures come to an end
(the row it updates may be held, and a run that waited must be the one that
writes); a transaction of `update` ends, by its commit or by Prisma's limit of 5 s.

`HallDaFama`: weak fairness of `Expirar`; Redis removes a key whose TTL passed.

`Reconciliacao!Justica`: the job is repeated (strong fairness of `MontarLote`, as
the lock may be held), a run goes on (`Andar`), the lock's TTL and the cooldowns
pass (`ExpirarTrava`, `Esfriar`), and errors and stops of the process come to an
end. Payments and looks from the panel are not fair.

## 6. Proofs

Eight modules beside the models, every leaf checked. Each follows the same
argument: an invariant `IInv` adds to the wanted properties what makes them
inductive, one lemma per action or group of actions carries it over a step, and
`Invariante` concludes `Spec => []IInv`.

| module | theorems | what the induction needs |
|---|---|---|
| `CreditoMaquininha_proofs` | `ContaSempreConfere`, from `CreditoTipado`, `SaldoSeguro`, `RazaoSempreEncadeado` | a request between its UPDATE and its commit holds the lock of its machine, and its `saldoTx` is the committed balance with the movement's effect (`TravaCoerente`); an unregistered machine has no ledger |
| | `CreditoSempreSegueVenda`, from `EstornoSempreEspelha`, `VendaERazaoSempreJuntos`; `RazaoSempreComTeto`, from `SoEstornoPassa`, `TransacoesImplementamRazao` | the rows of a sale are unique and typed, a request knows its sale, value and limit, a sale being made is nobody else's, and the status of a sale tells which rows it has |
| `Vendas_proofs` | `VendasTipadas`, `NumeroTemUmComprador`, `CarteirasConferem`, `VendasImplementamCatalogo` | a request about to commit holds as many numbers as the sale bought (`PedidoServe`); the commissions are finite sets |
| | `BilhetesSempreSeguem`, from `CartelasSempreSeguemStatus`, `DistribuidorPagoUmaVez` | no ticket precedes the distributor's row, which survives the cancellation |
| | `SenaSempreConfere`, `VendaSempreCoerenteEmSerie` (of `ProdutosSpec`) | alone, a request that is about to commit an approval or a cancellation has read the sale as it is (`Serie`, stated for each product); an approval that lost the unique index, or a cancellation whose commission is gone, undoes itself whole |
| | `ApuracaoSempreConfere`, `CicloDaSenaSempreSegue` (of `PlataformaSpec`) | the behaviours of the whole are behaviours of `CicloSenaEmSerie` (`PlataformaEhCiclo`), whose theorems are cited |
| `VendasSena_proofs` | `CarteirasDaSena`, `CartelasInteiras`, `SenaMaterializaUmaVez` | the distributor's row comes first; cards come in whole batches (arithmetic modulo `Quantidade`) |
| `Cadastros_proofs` | `SoOperaQuemPode`, from `CadastrosTipados`, `LoginsConcordam`, `SoAprovadoOpera`, `RecusadoNaoVolta`, `ExcluidoParou` | rows only advance since a request read them; a request that activates carries the stamp of an approval or serves who was approved, one that deactivates the stamp of a refusal or of nothing |
| | `VinculoSempreSobrevive` (of `RedesSpec`) | a PATCH of who is not the ADMIN read a customer of the network it acts for and names that network or none (`LeituraServe`) |
| | `CreditoSempreTemOrigem` (of `RedesSpec`) | the pair of a purchase was read of its body (`ParServe`) and, until its seller is moved, has the seller's network (`DaRede`); the link is the one that was there or that pair, until somebody else writes it |
| | `ImagemSempreConfere` (of `RedesSpec`) | a generation carries a link of its product and, alone, the one it drew; who was not alone is told in `desvio` (`GeracaoServe`); an image that differs from its row is one a generation is about to save (`Desenhada`) |
| | `FrotaSempreConfere` (of `RedesSpec`) | alone, what a request checked of a machine and its seller is still so, unless they moved (`TarefaEmDia`); every finite set of rows has its order (`HaOrdem`), in which a row's place is the number of later ones (`Posto`), so that what has the first rows of the two tables has them in the same places (`Mescla`) |
| `CicloSena_proofs` | `JulgadaComResultado` | a request that judges serves an edition with its result, over cards of that edition |
| | `RemocaoSemRastro`, `CanceladaFicaSemCartela`, `CanceladaNuncaVolta` | a request on a sale that exists keeps its edition (`VendasServem`), which is removed only without sales; unless disputed, no request confirms a sale that another cancels or has cancelled, and a cancellation that saw no card finds none (`NaoCruzam`, in `VInv`) |
| | `CicloSempreEmSerie`, `ApuracaoSempreConfere`, `CicloSempreSegue` (of `SerieSpec`) | alone, what a request or the job decided on is still so (`Decisoes`): the edition has the status it read, no other is active once the conflict was looked for, the draft the job chose is a draft; and the cards that have a band have the one of the result, unless a judging stopped (`Julgadas`) |
| `Edicoes_proofs` | `SorteioSempreConcorda`, from `SorteioTipado`, `GanhadorConcorda` | one update holds a row at a time (`TravaDeUm`) and the prizes it lists stay undeleted; what is not created has no winner |
| | `GanhadorSempreUnicoEmSerie`, `PremiacaoSempreJustaEmSerie` | alone, a marking that is about to register a winner holds the balls as they are in the row, and serves a prize without a winner (`EmDia`); a request that is about to write a status finds the one it accepted (`StatusEmDia`) |
| | `ImportacaoSempreConfere` (of `MatrizSpec`) | until it loses a batch, a job imported all that it read (`JobServe`), rows never leave the matrix (`Cresce`), and of what it read alone the last lines are there (`UltimasValem`), because a batch with a title twice is refused and whoever starts takes the solitude of the others (`SozinhaMesmo`) |
| | `CombosSempreServem` (of `MatrizSpec`) | what an activation read is in the matrix, and is what the edition has unless `trocada` (`EdicaoInv`): as many rows as the ranges have heads are all the heads (`ProntoEstoca`); neighbours apart are all apart (`ValidosNaoColidem`); from the smallest title up there is one way to find the heads (`CabecasUnicas`), and the cards sold are one (`VendaServe`) |
| | `PaineisSempreFecham` (of `PaineisSpec`) | a seller's commission is there exactly while its sale is approved, the distributor's from the approval on, and a sale names the network its seller is in unless the seller moved (`CreditoDaVenda`); where the code reads Prêmios only the theorem splits on the product |
| | `HallSempreCompleto` (of `HallDaFama!Spec`) | what a reader that no write crossed has read is what it would read now (`LeitorEmDia`), and the three statements, one after the other, are the Hall (`TresLeituras`), because a ticket wins a prize of its edition; of a prize registered once the row and the ticket name each other (`PremioServe`) |
| `Pagamentos_proofs` | `PagamentoSempreAprovaUmaVez`, `EsperaSempreNoProvedorCerto` | what a notification says was so and a charge that is taken back is of a sale that waits no more (`AvisoVerdadeiro`, `CobrancaCoerente`); of the requests that serve a sale nobody disputes one has the lock, and the sale it is about to approve was approved by nobody (`UmPorVez`); a notification answered is still about to act, or its sale waits no more (`Andamento`) |
| | `QuemVendeuSempreVe`, `RespostasSempreConcordam` (of `CanaisSpec`) | a poll in flight read a sale that waited, and whoever closed it since crossed the poll (`ConsultaCoerente`); the sale that gave a customer its link has the pair of that link (`DonaCoerente`), and a search by CPF matches every row of it without a mask (`Limpos`) |
| | `ContatoSempreConfere` (of `CanaisSpec`) | who made a counter is alone in it until it gives it a TTL (`ContadorSeu`); a request that saves finds no row in its cooldown and, with Redis, owns the key (`MensagemCoerente`) |
| | `CargaSempreFica` (of `CanaisSpec`) | whatever payload somebody carries of a sale names the provider, unless an approval replaced that of the sale (`Nomeia`), because rows and histories only advance (`Adianta`); who is about to write on a cancelled sale was crossed by the cancellation (`VaiEscrever`) |
| | `TrilhaSempreConfere` (of `CanaisSpec`) | who goes on has the record of every write before the one it is at (`RegistrosServem`), a row written outside a transaction is owed a record by who wrote it (`Devendo`), transactions keep disjoint rows (`CadaUmaSuas`), and alone what the records say of a row is the row, or what the one in course will find in it (`SoEle`); with the lists in the order of the rows, who waits for the last row of those awaited is kept by nobody |
| | `OfertaSempreSeCumpre` (of `CanaisSpec`) | a screen of the edition's version is in its showcase, and of an older one claims nothing (`TelaServe`); an offer in the showcase is read as it was shown, because no two combos of one origin have the same number of chances (`DaVitrine`, `OfertaAceita`); what was read can be delivered until the combos are replaced (`CompraServe`) |
| `Reservas_proofs` | `ReservaSempreConfere`, `SelecaoSempreGarantida` | until `furou`: a key a request has obtained is its own and one it created promised to nobody; a sale that waits holds the keys of its selection and no other sale selects them; what is being reserved is sold to nobody (`Seguro`) |
| | `ImpassesSempreConhecidos` (of `PosseSpec`) | each script takes its rows in one order (`Lugar`: of cancellations, or of sales and confirmations), tickets apart, and what a transaction has comes before what it has left (`EmOrdem`); in a circle of one kind who waits for the last row waits for a ticket, and so does the whole circle |

Assumptions are those of the constants, named in the modules
(`CreditoAssumption`, `VendasAssumption`, `CicloSenaAssumption`,
`SorteioAssumption`, `MatrizAssumption`, `PaineisAssumption`, `PagamentosAssumption`, `ConsultasAssumption`,
`ReconciliacaoAssumption`, `AuditoriaAssumption`, `VitrineAssumption`, `ReservasAssumption`, `TravasAssumption`,
`RedesAssumption` and the like) and evaluated by TLC in the runs; that the valid lines
of a file are a sequence of its lines is one of them, because `SelectSeq` is recursive;
`VendasSena_proofs` states its own, `Instancia`, in each theorem, and
`HallSempreCompleto` the `HallAssumption` that `MCVivo` evaluates. Two steps are
worth knowing. A number is sold once because `Aprovar` inserts only numbers of
`Livres`: that is what the unique index leaves of an allocation read before
another one committed; `AprovarVende` and `CancelarLibera` are then steps of the
catalogue, and `DonoFiel` says the owner `DonoDe` chooses is the sale with the
ticket. And `PremioEResultadoConcordam` survives `GravarPremios` only because no
second update, removal or creation touches the prizes of an edition whose row is
held.

What holds only in series is proved of the specification that carries the history:
the step that is taken leaves nothing overlapped, so whoever else there is is at
rest, and only the one who moves has read anything. In `Vendas_proofs` the modules
of the Sena are instances, and their theorems are cited with their own assumptions
(`InstanciaDaSena`, `SuposicaoDaSena`); `MesmoPasso` and `MesmoPassoDoCiclo` say that
an action of the composition is the same action of the instance that was proved.

Only model-checked: every liveness property, which the prover does not reach (in
`JobsAndam`, `HallAtualiza` of `HallSegueOBanco`, `TodoPedidoTermina`, `PagaEResolvida` and
`PagaDaFrenteEResolvida`); `RanksDistintos`, of `Sequencias`, which is recursive and
mixes bits; and everything of the modules that no row above names.

## 7. Plan

Done: credit, sales of both products, editions, judging and draw, reservations,
row locks, webhooks and provider, consultations, contact form, registrations,
customers, links, machines, import, titles, channels, panels, audit,
reconciliation; the proofs above.

Next, in this order:

1. The bot's registration and search of customers, and the refresh and recovery of
   a password, which need what `Clientes` and `Cadastros` already have.
2. The composition of `Pagamentos` with the steps of `Vendas`, now one step there.

## 8. Not modelled

* `capital-sena/cartelas-sena`, `saques`, `comissoes`, `bilhetes`, `usuarios`:
  stubs or read-only listings. (`saques` would move balances; nothing does yet.)
* `configuracao-comissao`, `banners`, `conteudo`: single rows, one write each.
* `migracao`: a one-off import by one ADMIN, row by row, each decided by the row
  alone. Read: a second import activates the user and not the seller; of two lines
  with one new e-mail the second is dropped.
* E-mail, S3 and Firestore, which only follow the database and whose failures are
  swallowed; filters, guards, documentation.
* Inside modelled components: the arithmetic of totals and percentages, padding and
  formatting, the layout of files, signatures of webhooks (taken as valid) and
  bodies (taken as truthful), the refresh and recovery of passwords, and the
  registration of customers by the bot.
