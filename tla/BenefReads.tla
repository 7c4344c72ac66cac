------------------------------ MODULE BenefReads ------------------------------
(***************************************************************************)
(* What the API reads from the SQLite history of the Beneficiamento while  *)
(* the runner goes on writing it: overview, the dyeing panel and the       *)
(* drill-down by pages (beneficiamento/contracts/, data/queries.py,        *)
(* routers/beneficiamento.py). Every statement of a request reads what is  *)
(* committed when it runs.                                                 *)
(*                                                                         *)
(*   hist[r]  the row r, a phase of an OB: its day (None: no DATA_FIM), kg *)
(*            and minutes late, or Absent; rows are numbered by their key  *)
(*   req      a request: its step, what it asked for, the window and what  *)
(*            it has answered so far                                       *)
(*                                                                         *)
(* Each row has a machine and phase, a product and a shift of its own, and *)
(* a product of the overview can be clicked for its detail.                *)
(* History: seen[r], how often the pages listed the row; calm, that no     *)
(* row was written since the request, or the overview clicked in, began.   *)
(***************************************************************************)
EXTENDS Integers, FiniteSets, FiniteSetsExt, SequencesExt

CONSTANTS
  Row,
  Dyed,       \* the rows of CODIGO_FASE 40
  Coded,      \* the rows with a product code
  Day, Kg, Late,
  Span,       \* days of the default window
  DayLimit,   \* LIMIT 90 of the daily series
  KgLimit,    \* LIMIT 20 of the machines and phases, by kg
  TopLimit,   \* the first ten of them, by score
  RankLimit,  \* LIMIT 12 and 20 of the other rankings, by kg
  OptionLimit,\* LIMIT 160 of the values of a filter
  PageLimit,
  Absent, None,
  MaxWrites   \* bound: writes of the runner

ReadsAssumption ==
  /\ Row \subseteq Nat /\ Dyed \subseteq Row /\ Coded \subseteq Row
  /\ {Span, DayLimit, KgLimit, TopLimit, RankLimit, OptionLimit, PageLimit} \subseteq Nat \ {0} /\ MaxWrites \in Nat
  /\ Day \cup Kg \cup Late \subseteq Nat /\ None \notin Day

VARIABLES hist, req, seen, calm, writes

vars == <<hist, req, seen, calm, writes>>

Record == [day : Day \cup {None}, kg : Kg, late : Late]
Date == Int \cup {None}
NoRows == [r \in {} |-> Absent]
Idle == [pc |-> "idle", kind |-> "overview", from |-> None, to |-> None, max |-> None, asked |-> <<None, None>>,
         data |-> NoRows, kg |-> 0, series |-> NoRows, shifts |-> 0, top |-> {}, ranked |-> {}, options |-> {},
         clicked |-> None, summary |-> 0, total |-> 0, page |-> 0]

TypeOK ==
  /\ hist \in [Row -> Record \cup {Absent}]
  /\ req.pc \in {"idle", "window", "dataset", "kpis", "rankings", "series", "shifts", "count", "page", "done"}
  /\ req.kind \in {"overview", "dyeing", "detail"} /\ {req.from, req.to} \cup Range(req.asked) \subseteq Date
  /\ UNION {DOMAIN req.data, req.top, req.ranked, req.options} \subseteq Row /\ DOMAIN req.series \subseteq Day
  /\ req.clicked \in Row \cup {None}
  /\ {req.kg, req.shifts, req.summary, req.total, req.page} \subseteq Nat
  /\ seen \in [Row -> Nat] /\ calm \in BOOLEAN /\ writes \in 0..MaxWrites
-----------------------------------------------------------------------------
(* Queries, of a set of rows given as a function. *)

Sum(f, S) == MapThenSumSet(LAMBDA r : f[r].kg, S)
KgOf(f) == Sum(f, DOMAIN f)

\* The first n of a set in an order.
Firsts(S, n, Before(_, _)) == {x \in S : Cardinality({y \in S : Before(y, x)}) < n}

Stored == {r \in Row : hist[r] # Absent}
Scope(kind) == IF kind = "dyeing" THEN Stored \cap Dyed ELSE Stored

\* _build_filtered_where: a row without DATA_FIM satisfies no comparison.
InWindow(r, from, to) ==
  (from = None /\ to = None) \/ (hist[r].day # None /\ hist[r].day >= from /\ hist[r].day <= to)

\* _target_filter: a product without a code is asked for by its label, Sem
\* código, which is nobody's code.
Target(clicked) == IF clicked = None THEN Row ELSE {clicked} \cap Coded

\* Mutated form: the blocks query the history.
DatasetLive == [r \in {x \in Scope(req.kind) \cap Target(req.clicked) : InWindow(x, req.from, req.to)} |-> hist[r]]

\* The temporary table of the overview; the dyeing panel has none.
Dataset == IF req.kind = "overview" THEN req.data ELSE DatasetLive

\* volume_diario: one sum for each of the first days.
Series(f) ==
  LET days == {f[r].day : r \in DOMAIN f} \ {None}
  IN  [d \in Firsts(days, DayLimit, <) |-> Sum(f, {r \in DOMAIN f : f[r].day = d})]

Score(x) == 10 * x.late + x.kg
Heavier(f, a, b) == f[a].kg > f[b].kg \/ (f[a].kg = f[b].kg /\ a < b)
Worse(f, a, b) == Score(f[a]) > Score(f[b]) \/ (Score(f[a]) = Score(f[b]) /\ a < b)

\* _build_gargalos: the machines and phases with most kg, and of these the
\* ones with the highest score.
Bottlenecks(f) ==
  LET heavy == Firsts(DOMAIN f, KgLimit, LAMBDA a, b : Heavier(f, a, b))
  IN  Firsts(heavy, TopLimit, LAMBDA a, b : Worse(f, a, b))

\* Phases, products, sectors and the treemap: the first by kg.
Ranking(f) == Firsts(DOMAIN f, RankLimit, LAMBDA a, b : Heavier(f, a, b))

\* _fetch_filter_options: the first values by name.
Options(f) == Firsts(DOMAIN f, OptionLimit, <)

\* ORDER BY DATA_FIM DESC, NUMERO_OB DESC, SEQ: the newest first, NULLs last.
Newer(f, a, b) ==
  LET at(r) == IF f[r].day = None THEN -1 ELSE f[r].day
  IN  at(a) > at(b) \/ (at(a) = at(b) /\ a > b)

PageOf(f, n) ==
  LET rank(r) == Cardinality({x \in DOMAIN f : Newer(f, x, r)})
  IN  {r \in DOMAIN f : rank(r) >= (n - 1) * PageLimit /\ rank(r) < n * PageLimit}

Pages(total) == IF total = 0 THEN 1 ELSE (total + PageLimit - 1) \div PageLimit
-----------------------------------------------------------------------------
Init ==
  /\ hist \in [Row -> {Absent}] /\ req = Idle
  /\ seen = [r \in Row |-> 0] /\ calm = TRUE /\ writes = 0

\* salvar_historico of the runner: INSERT OR REPLACE in one transaction.
Write(S, x) ==
  /\ writes < MaxWrites /\ writes' = writes + 1
  /\ hist' = [r \in Row |-> IF r \in S THEN x ELSE hist[r]]
  /\ calm' = FALSE
  /\ UNCHANGED <<req, seen>>

Ask(kind, from, to) ==
  /\ req.pc = "idle"
  /\ req' = [Idle EXCEPT !.pc = "window", !.kind = kind, !.from = from, !.to = to, !.asked = <<from, to>>]
  /\ seen' = [r \in Row |-> 0] /\ calm' = TRUE
  /\ UNCHANGED <<hist, writes>>

\* The last day of the window: the one asked for, else the last of the history.
EndOf(max) == IF req.to # None THEN req.to ELSE IF max # None THEN max ELSE req.from

Dated == req.asked # <<None, None>>

\* _resolve_overview_window and _resolve_window.
Window ==
  /\ req.pc = "window"
  /\ LET days == {hist[r].day : r \in Scope(req.kind)} \ {None}
         max == IF days = {} THEN None ELSE Max(days)
         to == IF max = None /\ ~Dated THEN None ELSE EndOf(max)
     IN  req' = [req EXCEPT !.pc = [overview |-> "dataset", dyeing |-> "kpis", detail |-> "count"][req.kind],
                            !.max = max, !.to = to,
                            !.from = IF req.from # None \/ to = None THEN req.from ELSE to - Span + 1]
  /\ UNCHANGED <<hist, seen, calm, writes>>

\* _build_filtered_dataset
Collect ==
  /\ req.pc = "dataset"
  /\ req' = [req EXCEPT !.pc = "kpis", !.data = DatasetLive]
  /\ UNCHANGED <<hist, seen, calm, writes>>

\* One statement for each block of the answer.
Kpis ==
  /\ req.pc = "kpis"
  /\ req' = [req EXCEPT !.pc = "rankings", !.kg = KgOf(Dataset)]
  /\ UNCHANGED <<hist, seen, calm, writes>>

Rankings ==
  /\ req.pc = "rankings"
  /\ req' = [req EXCEPT !.pc = "series", !.ranked = Ranking(Dataset), !.options = Options(Dataset),
                        !.top = IF req.kind = "overview" THEN Bottlenecks(Dataset) ELSE {}]
  /\ UNCHANGED <<hist, seen, calm, writes>>

DailySeries ==
  /\ req.pc = "series" /\ req' = [req EXCEPT !.pc = "shifts", !.series = Series(Dataset)]
  /\ UNCHANGED <<hist, seen, calm, writes>>

Shifts ==
  /\ req.pc = "shifts" /\ req' = [req EXCEPT !.pc = "done", !.shifts = KgOf(Dataset)]
  /\ UNCHANGED <<hist, seen, calm, writes>>

\* obter_detail_historico: the total, then the rows of a page and their summary.
Count ==
  /\ req.pc = "count"
  /\ req' = [req EXCEPT !.pc = "page", !.total = Cardinality(DOMAIN DatasetLive), !.page = @ + 1]
  /\ UNCHANGED <<hist, seen, calm, writes>>

ReadPage ==
  /\ req.pc = "page"
  /\ LET page == PageOf(DatasetLive, req.page) IN
     /\ req' = [req EXCEPT !.pc = "done", !.data = [r \in page |-> hist[r]],
                           !.summary = MapThenSumSet(LAMBDA r : hist[r].kg, page)]
     /\ seen' = [r \in Row |-> seen[r] + (IF r \in page THEN 1 ELSE 0)]
  /\ UNCHANGED <<hist, calm, writes>>

\* A click on a product of the overview: its detail, with the dates the
\* overview was asked for.
Click(r) ==
  /\ req.kind = "overview" /\ req.pc = "done" /\ r \in req.ranked
  /\ req' = [Idle EXCEPT !.pc = "window", !.kind = "detail", !.from = req.asked[1], !.to = req.asked[2],
                         !.asked = req.asked, !.clicked = r]
  /\ UNCHANGED <<hist, seen, calm, writes>>

\* The drawer asks for the next page, with the same dates.
NextPage ==
  /\ req.kind = "detail" /\ req.pc = "done" /\ req.page < Pages(req.total)
  /\ req' = [req EXCEPT !.pc = "count"]
  /\ UNCHANGED <<hist, seen, calm, writes>>

Close == req.pc = "done" /\ req' = Idle /\ UNCHANGED <<hist, seen, calm, writes>>

Next ==
  \/ \E S \in SUBSET Row \ {{}} : \E x \in Record : Write(S, x)
  \/ \E kind \in {"overview", "dyeing", "detail"} : \E from, to \in Day \cup {None} : Ask(kind, from, to)
  \/ \E r \in Row : Click(r)
  \/ Window \/ Collect \/ Kpis \/ Rankings \/ DailySeries \/ Shifts \/ Count \/ ReadPage \/ NextPage \/ Close

Spec == Init /\ [][Next]_vars
-----------------------------------------------------------------------------
Answered(kind) == req.kind = kind /\ req.pc = "done"

\* The blocks of an overview speak of one state of the history, whatever is
\* written between its statements: what the shifts add up to is the total, the
\* days are those of the recorte, and what a ranking lists can be chosen as a
\* filter, where the values are no more than the options hold.
BlocksAgree ==
  Answered("overview") =>
    /\ req.shifts = req.kg
    /\ \A d \in DOMAIN req.series : req.series[d] = Sum(req.data, {r \in DOMAIN req.data : req.data[r].day = d})
    /\ Cardinality(DOMAIN req.data) <= OptionLimit => req.ranked \cup req.top \subseteq req.options

\* Without dates the recorte is the days that end on max_data_fim, with that
\* day in it unless the runner has moved its rows meanwhile, and nothing after.
DefaultWindow ==
  Answered("overview") /\ ~Dated /\ req.max # None =>
    /\ req.to = req.max
    /\ \A r \in DOMAIN req.data : req.data[r].day \in (req.max - Span + 1)..req.max
    /\ calm => \E r \in DOMAIN req.data : req.data[r].day = req.max

\* Whoever turns all pages while nothing is written has every row once.
PagesComplete ==
  (Answered("detail") /\ calm /\ req.page = Pages(req.total)) =>
    \A r \in Stored \cap Target(req.clicked) : seen[r] = IF InWindow(r, req.from, req.to) THEN 1 ELSE 0

\* A product of the overview that has a code opens on its own rows, however
\* the window was chosen, unless the runner has written meanwhile.
ClickedIsFound ==
  Answered("detail") /\ calm /\ req.clicked \in Coded /\ req.page = 1 => DOMAIN req.data = {req.clicked}

\* Violated: "Retorna o drill-down operacional paginado para clique na UI", and
\* the products without a code are listed, can be clicked and open on nothing.
ClickOpens == Answered("detail") /\ calm /\ req.clicked # None => req.total > 0

\* Violated: "reaproveitamento do mesmo recorte filtrado para todos os blocos
\* analíticos", and the series leaves out its last days.
SeriesHasLastDay ==
  Answered("overview") => \A r \in DOMAIN req.data : req.data[r].day # None =>
    \E d \in DOMAIN req.series : d >= req.data[r].day

\* Violated: "top-10 combinações máquina/fase por score de gargalo".
WorstIsListed ==
  Answered("overview") /\ DOMAIN req.data # {} =>
    \E r \in req.top : \A x \in DOMAIN req.data : Score(req.data[r]) >= Score(req.data[x])

\* Violated: "summary: resumo operacional do alvo".
SummaryIsOfTarget == Answered("detail") /\ calm => req.summary = KgOf(DatasetLive)
=============================================================================
