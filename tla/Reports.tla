------------------------------- MODULE Reports -------------------------------
(***************************************************************************)
(* Making the tables of a run from the report files of its frameworks:     *)
(* src/benchcli-go/report and generateReports of client.go.  The files of  *)
(* each table are read in FrameworkList order, those missing or damaged    *)
(* left out; the Summary collects the parameters; the rows are ranked,     *)
(* given their share of the best in every rank column, and the skipped     *)
(* ones blanked.                                                           *)
(*                                                                         *)
(* A file holds what a property tells apart: what the row is ranked by,    *)
(* whether it was skipped, and one parameter, Conns, that may differ.  A   *)
(* cell is the field it shows, its percentage, and whether it is blanked;  *)
(* the layout of a table (table.go) is left out.                           *)
(*                                                                         *)
(* The loops over files, and the sort's over rows, are a step per          *)
(* iteration, so that what they leave behind is an invariant.              *)
(***************************************************************************)
EXTENDS Frameworks, FiniteSets, SequencesExt

CONSTANTS
    Listed,       \* bound: how many frameworks of FrameworkList there are
    Runs,         \* the report files there may be, by table
    SlackInverse  \* 1 / percentSlack

-----------------------------------------------------------------------------
(* The report types: their fields, in the order they are declared *)

Field(md, summary, tpn, rank) == [md |-> md, summary |-> summary, tpn |-> tpn, rank |-> rank]
Column(md)      == Field(md, "", FALSE, 0)
Ranked(md, n)   == Field(md, "", FALSE, n)
Param(md, name) == Field(md, name, FALSE, 0)
Percentile(md)  == Field(md, "", TRUE, 0)
Hidden          == Column("-")

FirstFields == <<Column("Framework"), Column("Lang"), Param("Client", "Client")>>
Times ==
    <<Percentile("Min"), Percentile("Avg"), Percentile("Max"), Hidden, Hidden, Hidden,
      Percentile("TP95"), Percentile("TP99"), Column("Used")>>
Eers == <<Ranked("CPU EER", 2), Ranked("MEM EER", 3)>>
Resources ==
    <<Hidden, Column("CPU Avg"), Column("CPU Max"), Hidden, Column("MEM Avg"), Column("MEM Max")>>

ConnectionsReport ==
    FirstFields \o <<Ranked("TPS", 1)>> \o Times \o
    <<Column("Total"), Column("Success"), Column("Failed"),
      Param("Concurrency", "Dial Concurrency")>>

BenchEchoReport ==
    FirstFields \o <<Ranked("TPS", 1)>> \o Eers \o Times \o
    <<Param("Total", "Echo Total"), Column("Success"), Column("Failed"), Param("Conns", "Conns"),
      Param("Concurrency", "Echo Concurrency"), Param("Payload", "Payload"),
      Param("Pprof", "Echo Pprof")>> \o Resources

BenchRateReport ==
    FirstFields \o <<Param("Duration", "Rate Duration"), Ranked("TPS", 1)>> \o Eers \o
    <<Column("Req Sent"), Column("Bytes Sent"), Column("Resp Recv"), Column("Bytes Recv"),
      Param("Conns", "Conns"), Param("Concurrency", "Rate Concurrency"),
      Param("SendRate", "Rate SendRate"), Param("Pipeline", "Rate Pipeline"),
      Param("Payload", "Payload"), Param("Pprof", "Rate Pprof")>> \o Resources \o <<Hidden>>

Tables == <<"Connections", "BenchEcho", "BenchPipeline">>

TypeOfTable(t) ==
    CASE t = "Connections" -> ConnectionsReport
      [] t = "BenchEcho" -> BenchEchoReport
      [] t = "BenchPipeline" -> BenchRateReport

\* A result is a number, as json.Unmarshal has it.
WellFormed(file) ==
    /\ file.tps \in Int /\ file.recv \in Int /\ file.duration \in Int
    /\ file.cpuEer \in Int /\ file.memEer \in Int /\ file.conns \in Int
    /\ file.skipped \in BOOLEAN

ASSUME ReportsAssumption ==
    /\ Listed \in 1..Len(FrameworkList)
    /\ SlackInverse \in Nat \ {0}
    /\ \A run \in Runs, t \in ToSet(Tables), i \in 1..Listed :
           run[t][i].file = "ok" => WellFormed(run[t][i])

\* tableColumn
TableColumn(field, tpn) == field.md # "-" /\ field.summary = "" /\ (tpn \/ ~field.tpn)

\* The fields of the columns.
Shown(t, tpn) ==
    LET column(field) == TableColumn(field, tpn)
    IN  SelectSeq(TypeOfTable(t), column)

\* The headers report.Init builds.
Headers(t, tpn) == [col \in DOMAIN Shown(t, tpn) |-> Shown(t, tpn)[col].md]

Cell(md, percent) == [of |-> md, percent |-> percent, blank |-> FALSE]
NoPercent == -1

\* The row of a report, a cell per column.
ObjFieldValues(t, tpn) ==
    [col \in DOMAIN Shown(t, tpn) |-> Cell(Shown(t, tpn)[col].md, NoPercent)]

\* The fields tagged rank:"N", the first first; a type's tags are 1, 2, ...,
\* each of them once.
RankFields(t) ==
    LET ranked == {field \in ToSet(TypeOfTable(t)) : field.rank > 0}
    IN  [n \in {field.rank : field \in ranked} |-> CHOOSE field \in ranked : field.rank = n]

-----------------------------------------------------------------------------
(* Ranking *)

\* CPUEER and MEMEER: nothing to divide by is 0, not infinite.
Eer(throughput, cost) == IF cost <= 0 THEN 0 ELSE throughput \div cost

\* RateTPS, with a duration in seconds.
RateTPS(recvTimes, duration) == IF duration <= 0 THEN 0 ELSE recvTimes \div duration

\* fillTPS: a report of the pipeline benchmark written without a TPS.
FillTPS(report) ==
    IF report.tps = 0 /\ report.recv > 0
    THEN RateTPS(report.recv, report.duration) ELSE report.tps

KeyOf(report, field) == CASE field.md = "TPS" -> report.tps
                          [] field.md = "CPU EER" -> report.cpuEer
                          [] field.md = "MEM EER" -> report.memEer

RankKeys(t, report) == [k \in DOMAIN RankFields(t) |-> KeyOf(report, RankFields(t)[k])]

\* rankedBefore: bigger on the first key they differ on.
RankedBefore(a, b) ==
    \E k \in DOMAIN a : a[k] > b[k] /\ \A j \in 1..(k - 1) : a[j] = b[j]

\* Mutant of Less: a skipped report is ranked by its zeros.
LessByKeys(t, a, b) == RankedBefore(RankKeys(t, a), RankKeys(t, b))

\* The comparison of SortReports: a skipped report goes after every other.
Less(t, a, b) ==
    IF a.skipped # b.skipped THEN b.skipped
    ELSE RankedBefore(RankKeys(t, a), RankKeys(t, b))

\* sort.SliceStable on so few rows: the i-th moves up past those it is less
\* than.
InsertRow(t, rows, i) ==
    LET stays == {p \in 1..i : p = 1 \/ ~Less(t, rows[i], rows[p - 1])}
        p == CHOOSE p \in stays : \A q \in stays : q <= p
    IN  InsertAt(RemoveAt(rows, i), p, rows[i])

\* Mutant of Percent: the best is divided like the others.
PercentByDivision(value, best) ==
    IF best <= 0 \/ value <= 0 THEN 0
    ELSE LET percent == (value * 100 * SlackInverse + best) \div (best * SlackInverse)
         IN  IF percent < 99 THEN percent ELSE 99

\* Percent: the quotient floored, with the slack a division's error needs.
Percent(value, best) ==
    IF best <= 0 \/ value <= 0 THEN 0
    ELSE IF value >= best THEN 100
    ELSE LET percent == (value * 100 * SlackInverse + best) \div (best * SlackInverse)
         IN  IF percent < 99 THEN percent ELSE 99

-----------------------------------------------------------------------------
(* The Summary *)

\* cellString of a parameter: Conns differs, any other is the same in all.
ParamValue(report, name) == IF name = "Conns" THEN report.conns ELSE 0

\* Mutant of AddSummaryValue: a framework is listed once for each table.
AddSummaryValueAgain(values, value, framework) ==
    IF \E i \in DOMAIN values : values[i].value = value
    THEN [i \in DOMAIN values |->
             IF values[i].value = value
             THEN [values[i] EXCEPT !.frameworks = Append(@, framework)] ELSE values[i]]
    ELSE Append(values, [value |-> value, frameworks |-> <<framework>>])

\* addSummaryValue: the framework joins those that had the value.
AddSummaryValue(values, value, framework) ==
    IF \E i \in DOMAIN values : values[i].value = value
    THEN [i \in DOMAIN values |->
             IF values[i].value = value /\ ~Contains(values[i].frameworks, framework)
             THEN [values[i] EXCEPT !.frameworks = Append(@, framework)] ELSE values[i]]
    ELSE Append(values, [value |-> value, frameworks |-> <<framework>>])

ParamsOf(t) == {field.summary : field \in ToSet(TypeOfTable(t))} \ {""}

SummaryNames == UNION {ParamsOf(t) : t \in ToSet(Tables)}

\* The parameters of one row, added to those of the rows before it.
AddRow(values, t, report) ==
    IF report.skipped THEN values
    ELSE [name \in SummaryNames |->
             IF name \in ParamsOf(t)
             THEN AddSummaryValue(values[name], ParamValue(report, name), report.framework)
             ELSE values[name]]

-----------------------------------------------------------------------------
VARIABLES
    files,    \* the report files of the run, by table and framework
    tpn,      \* -tpn
    order,    \* -sort
    phase,    \* what generateReports does
    table,    \* the table it is at
    next,     \* the framework whose file is read next
    rows,     \* the reports read for the table
    inserted, \* how many of them are in order
    cells,    \* the rows as they are written
    summary   \* the values of each parameter, and the frameworks they are of

reportsVars == <<files, tpn, order, phase, table, next, rows, inserted, cells, summary>>

ReportsInit ==
    /\ files \in Runs
    /\ tpn \in BOOLEAN
    /\ order \in {"result", "framework"}
    /\ phase = "summary"
    /\ table = 1
    /\ next = 1
    /\ rows = <<>>
    /\ inserted = 0
    /\ cells = <<>>
    /\ summary = [name \in SummaryNames |-> <<>>]

T == Tables[table]

\* A file that is missing, or is not JSON, is left out.
Readable(t, i) == files[t][i].file = "ok"

\* The report of a file, over the name of its framework.
ReportOf(t, i) ==
    LET file == files[t][i]
    IN  [framework |-> FrameworkList[i], skipped |-> file.skipped, conns |-> file.conns,
         tps |-> IF t = "BenchPipeline" THEN FillTPS(file) ELSE file.tps,
         cpuEer |-> file.cpuEer, memEer |-> file.memEer]

\* Summary, over the reports of one table ...
SummarizeReport ==
    /\ phase = "summary"
    /\ next <= Listed
    /\ summary' = IF Readable(T, next) THEN AddRow(summary, T, ReportOf(T, next)) ELSE summary
    /\ next' = next + 1
    /\ UNCHANGED <<files, tpn, order, phase, table, rows, inserted, cells>>

\* ... and of the tables one after the other (GenerateSummary).
SummarizeNext ==
    /\ phase = "summary"
    /\ next > Listed
    /\ IF table < Len(Tables) THEN table' = table + 1 /\ UNCHANGED phase
       ELSE table' = 1 /\ phase' = "read"
    /\ next' = 1
    /\ UNCHANGED <<files, tpn, order, rows, inserted, cells, summary>>

\* ReadReports, once more for the table itself.
ReadReport ==
    /\ phase = "read"
    /\ next <= Listed
    /\ rows' = IF Readable(T, next) THEN Append(rows, ReportOf(T, next)) ELSE rows
    /\ next' = next + 1
    /\ UNCHANGED <<files, tpn, order, phase, table, inserted, cells, summary>>

\* Markdown: without a row there is no table.
EndRead ==
    /\ phase = "read"
    /\ next > Listed
    /\ phase' = IF rows = <<>> THEN "written" ELSE "sort"
    /\ UNCHANGED <<files, tpn, order, table, next, rows, inserted, cells, summary>>

\* SortReports: -sort=framework is the order the rows were read in.
SortStep ==
    /\ phase = "sort"
    /\ IF order = "result" /\ inserted < Len(rows)
       THEN /\ rows' = InsertRow(T, rows, inserted + 1)
            /\ inserted' = inserted + 1
            /\ UNCHANGED phase
       ELSE phase' = "cells" /\ UNCHANGED <<rows, inserted>>
    /\ UNCHANGED <<files, tpn, order, table, next, cells, summary>>

\* The best of a rank column, or 0.
BestKey(k) ==
    LET keys == {RankKeys(T, rows[i])[k] : i \in DOMAIN rows} \cup {0}
    IN  CHOOSE best \in keys : \A key \in keys : key <= best

\* Every rank column gets the row's share of the best (withPercent), then a
\* skipped row is blanked but for its framework and its language.
WrittenCells(i) ==
    LET headers == Headers(T, tpn)
        fields == ObjFieldValues(T, tpn)
        ranks == RankFields(T)
        rankOf(col) == {k \in DOMAIN ranks : ranks[k].md = headers[col]}
        share(k) == Percent(RankKeys(T, rows[i])[k], BestKey(k))
    IN  [col \in DOMAIN fields |->
            IF col \notin DOMAIN headers THEN fields[col]
            ELSE [fields[col] EXCEPT
                     !.percent = IF rankOf(col) = {} THEN @
                                 ELSE share(CHOOSE k \in rankOf(col) : TRUE),
                     !.blank = rows[i].skipped /\ headers[col] \notin {"Framework", "Lang"}]]

Fields ==
    /\ phase = "cells"
    /\ cells' = [i \in DOMAIN rows |-> WrittenCells(i)]
    /\ phase' = "written"
    /\ UNCHANGED <<files, tpn, order, table, next, rows, inserted, summary>>

NextTable ==
    /\ phase = "written"
    /\ IF table < Len(Tables) THEN table' = table + 1 /\ phase' = "read"
       ELSE phase' = "done" /\ UNCHANGED table
    /\ next' = 1
    /\ rows' = <<>>
    /\ inserted' = 0
    /\ cells' = <<>>
    /\ UNCHANGED <<files, tpn, order, summary>>

AllWritten == phase = "done" /\ UNCHANGED reportsVars

ReportsNext ==
    \/ SummarizeReport \/ SummarizeNext
    \/ ReadReport \/ EndRead \/ SortStep \/ Fields \/ NextTable
    \/ AllWritten

ReportsSpec == ReportsInit /\ [][ReportsNext]_reportsVars

-----------------------------------------------------------------------------
(* Properties *)

Position(framework) == CHOOSE i \in DOMAIN FrameworkList : FrameworkList[i] = framework

\* What the keys of two rows say of their order: the same, or the first key
\* that differs.
Ahead(a, b) ==
    \/ ~a.skipped /\ b.skipped
    \/ /\ a.skipped = b.skipped
       /\ LET p == RankKeys(T, a)
              q == RankKeys(T, b)
              differ == {k \in DOMAIN p : p[k] # q[k]}
          IN  IF differ = {} THEN Position(a.framework) < Position(b.framework)
              ELSE \E k \in differ : p[k] > q[k] /\ \A j \in differ : k <= j

\* Each framework that has a report has one row.  A table ranked by result has
\* the best row first, ties in framework order and the skipped rows last,
\* however little the others scored; the other order is the frameworks'
\* (reporter.go:181).
RankedByResult ==
    phase = "written" =>
        /\ ToSet(rows) = {ReportOf(T, i) : i \in {i \in 1..Listed : Readable(T, i)}}
        /\ \A i, j \in DOMAIN rows :
               i < j => IF order = "result" THEN Ahead(rows[i], rows[j])
                        ELSE Position(rows[i].framework) < Position(rows[j].framework)

\* In every table each cell is under the header of its field, whatever columns
\* -tpn leaves out, and the percentages are in the rank columns alone.  A row
\* shows 100% if its value is the best and above 0, and only then; what is not
\* above 0 shows 0%, and a bigger value never a smaller share (reporter.go:116,
\* :140, parsing.go:11, TestPercentOfFloats).
SharesRight ==
    phase = "written" /\ rows # <<>> =>
        LET headers == Headers(T, tpn)
            ranks == RankFields(T)
        IN  /\ \A i \in DOMAIN cells :
                   /\ DOMAIN cells[i] = DOMAIN headers
                   /\ \A col \in DOMAIN headers : cells[i][col].of = headers[col]
            /\ \A k \in DOMAIN ranks, col \in DOMAIN headers :
                   headers[col] = ranks[k].md =>
                       LET value(i) == KeyOf(rows[i], ranks[k])
                           share(i) == cells[i][col].percent
                           isBest(i) == value(i) > 0 /\ \A j \in DOMAIN rows : value(j) <= value(i)
                       IN  \A i \in DOMAIN rows :
                               /\ share(i) = 100 <=> isBest(i)
                               /\ value(i) <= 0 => share(i) = 0
                               /\ \A j \in DOMAIN rows : value(i) <= value(j) => share(i) <= share(j)
            /\ \A col \in DOMAIN headers :
                   (\A k \in DOMAIN ranks : headers[col] # ranks[k].md) =>
                       \A i \in DOMAIN cells : cells[i][col].percent = NoPercent

\* What the rows of all tables say of a parameter: its values and frameworks.
SaidIn(t, name) ==
    {<<ParamValue(ReportOf(t, i), name), FrameworkList[i]>> :
        i \in {i \in 1..Listed : Readable(t, i) /\ ~ReportOf(t, i).skipped}}

Said(name) == UNION {SaidIn(t, name) : t \in {t \in ToSet(Tables) : name \in ParamsOf(t)}}

\* The Summary lists each value once, with every framework that had it, once;
\* the plain value is shown only when every row agrees (summary.go:45).
SummaryComplete ==
    phase # "summary" =>
        \A name \in SummaryNames :
            LET values == summary[name]
            IN  /\ Said(name) = UNION {{<<values[i].value, f>> : f \in ToSet(values[i].frameworks)} :
                                          i \in DOMAIN values}
                /\ \A i, j \in DOMAIN values : values[i].value = values[j].value => i = j
                /\ \A i \in DOMAIN values : IsInjective(values[i].frameworks)
=============================================================================
