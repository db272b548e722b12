--------------------------- MODULE LatencyAnalysis ---------------------------
(***************************************************************************)
(* network_latency_analysis.py and thread_latency_analysis.py: runs of a   *)
(* script over a directory of record files, from the arguments to the rows *)
(* of its reports.  The names of the actions are shortened: a message is   *)
(* prepared ("begin"), sent or pushed ("end"), received and sent on by the *)
(* server ("relay") and received ("rcv").  Of a report, the number of      *)
(* latencies and their deciles are kept.                                   *)
(***************************************************************************)
EXTENDS Integers, Sequences, FiniteSets

CONSTANTS Users,        \* user ids
          Ids,          \* numbers of messages
          Sizes,        \* message sizes
          Traces,       \* what benchmarks may have left in a directory
          TiesUp,       \* <<p, n>> whose p * (n / 10) lies half-way and is rounded up
          Options,      \* how the user names directories: "short", "long"
          Outputs,      \* -o: "input" (not given), "existing", "missing"
          MaxRuns       \* bound: runs of the script

VARIABLES script,   \* "network" or "thread"
          option,   \* how the arguments are given
          output,   \* the output directory
          dirs,     \* the files of the two directories
          runs,     \* runs of the script so far
          phase,    \* what this run does
          failure,  \* the exception that ended it
          to_load,  \* files listed and not yet loaded
          loaded,   \* the rows read so far
          handled   \* sizes and reports that have their row

args == <<script, option, output>>
analysisvars == <<args, dirs, runs, phase, failure, to_load, loaded, handled>>

Network  == script = "network"
Reports  == IF Network THEN <<"send", "throughout">> ELSE <<"push", "throughout">>

(* The action that ends the range of a report; all begin with "begin". *)
EndOf(report) == IF report = "throughout" THEN "rcv" ELSE "end"

-----------------------------------------------------------------------------
(* Record files.  Their names are tuples, and so are those of the reports. *)
Rows == [uid : Users, id : Ids, size : Sizes,
         action : {"begin", "end", "relay", "rcv"}, time : Nat]

Message(r) == [uid |-> r.uid, id |-> r.id, size |-> r.size]

SameEvent(r, s) == Message(r) = Message(s) /\ r.action = s.action

IsRecordFile(f) == f[1] \notin {"report", "records"}

(* What happens to a message is recorded by one program, and in one file;  *)
(* more than once when a round is repeated.                                *)
WellFormed(files) ==
    /\ \A f \in DOMAIN files : files[f] \in Seq(Rows)
    /\ \A f, g \in DOMAIN files :
         \A j \in DOMAIN files[f], k \in DOMAIN files[g] :
            SameEvent(files[f][j], files[g][k]) => f = g

(***************************************************************************)
(* round() takes the even one of two integers at the same distance.  But   *)
(* n / 100 is a floating point number: from n = 35 on the product may fall *)
(* to either side.                                                         *)
(***************************************************************************)
RoundsToEven(p, n) == <<p, n>> \in TiesUp <=> ((p * n) \div 10) % 2 = 1

ASSUME AnalysisAssumption ==
    /\ MaxRuns \in Nat \ {0}
    /\ (Users \cup Ids \cup Sizes) \subseteq Nat
    /\ Options \subseteq {"short", "long"}
    /\ Outputs \subseteq {"input", "existing", "missing"}
    /\ \A trace \in Traces :
         /\ trace.script \in {"network", "thread"}
         /\ \A f \in DOMAIN trace.files : IsRecordFile(f)
         /\ WellFormed(trace.files)
    /\ \A p \in 0 .. 9, n \in 0 .. 34 : (p * n) % 10 = 5 => RoundsToEven(p, n)

AnalysisInit ==
    /\ option \in Options
    /\ output \in Outputs
    /\ \E trace \in Traces :
         /\ script = trace.script
         /\ dirs = [d \in {"input", "output"} |-> IF d = "input" THEN trace.files ELSE <<>>]
    /\ runs = 1
    /\ phase = "args"
    /\ failure = "none"
    /\ to_load = {}
    /\ loaded = <<>>
    /\ handled = {}

-----------------------------------------------------------------------------
Fail(exception) == phase' = "failed" /\ failure' = exception

(* getopt: --input and --output are declared without an argument. *)
InputGiven == option = "short"

(* The files that the programs left, which the script never writes. *)
Programs == {f \in DOMAIN dirs["input"] : IsRecordFile(f)}

Loadable == {f \in DOMAIN dirs["input"] : f[1] # "report"}

parse_args ==
    /\ phase = "args"
    /\ IF InputGiven
       THEN phase' = "load" /\ to_load' = Loadable
       ELSE phase' = "usage" /\ UNCHANGED to_load
    /\ UNCHANGED <<args, dirs, runs, failure, loaded, handled>>

(* The first line is taken for the names of the columns. *)
HasNoSize(f) == f \notin Programs /\ Len(dirs["input"][f]) > 1

load_record_list_dict ==
    /\ phase = "load"
    /\ \E f \in to_load :
        /\ to_load' = to_load \ {f}
        /\ IF HasNoSize(f)
           THEN Fail("KeyError") /\ UNCHANGED loaded
           ELSE /\ loaded' = IF f \in Programs THEN loaded \o dirs["input"][f] ELSE loaded
                /\ UNCHANGED <<phase, failure>>
    /\ UNCHANGED <<args, dirs, runs, handled>>

(* A directory that does not exist is not made: the test is the wrong way round. *)
PrepareOutput ==
    /\ phase = "load"
    /\ to_load = {}
    /\ phase' = "report"
    /\ UNCHANGED <<args, dirs, runs, failure, to_load, loaded, handled>>

-----------------------------------------------------------------------------
OutDir == IF output = "input" THEN "input" ELSE "output"

Earliest(S) == CHOOSE k \in S : \A j \in S : k <= j
Latest(S)   == CHOOSE k \in S : \A j \in S : j <= k

(* A set of positions, from the first to the last. *)
InOrder(S) ==
    [n \in 1 .. Cardinality(S) |-> CHOOSE k \in S : Cardinality({j \in S : j <= k}) = n]

(* Rows are named by their place in loaded.  record_list_dict: *)
At(size) == {k \in DOMAIN loaded : loaded[k].size = size}

(* dict keeps its keys in the order in which they first came. *)
Unhandled == {k \in DOMAIN loaded : <<loaded[k].size, Reports[2]>> \notin handled}
NextSize == loaded[Earliest(Unhandled)].size
NextReport == IF <<NextSize, Reports[1]>> \in handled THEN Reports[2] ELSE Reports[1]

Key(k) == <<loaded[k].uid, loaded[k].id>>

(* The rows that bring a key of record_data_dict, and those that set an entry. *)
Keys(size) == {k \in At(size) : \A j \in At(size) : Key(j) = Key(k) => k <= j}

Settings(k, action) ==
    {j \in At(loaded[k].size) : Key(j) = Key(k) /\ loaded[j].action = action}

(* Mutant: the first record of an action counts. *)
entry_keeps_first(k, action) == Earliest(Settings(k, action))

Entry(k, action) == Latest(Settings(k, action))

Complete(size, end_action) ==
    {k \in Keys(size) : Settings(k, "begin") # {} /\ Settings(k, end_action) # {}}

Elapsed(k, end_action) == loaded[Entry(k, end_action)].time - loaded[Entry(k, "begin")].time

cal_latency(size, end_action) ==
    LET ks == InOrder(Complete(size, end_action))
    IN  [n \in 1 .. Cardinality(Complete(size, end_action)) |-> Elapsed(ks[n], end_action)]

(* list.sort() is stable: the place a latency gets. *)
Before(list, k) == {j \in DOMAIN list : list[j] < list[k] \/ (list[j] = list[k] /\ j <= k)}

Sorted(list) ==
    [n \in DOMAIN list |-> list[CHOOSE k \in DOMAIN list : Cardinality(Before(list, k)) = n]]

(* Mutant: rounded up. *)
index_rounded_up(p, n) == (p * n + 9) \div 10

Index(p, n) ==
    LET down == (p * n) \div 10
        rest == (p * n) % 10
    IN  IF rest > 5 \/ (rest = 5 /\ <<p, n>> \in TiesUp) THEN down + 1 ELSE down

(* Mutant: the list is not sorted. *)
statistics_unsorted(size, list) ==
    [size |-> size, n |-> Len(list),
     quantiles |-> [p \in 0 .. 10 |-> list[IF p = 10 THEN Len(list)
                                                     ELSE Index(p, Len(list)) + 1]]]

Statistics(size, list) ==
    LET sorted == Sorted(list)
    IN  [size |-> size, n |-> Len(list),
         quantiles |-> [p \in 0 .. 10 |-> sorted[IF p = 10 THEN Len(list)
                                                           ELSE Index(p, Len(list)) + 1]]]

OutOfRange(n) == \E p \in 0 .. 9 : Index(p, n) >= n

ReportFile(report) == <<"report", report>>
RecordsFile(size, report) == <<"records", size, report>>

(* open(path, "w") when the first size comes; later rows are added. *)
RowsBefore ==
    IF \E done \in handled : done[2] = NextReport
    THEN dirs[OutDir][ReportFile(NextReport)] ELSE <<>>

Put(files, f, lines) ==
    [x \in DOMAIN files \cup {f} |-> IF x = f THEN lines ELSE files[x]]

(* Only network_latency_analysis.py writes the latencies, too. *)
Write(list, rows) ==
    LET written == IF Network THEN Put(dirs[OutDir], RecordsFile(NextSize, NextReport), list)
                              ELSE dirs[OutDir]
    IN  dirs' = [dirs EXCEPT ![OutDir] = Put(written, ReportFile(NextReport), rows)]

dump_statistics_result ==
    LET list == cal_latency(NextSize, EndOf(NextReport))
    IN  IF OutOfRange(Len(list))
        THEN /\ Write(list, RowsBefore)
             /\ Fail("IndexError")
             /\ UNCHANGED handled
        ELSE /\ Write(list, Append(RowsBefore, Statistics(NextSize, list)))
             /\ handled' = handled \cup {<<NextSize, NextReport>>}
             /\ UNCHANGED <<phase, failure>>

Report ==
    /\ phase = "report"
    /\ Unhandled # {}
    /\ IF output = "missing"
       THEN Fail("FileNotFoundError") /\ UNCHANGED <<dirs, handled>>
       ELSE dump_statistics_result
    /\ UNCHANGED <<args, runs, to_load, loaded>>

CloseReports ==
    /\ phase = "report"
    /\ Unhandled = {}
    /\ phase' = "done"
    /\ UNCHANGED <<args, dirs, runs, failure, to_load, loaded, handled>>

RunAgain ==
    /\ phase \in {"done", "usage", "failed"}
    /\ runs < MaxRuns
    /\ runs' = runs + 1
    /\ phase' = "args"
    /\ failure' = "none"
    /\ to_load' = {}
    /\ loaded' = <<>>
    /\ handled' = {}
    /\ UNCHANGED <<args, dirs>>

Finished == phase \in {"done", "usage", "failed"} /\ runs = MaxRuns /\ UNCHANGED analysisvars

AnalysisNext ==
    \/ parse_args
    \/ load_record_list_dict
    \/ PrepareOutput
    \/ Report
    \/ CloseReports
    \/ RunAgain
    \/ Finished

AnalysisSpec == AnalysisInit /\ [][AnalysisNext]_analysisvars

-----------------------------------------------------------------------------
AllRows == UNION {{dirs["input"][f][j] : j \in DOMAIN dirs["input"][f]} : f \in Programs}

Messages == [uid : Users, id : Ids, size : Sizes]

(* What the records say: each message of which both exist, with the time   *)
(* between them.  Of several tries the last one counts.                    *)
Tries(f, m, action) ==
    {j \in DOMAIN dirs["input"][f] : /\ Message(dirs["input"][f][j]) = m
                                     /\ dirs["input"][f][j].action = action}

Times(m, action) ==
    {dirs["input"][f][Latest(Tries(f, m, action))].time :
        f \in {g \in Programs : Tries(g, m, action) # {}}}

Latencies(size, report) ==
    UNION {{<<m, end - begin>> : end \in Times(m, EndOf(report)), begin \in Times(m, "begin")} :
        m \in {x \in Messages : x.size = size}}

RowsFor(size, report) ==
    LET lines == dirs[OutDir][ReportFile(report)]
    IN  {k \in DOMAIN lines : lines[k].size = size}

Ended == phase \in {"done", "failed"}

(***************************************************************************)
(* "{uid}_{id}" and the size identify a message: in whatever order the     *)
(* files are listed, each message of which both records exist counts once, *)
(* with its own latency and none of another user, size or try; and every   *)
(* size of which there is a record gets its row in both reports.           *)
(***************************************************************************)
EachPairOnce ==
    /\ phase = "done" =>
         \A r \in AllRows : \A n \in {1, 2} : <<r.size, Reports[n]>> \in handled
    /\ Ended => \A done \in handled :
        LET latencies == Latencies(done[1], done[2])
            lines     == dirs[OutDir][ReportFile(done[2])]
            list      == dirs[OutDir][RecordsFile(done[1], done[2])]
        IN  /\ Cardinality(RowsFor(done[1], done[2])) = 1
            /\ \A k \in RowsFor(done[1], done[2]) : lines[k].n = Cardinality(latencies)
            /\ Network =>
                 \A v \in {list[k] : k \in DOMAIN list} \cup {l[2] : l \in latencies} :
                     Cardinality({k \in DOMAIN list : list[k] = v}) =
                         Cardinality({l \in latencies : l[2] = v})

(***************************************************************************)
(* quantile_k is a latency with k percent of all at or below it, and the   *)
(* rest at or above it, to within half a message.                          *)
(***************************************************************************)
Deciles ==
    Ended => \A done \in handled :
        LET latencies == Latencies(done[1], done[2])
            lines     == dirs[OutDir][ReportFile(done[2])]
        IN  \A k \in RowsFor(done[1], done[2]) : \A p \in 0 .. 10 :
                LET q     == lines[k].quantiles[p]
                    below == Cardinality({l \in latencies : l[2] <= q})
                    above == Cardinality({l \in latencies : l[2] >= q})
                IN  /\ \E l \in latencies : l[2] = q
                    /\ 10 * below >= p * lines[k].n + (IF p = 10 THEN 0 ELSE 5)
                    /\ 10 * above >= (10 - p) * lines[k].n - 5

(***************************************************************************)
(* The script ends with an exception only for fewer than five latencies,   *)
(* in a directory that does not exist, or over its own records_ files.     *)
(***************************************************************************)
FailsOnly ==
    /\ failure = "IndexError" => Cardinality(Latencies(NextSize, NextReport)) < 5
    /\ failure = "FileNotFoundError" => output = "missing"
    /\ failure = "KeyError" => Network /\ runs > 1 /\ output = "input"

=============================================================================
