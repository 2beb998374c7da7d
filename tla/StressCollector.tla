-------------------------- MODULE StressCollector ---------------------------
(***************************************************************************)
(* One run after another of the result collectors of scripts/p5: a         *)
(* collector reads the rows an operator pasted into its manual input file, *)
(* validates them one by one against the scenario matrix and, when none is *)
(* refused, writes them to its result file with its own labels.  The first *)
(* refused row ends the run and leaves the result file as it was.          *)
(***************************************************************************)
EXTENDS StressRows, Sequences, FiniteSets

CONSTANTS Matrix,           \* the scenarios of the matrix, a sequence
          Used,             \* the collectors that are run
          Inputs(_),        \* the row sequences pasted for a collector
          MaxRuns           \* bound: collector runs

ASSUME CollectorAssumption ==
  /\ Used \subseteq Collectors /\ MaxRuns \in Nat
  /\ Matrix \in Seq({Matrix[i] : i \in DOMAIN Matrix})
  /\ \A k \in Used : Inputs(k) \subseteq Seq(PastedRow)

None == "none"

VARIABLES running,    \* the collector at work, or None
          rows,       \* the rows it read
          at,         \* the row validated next
          seen,       \* the scenarios validated so far
          results,    \* the result file of each collector, <<>> when absent
          runs
collectorVars == <<running, rows, at, seen, results, runs>>

Scenarios == {Matrix[i] : i \in DOMAIN Matrix}
ExpectedById(id) == CHOOSE s \in Scenarios : s.id = id
Known(id) == \E s \in Scenarios : s.id = id

\* The collectors whose final step also looks for scenarios without a row.
LooksForMissing == {"p5d_b0", "p5e_b1", "p5f_b2", "p5g_r0"}

CollectorInit ==
  /\ running = None /\ rows = <<>> /\ at = 0 /\ seen = {}
  /\ results = [k \in Collectors |-> <<>>]
  /\ runs = 0

Start(k) == /\ running = None /\ runs < MaxRuns
            /\ \E input \in Inputs(k) : rows' = input
            /\ running' = k /\ at' = 0 /\ seen' = {}
            /\ runs' = runs + 1
            /\ UNCHANGED results

Fail == /\ running' = None /\ rows' = <<>> /\ at' = 0 /\ seen' = {}
        /\ UNCHANGED <<results, runs>>

RefuseCount == /\ running # None /\ at = 0
               /\ Len(rows) # Len(Matrix)
               /\ Fail

CountRows == /\ running # None /\ at = 0
             /\ Len(rows) = Len(Matrix)
             /\ at' = 1
             /\ UNCHANGED <<running, rows, seen, results, runs>>

RowPasses(k, row) == /\ HasFields(row, k)
                     /\ Known(row.scenario)
                     /\ row.scenario \notin seen
                     /\ Accepts(k, row, ExpectedById(row.scenario))

AcceptRow == /\ running # None /\ at \in DOMAIN rows
             /\ RowPasses(running, rows[at])
             /\ seen' = seen \cup {rows[at].scenario}
             /\ at' = at + 1
             /\ UNCHANGED <<running, rows, results, runs>>

RefuseRow == /\ running # None /\ at \in DOMAIN rows
             /\ ~RowPasses(running, rows[at])
             /\ Fail

Missing == {s \in Scenarios : s.id \notin seen}

\* What is written: the required fields of the row under the collector's name.
Published(k, row) ==
  [scenario |-> row.scenario, measured |-> row.page, variant |-> k]

Write(file) == results' = [results EXCEPT ![running] = file]

\* Seeded fault: the rows are added to the file of the last run.
File_append ==
  results[running] \o [i \in DOMAIN rows |-> Published(running, rows[i])]

File == [i \in DOMAIN rows |-> Published(running, rows[i])]

Finish == /\ running # None /\ at = Len(rows) + 1
          /\ IF running \in LooksForMissing /\ Missing # {}
             THEN Fail
             ELSE /\ Write(File)
                  /\ running' = None /\ rows' = <<>> /\ at' = 0 /\ seen' = {}
                  /\ UNCHANGED runs

CollectorNext == \/ \E k \in Used : Start(k)
                 \/ RefuseCount \/ CountRows \/ AcceptRow \/ RefuseRow
                 \/ Finish

CollectorSpec == CollectorInit /\ [][CollectorNext]_collectorVars

-----------------------------------------------------------------------------
(***************************************************************************)
(* Every result file has one row for each scenario of the matrix and no    *)
(* other row, although the collectors only count the rows and refuse       *)
(* unknown and repeated scenarios one at a time (validateManualRows,       *)
(* collect_p5x_manual_r0c_product_trace_shaped_results.mjs:238-264).       *)
(***************************************************************************)
ResultsCoverTheMatrix ==
  \A k \in Used : results[k] # <<>> =>
    /\ Len(results[k]) = Len(Matrix)
    /\ {results[k][i].scenario : i \in DOMAIN results[k]}
         = {s.id : s \in Scenarios}

\* The collectors of P5-M and later compare the label of a row.
LabelCheckers == Collectors \ {"p5d_b0", "p5e_b1", "p5f_b2", "p5g_r0",
                               "p5i_b2", "p5i_r0"}

Pair == [p5g_r0 |-> "p5f_b2", p5i_r0 |-> "p5i_b2", p5m_r0 |-> "p5m_b2",
         p5o_r0 |-> "p5o_b2", p5q_r0 |-> "p5q_b2", p5s_r0 |-> "p5s_b2",
         p5u_r0 |-> "p5u_b2", p5x_r0 |-> "p5x_b2"]

(***************************************************************************)
(* The two sides of a comparison compare like with like.  A result file    *)
(* holds only rows measured on the page of its variant, although its rows  *)
(* carry the collector's own baseline_variant whatever the row said: this  *)
(* rests on the check of the label, which the collectors before P5-M       *)
(* lack.  And what the worker variant's collector takes, the main-thread   *)
(* variant's collector would take too under its own label, each with a     *)
(* copy of the checks (validateScenarioDimensions and the validations      *)
(* after it).                                                              *)
(***************************************************************************)
ComparedAlike ==
  /\ \A k \in Used \cap LabelCheckers : \A i \in DOMAIN results[k] :
       results[k][i].measured = results[k][i].variant
  /\ running \in DOMAIN Pair /\ at \in DOMAIN rows =>
       LET row == rows[at]  k == Pair[running]
       IN RowPasses(running, row) => RowPasses(k, [row EXCEPT !.page = k])
=============================================================================
