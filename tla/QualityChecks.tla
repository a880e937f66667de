---------------------------- MODULE QualityChecks ----------------------------
(***************************************************************************)
(* How the worker judges the rows an asset produced (check_validator.rs)   *)
(* and what it stores of the verdict (executor.rs, execute_check).         *)
(*                                                                         *)
(* A row is a partial function from column names to JSON values; a row     *)
(* that is no object gives no column a value, like the empty object.  A    *)
(* value is <<"null">>, <<"num", n>> or <<"str", s>>.  An optional bound   *)
(* is a set with at most one member.  A pattern is the set of the strings  *)
(* it matches.  Counts and which rows are sampled are kept, wording is     *)
(* not.                                                                    *)
(***************************************************************************)
EXTENDS Integers, Sequences, FiniteSets, SequencesExt

CONSTANTS Columns,             \* column names
          RefColumn,           \* the column that carries the reference values
          Numbers, Strings,    \* what a cell may hold
          MaxRows,             \* bound on the rows of an asset
          MaxFailedSamples     \* MAX_FAILED_SAMPLES, 10 in the code

VARIABLES rows,                \* what the asset produced
          check,               \* the definition being run
          verdict              \* what is stored for it

vars == <<rows, check, verdict>>

Null == <<"null">>
Values == {Null} \cup {<<"num", n>> : n \in Numbers} \cup {<<"str", s>> : s \in Strings}
Rows == UNION {[C -> Values] : C \in SUBSET Columns}

ColumnLists == {<<>>} \cup {<<c>> : c \in Columns}
                    \cup {<<c, d>> : c \in Columns, d \in Columns \ {RefColumn}}
Bounds == {{}} \cup {{n} : n \in Numbers}

(***************************************************************************)
(* CheckType.  "unparsable" stands for JSON that is no check type.         *)
(***************************************************************************)
CheckType ==
    [type : {"not_null", "unique"}, columns : ColumnLists]
    \cup [type : {"in_range"}, column : Columns, min : Bounds, max : Bounds]
    \cup [type : {"regex"}, column : Columns, valid : BOOLEAN, matches : SUBSET Strings]
    \cup [type : {"row_count"}, min : Bounds, max : Bounds]
    \cup [type : {"accepted_values"}, column : Columns, values : {{Null}, Values \ {Null}, {}}]
    \cup [type : {"no_duplicate_rows"}, all : BOOLEAN, columns : ColumnLists]
    \cup [type : {"referential_integrity"}, column : Columns]
    \cup [type : {"schema_match"}, expected : SUBSET Columns, extra : BOOLEAN]
    \cup [type : {"freshness", "custom", "unparsable"}]

NoCheck == [type |-> "none"]
NoVerdict == [outcome |-> "none", failed |-> {}, total |-> {}, samples |-> <<>>]

-----------------------------------------------------------------------------
(***************************************************************************)
(* AssetOutput: every column gets one value per row, null where the row    *)
(* has none.                                                               *)
(***************************************************************************)
AllColumns(table) == UNION {DOMAIN table[i] : i \in DOMAIN table}

\* Mutant: the columns are those of the first row.
FromRowsFirstOnly(table) ==
    [columns |-> [c \in UNION {DOMAIN table[i] : i \in DOMAIN table \cap {1}} |->
                     [i \in DOMAIN table |->
                         IF c \in DOMAIN table[i] THEN table[i][c] ELSE Null]],
     row_count |-> Len(table)]

FromRows(table) ==
    [columns |-> [c \in AllColumns(table) |->
                     [i \in DOMAIN table |->
                         IF c \in DOMAIN table[i] THEN table[i][c] ELSE Null]],
     row_count |-> Len(table)]

HasColumn(data, c) == c \in DOMAIN data.columns

(***************************************************************************)
(* ValidationResult and its constructors.                                  *)
(***************************************************************************)
Result(passed, failed, total, message, samples) ==
    [passed |-> passed, failed |-> failed, total |-> total,
     message |-> message, samples |-> samples]

Passed(total) == Result(TRUE, {0}, {total}, FALSE, <<>>)
Failed(n, total) == Result(FALSE, {n}, {total}, TRUE, <<>>)
CannotRun == Result(FALSE, {}, {}, TRUE, <<>>)

FailedWithSamples(bad, total) ==
    Result(FALSE, {Len(bad)}, {total}, TRUE,
           SubSeq(bad, 1, IF Len(bad) < MaxFailedSamples THEN Len(bad)
                                                         ELSE MaxFailedSamples))

Report(bad, data) ==
    IF bad = <<>> THEN Passed(data.row_count)
                  ELSE FailedWithSamples(bad, data.row_count)

(***************************************************************************)
(* The loops over the rows collect those that fail, in order.              *)
(***************************************************************************)
InOrder(failing, n) ==
    FlattenSeq([i \in 1 .. n |-> IF i \in failing THEN <<i>> ELSE <<>>])

\* The rows whose value fails the test.
FailingRows(values, Bad(_)) ==
    InOrder({i \in DOMAIN values : Bad(values[i])}, Len(values))

\* The rows with a key an earlier row has.
Repeated(n, Key(_)) ==
    InOrder({i \in 1 .. n : \E j \in 1 .. i - 1 : Key(j) = Key(i)}, n)

ValidateNotNull(columns, data) ==
    LET IsNull(v) == v = Null
    IN  IF \E k \in DOMAIN columns : ~HasColumn(data, columns[k])
        THEN CannotRun
        ELSE Report(FlattenSeq([k \in DOMAIN columns |->
                        FailingRows(data.columns[columns[k]], IsNull)]), data)

\* A missing column is noticed at the first row, so never without rows.
ValidateUnique(columns, data) ==
    LET Key(i) == [k \in DOMAIN columns |-> data.columns[columns[k]][i]]
    IN  IF \/ columns = <<>>
           \/ /\ data.row_count > 0
              /\ \E k \in DOMAIN columns : ~HasColumn(data, columns[k])
        THEN CannotRun
        ELSE Report(Repeated(data.row_count, Key), data)

ValidateInRange(column, min, max, data) ==
    LET Outside(v) ==
            CASE v[1] = "num" -> (\E m \in min : v[2] < m) \/ (\E m \in max : v[2] > m)
              [] v = Null     -> FALSE
              [] OTHER        -> TRUE
    IN  IF ~HasColumn(data, column) THEN CannotRun
        ELSE Report(FailingRows(data.columns[column], Outside), data)

ValidateRegex(column, valid, matches, data) ==
    LET NoMatch(v) ==
            CASE v[1] = "str" -> v[2] \notin matches
              [] v = Null     -> FALSE
              [] OTHER        -> TRUE
    IN  IF ~valid \/ ~HasColumn(data, column) THEN CannotRun
        ELSE Report(FailingRows(data.columns[column], NoMatch), data)

ValidateRowCount(min, max, data) ==
    IF \/ \E m \in min : data.row_count < m
       \/ \E m \in max : data.row_count > m
    THEN Failed(0, data.row_count)
    ELSE Passed(data.row_count)

ValidateAcceptedValues(column, accepted, data) ==
    LET Unaccepted(v) == v # Null /\ v \notin accepted
    IN  IF ~HasColumn(data, column) THEN CannotRun
        ELSE Report(FailingRows(data.columns[column], Unaccepted), data)

\* A column the data does not have is left out of the key.
ValidateNoDuplicateRows(all, columns, data) ==
    LET names == IF all THEN DOMAIN data.columns ELSE ToSet(columns)
        Key(i) == [c \in names \cap DOMAIN data.columns |-> data.columns[c][i]]
    IN  IF names = {} THEN Passed(data.row_count)
        ELSE Report(Repeated(data.row_count, Key), data)

\* Without reference data the check passes.
ValidateReferentialIntegrity(column, data) ==
    LET known == ToSet(data.columns[RefColumn]) \ {Null}
        Orphan(v) == v # Null /\ v \notin known
    IN  IF ~HasColumn(data, column) THEN CannotRun
        ELSE IF ~HasColumn(data, RefColumn)
             THEN Result(TRUE, {0}, {data.row_count}, TRUE, <<>>)
        ELSE Report(FailingRows(data.columns[column], Orphan), data)

ValidateSchemaMatch(expected, extra, data) ==
    LET actual == DOMAIN data.columns
        errors == (IF expected \subseteq actual THEN 0 ELSE 1)
                + (IF extra \/ actual \subseteq expected THEN 0 ELSE 1)
    IN  IF errors = 0 THEN Passed(data.row_count)
                      ELSE Failed(errors, data.row_count)

(***************************************************************************)
(* validate_check: what cannot be parsed and the types without a           *)
(* validation are errors.                                                  *)
(***************************************************************************)
ValidateCheck(c, data) ==
    CASE c.type = "not_null"  -> ValidateNotNull(c.columns, data)
      [] c.type = "unique"    -> ValidateUnique(c.columns, data)
      [] c.type = "in_range"  -> ValidateInRange(c.column, c.min, c.max, data)
      [] c.type = "regex"     -> ValidateRegex(c.column, c.valid, c.matches, data)
      [] c.type = "row_count" -> ValidateRowCount(c.min, c.max, data)
      [] c.type = "accepted_values" -> ValidateAcceptedValues(c.column, c.values, data)
      [] c.type = "no_duplicate_rows" -> ValidateNoDuplicateRows(c.all, c.columns, data)
      [] c.type = "referential_integrity" -> ValidateReferentialIntegrity(c.column, data)
      [] c.type = "schema_match" -> ValidateSchemaMatch(c.expected, c.extra, data)
      [] OTHER -> CannotRun

(***************************************************************************)
(* execute_check of the worker: what could not run is skipped; what passed *)
(* loses its message.                                                      *)
(***************************************************************************)
OutcomeOf(r) ==
    IF r.message /\ r.failed = {} THEN "skipped"
    ELSE IF r.passed THEN "passed" ELSE "failed"

-----------------------------------------------------------------------------
Init == rows = <<>> /\ check = NoCheck /\ verdict = NoVerdict

(***************************************************************************)
(* The worker runs one check on what one asset produced.                   *)
(***************************************************************************)
ExecuteCheck ==
    /\ check = NoCheck
    /\ \E n \in 0 .. MaxRows : rows' \in [1 .. n -> Rows]
    /\ check' \in CheckType
    /\ LET r == ValidateCheck(check', FromRows(rows'))
       IN  verdict' = [outcome |-> OutcomeOf(r), failed |-> r.failed,
                       total |-> r.total, samples |-> r.samples]

NextAsset ==
    /\ check # NoCheck
    /\ rows' = <<>> /\ check' = NoCheck /\ verdict' = NoVerdict

Next == ExecuteCheck \/ NextAsset

Spec == Init /\ [][Next]_vars

-----------------------------------------------------------------------------
(***************************************************************************)
(* What each check promises, stated on the rows themselves.                *)
(***************************************************************************)
IsSet(row, c) == c \in DOMAIN row /\ row[c] # Null
Same(row1, row2, c) ==
    IF IsSet(row1, c) THEN IsSet(row2, c) /\ row1[c] = row2[c] ELSE ~IsSet(row2, c)
Known == \E i \in DOMAIN rows : RefColumn \in DOMAIN rows[i]
Distinct(C) ==
    \A i, j \in DOMAIN rows : i # j => \E c \in C : ~Same(rows[i], rows[j], c)
EachSet(c, Good(_)) == \A i \in DOMAIN rows : IsSet(rows[i], c) => Good(rows[i][c])

Holds ==
    LET InRange(v) == v[1] = "num" /\ (\A m \in check.min : m <= v[2])
                                   /\ (\A m \in check.max : v[2] <= m)
        Matching(v) == v[1] = "str" /\ v[2] \in check.matches
        Accepted(v) == v \in check.values
        Referenced(v) == \E i \in DOMAIN rows :
                            IsSet(rows[i], RefColumn) /\ rows[i][RefColumn] = v
    IN  CASE check.type = "not_null" ->
                \A i \in DOMAIN rows, c \in ToSet(check.columns) : IsSet(rows[i], c)
          [] check.type = "unique" -> Distinct(ToSet(check.columns))
          [] check.type = "in_range" -> EachSet(check.column, InRange)
          [] check.type = "regex" -> EachSet(check.column, Matching)
          [] check.type = "row_count" ->
                /\ \A m \in check.min : m <= Len(rows)
                /\ \A m \in check.max : Len(rows) <= m
          [] check.type = "accepted_values" -> EachSet(check.column, Accepted)
          [] check.type = "no_duplicate_rows" ->
                LET C == IF check.all THEN AllColumns(rows) ELSE ToSet(check.columns)
                IN  C = {} \/ Distinct(C)
          [] check.type = "referential_integrity" ->
                ~Known \/ EachSet(check.column, Referenced)
          [] check.type = "schema_match" ->
                /\ check.expected \subseteq AllColumns(rows)
                /\ ~check.extra => AllColumns(rows) \subseteq check.expected
          [] OTHER -> FALSE

\* The columns a check cannot do without.
Needed ==
    CASE check.type \in {"not_null", "unique"} -> ToSet(check.columns)
      [] check.type \in {"in_range", "regex", "accepted_values",
                         "referential_integrity"} -> {check.column}
      [] OTHER -> {}

Runnable ==
    /\ check.type \notin {"freshness", "custom", "unparsable"}
    /\ check.type = "regex" => check.valid
    /\ check.type = "unique" => check.columns # <<>>
    /\ Needed \subseteq AllColumns(rows)

(***************************************************************************)
(* A stored verdict is the truth about the rows the asset produced, as     *)
(* they were, sparse and mixed: "passed" only if they keep what the check  *)
(* promises (referential integrity: or there was nothing to compare with), *)
(* "failed" only if they break it, and "skipped" only if the check could   *)
(* not run on them.  The samples are rows of the asset, never more than    *)
(* the cap or the failures counted.                                        *)
(***************************************************************************)
VerdictRight ==
    check # NoCheck =>
        /\ verdict.outcome = "passed" => Holds
        /\ verdict.outcome = "failed" => ~Holds
        /\ verdict.outcome = "skipped" => ~Runnable
        /\ Len(verdict.samples) <= MaxFailedSamples
        /\ verdict.samples # <<>> => \E n \in verdict.failed : Len(verdict.samples) <= n
        /\ ToSet(verdict.samples) \subseteq DOMAIN rows
=============================================================================
