-------------------------- MODULE PartitionMapping --------------------------
(***************************************************************************)
(* From the partitions of an asset to the partitions of the asset above    *)
(* it: servo-core/src/partition_mapping.rs and partition_validator.rs,     *)
(* servo-runtime/src/partition_resolver.rs, and their use in the commands  *)
(* `servo partition deps' and `servo backfill'.                            *)
(*                                                                         *)
(* A partition key is a string in the code; it is here the tuple its       *)
(* format stands for: <<"Hourly", hours>>, <<"Daily", days>> (both counted *)
(* from 0001-01-01, day 1), <<"Weekly", year, week>>,                      *)
(* <<"Monthly", year, month>>, <<"Yearly", year>>.  A type of partition is *)
(* <<"Time", granularity>>, <<"Range", lower, upper>> or                   *)
(* <<"Custom", expression>>; an asset without a configuration has NoType.  *)
(* Each state is one call and its answer.                                  *)
(***************************************************************************)
EXTENDS Integers, Sequences, SequencesExt, FiniteSets

CONSTANTS
    Keys,               \* partition keys asked for
    Types,              \* types of the configured assets
    Mappings,           \* default mappings of a resolver
    NoType              \* no partition configuration

VARIABLE call           \* [op, args, answer] of the last call

mappingVars == <<call>>

-----------------------------------------------------------------------------
(* The calendar of the chrono library, by day number; day 1 is a Monday.   *)
DaysBeforeYear(y) == 365*(y - 1) + (y - 1) \div 4 - (y - 1) \div 100
                                 + (y - 1) \div 400
DaysBeforeMonth(y, m) ==
    <<0, 31, 59, 90, 120, 151, 181, 212, 243, 273, 304, 334>>[m]
        + IF m > 2 THEN DaysBeforeYear(y + 1) - DaysBeforeYear(y) - 365 ELSE 0
DayNumber(y, m, d) == DaysBeforeYear(y) + DaysBeforeMonth(y, m) + d
MondayOf(n) == n - ((n - 1) % 7)
IsoMonday(y, w) == MondayOf(DayNumber(y, 1, 4)) + 7 * (w - 1)
IsoWeekExists(y, w) == w >= 1 /\ IsoMonday(y, w) < IsoMonday(y + 1, 1)
YearOf(n) == CHOOSE y \in (n \div 366)..(n \div 365 + 1) :
                DaysBeforeYear(y) < n /\ n <= DaysBeforeYear(y + 1)
MonthOf(n) == CHOOSE m \in 1..12 :
                /\ DaysBeforeMonth(YearOf(n), m) < n - DaysBeforeYear(YearOf(n))
                /\ m < 12 => n - DaysBeforeYear(YearOf(n))
                                <= DaysBeforeMonth(YearOf(n), m + 1)

-----------------------------------------------------------------------------
(* The parsers: the set of the one value parsed, or empty.                 *)
ParseDaily(key) == IF key[1] = "Daily" THEN {key[2]} ELSE {}
ParseHourly(key) == IF key[1] = "Hourly" THEN {key[2]} ELSE {}

(* A date is taken for the Monday of its week, whatever day it is.         *)
ParseWeekly(key) ==
    IF key[1] = "Weekly"
    THEN IF IsoWeekExists(key[2], key[3]) THEN {IsoMonday(key[2], key[3])} ELSE {}
    ELSE ParseDaily(key)

(* Only the first two parts are looked at: a date stands for its month.    *)
ParseMonthly(key) ==
    CASE key[1] = "Monthly" -> {<<key[2], key[3]>>}
      [] key[1] = "Daily"   -> {<<YearOf(key[2]), MonthOf(key[2])>>}
      [] OTHER              -> {}

\* Mutant: the rule of the centuries is forgotten.
IsLeapYearJulian(y) == y % 4 = 0

IsLeapYear(y) == (y % 4 = 0 /\ y % 100 # 0) \/ y % 400 = 0

DaysInMonth(y, m) ==
    CASE m \in {1, 3, 5, 7, 8, 10, 12} -> 31
      [] m \in {4, 6, 9, 11}           -> 30
      [] m = 2                         -> IF IsLeapYear(y) THEN 29 ELSE 28

Days(first, count) == [i \in 1..count |-> <<"Daily", first + i - 1>>]
The(parsed) == CHOOSE value \in parsed : TRUE

(* A key that does not parse stands for itself.                            *)
MapTimeAggregation(key, up, down) ==
    CASE up = "Daily" /\ down = "Weekly" /\ ParseWeekly(key) # {} ->
            Days(The(ParseWeekly(key)), 7)
      [] up = "Daily" /\ down = "Monthly" /\ ParseMonthly(key) # {} ->
            LET ym == The(ParseMonthly(key))
            IN  Days(DayNumber(ym[1], ym[2], 1), DaysInMonth(ym[1], ym[2]))
      [] up = "Hourly" /\ down = "Daily" /\ ParseDaily(key) # {} ->
            [h \in 1..24 |-> <<"Hourly", 24 * The(ParseDaily(key)) + h - 1>>]
      [] up = "Monthly" /\ down = "Yearly" /\ key[1] = "Yearly" ->
            [m \in 1..12 |-> <<"Monthly", key[2], m>>]
      [] OTHER -> <<key>>

ParseAs(grain, key) ==
    CASE grain = "Daily"  -> ParseDaily(key)
      [] grain = "Hourly" -> ParseHourly(key)
      [] OTHER            -> {}

(* The latest partition of a window comes first.                           *)
MapTimeWindow(key, size, grain) ==
    IF ParseAs(grain, key) = {} THEN <<key>>
    ELSE [i \in 1..size |-> <<grain, The(ParseAs(grain, key)) - i + 1>>]
MapTimeOffset(key, offset, grain) ==
    IF ParseAs(grain, key) = {} THEN <<key>>
    ELSE <<<<grain, The(ParseAs(grain, key)) + offset>>>>

(* A mapping is <<"Identity">>, <<"Aggregation", up, down>>,               *)
(* <<"Window", size, granularity>>, <<"Offset", offset, granularity>> or   *)
(* <<"Custom">>.                                                           *)
MapPartition(mapping, key) ==
    CASE mapping[1] = "Aggregation" ->
            MapTimeAggregation(key, mapping[2], mapping[3])
      [] mapping[1] = "Window" -> MapTimeWindow(key, mapping[2], mapping[3])
      [] mapping[1] = "Offset" -> MapTimeOffset(key, mapping[2], mapping[3])
      [] OTHER -> <<key>>

-----------------------------------------------------------------------------
Error == <<"Error">>
Grains == <<"Hourly", "Daily", "Weekly", "Monthly", "Yearly">>
IsFiner(a, b) ==
    \E i, j \in DOMAIN Grains : Grains[i] = a /\ Grains[j] = b /\ i < j

Aggregations == {<<"Daily", "Weekly">>, <<"Daily", "Monthly">>,
                 <<"Hourly", "Daily">>, <<"Monthly", "Yearly">>}

InferMapping(up, down) ==
    CASE up[1] = "Time" /\ up = down -> <<"Identity">>
      [] /\ up[1] = "Time" /\ down[1] = "Time"
         /\ <<up[2], down[2]>> \in Aggregations ->
            <<"Aggregation", up[2], down[2]>>
      [] up[1] # "Time" /\ up[1] = down[1] -> <<"Identity">>
      [] OTHER -> Error

(* validate_compatibility: a stricter test than the inference.             *)
Compatible(mapping, up, down) ==
    CASE mapping[1] = "Identity" -> up = down
      [] mapping[1] = "Aggregation" ->
            /\ IsFiner(mapping[2], mapping[3])
            /\ up = <<"Time", mapping[2]>> /\ down = <<"Time", mapping[3]>>
      [] mapping[1] \in {"Window", "Offset"} ->
            up = <<"Time", mapping[3]>> /\ down = up
      [] OTHER -> TRUE

(* validate_time_key: of a week only the shape is looked at.               *)
ValidKey(key, type) ==
    CASE type[1] = "Time" ->
            \/ key[1] = type[2]
            \/ type[2] = "Weekly" /\ key[1] = "Daily"
      [] type[1] = "Range" -> type[2] <= key[2] /\ key[2] < type[3]
      [] OTHER -> TRUE

Idle == [op |-> "none", args |-> <<>>, answer |-> <<>>]
Init == call = Idle

Answer(op, args, answer) ==
    call' = [op |-> op, args |-> args, answer |-> answer]

(* servo partition deps: one key, the types of the two assets.             *)
Dependencies(key, up, down) ==
    LET inferred == IF NoType \in {up, down} THEN Error ELSE InferMapping(up, down)
    IN  Answer("deps", <<key, up, down>>,
               IF inferred = Error THEN <<key>> ELSE MapPartition(inferred, key))

(* A custom default is replaced by the identity when a resolver is made.   *)
DefaultMapping(mapping) ==
    IF mapping[1] = "Custom" THEN <<"Identity">> ELSE mapping

Ends(mapping, start, end) ==
    LET first == MapPartition(mapping, start)
        last == MapPartition(mapping, end)
    IN  CASE mapping[1] = "Aggregation" -> <<Head(first), Last(last)>>
          [] mapping[1] = "Window"      -> <<Last(first), end>>
          [] mapping[1] = "Offset"      -> <<Head(first), Head(last)>>
          [] OTHER                      -> <<start, end>>

(* The range of a child job, from the range of its parent.                 *)
ResolveRange(default, start, end, up, down) ==
    LET inferred == IF NoType \in {up, down} THEN Error ELSE InferMapping(up, down)
        mapping == IF inferred = Error THEN DefaultMapping(default) ELSE inferred
    IN  Answer("range", <<mapping, start, end>>, Ends(mapping, start, end))

(* PartitionValidator: a dependency, with or without a mapping of its own, *)
(* and the range of a request, whose keys are compared as strings.         *)
ValidateDependency(up, down) ==
    Answer("dependency", <<up, down>>, <<InferMapping(up, down) # Error>>)
ValidateWithMapping(mapping, up, down) ==
    Answer("mapping", <<mapping, up, down>>, <<Compatible(mapping, up, down)>>)
ValidateKey(key, type) ==
    Answer("key", <<key, type>>, <<ValidKey(key, type)>>)

(* servo backfill range: every day of the range, at most 366 of them.      *)
MaxPartitions == 366
GenerateRange(start, end) ==
    LET count == end[2] - start[2] + 1
    IN  /\ start[1] = "Daily" /\ end[1] = "Daily"
        /\ Answer("days", <<start, end>>,
                  IF count < 1 \/ count > MaxPartitions
                  THEN Error ELSE Days(start[2], count))

Return == call # Idle /\ call' = Idle

Ask ==
    \/ \E key \in Keys, up, down \in Types \cup {NoType} :
          Dependencies(key, up, down)
    \/ \E start, end \in Keys, up, down \in Types \cup {NoType},
          default \in Mappings :
          start[1] = end[1] /\ ResolveRange(default, start, end, up, down)
    \/ \E up, down \in Types : ValidateDependency(up, down)
    \/ \E up, down \in Types, mapping \in Mappings :
          ValidateWithMapping(mapping, up, down)
    \/ \E key \in Keys, type \in Types : ValidateKey(key, type)
    \/ \E start, end \in Keys : GenerateRange(start, end)

Next == Return \/ (call = Idle /\ Ask)

Spec == Init /\ [][Next]_mappingVars

-----------------------------------------------------------------------------
(* The hours or days a key stands for, by the calendar.                    *)
DaysOf(key) ==
    CASE key[1] = "Daily"   -> key[2]..key[2]
      [] key[1] = "Weekly"  -> IsoMonday(key[2], key[3])..IsoMonday(key[2], key[3]) + 6
      [] key[1] = "Monthly" -> DayNumber(key[2], key[3], 1)..
                                 (IF key[3] = 12 THEN DayNumber(key[2] + 1, 1, 1)
                                  ELSE DayNumber(key[2], key[3] + 1, 1)) - 1
      [] key[1] = "Yearly"  -> DaysBeforeYear(key[2]) + 1..DaysBeforeYear(key[2] + 1)
Exists(key) == key[1] = "Weekly" => IsoWeekExists(key[2], key[3])
OfGrain(key, grain) == key[1] = grain /\ Exists(key)

(* The upstream partitions of a period are the ones it is made of, each    *)
(* once: none is left out at the end of a month, of a leap year or of a    *)
(* long year, and none of the next period is taken.                        *)
AggregationExact ==
    \A grain \in {"Weekly", "Monthly", "Daily", "Yearly"} :
        /\ call.op = "deps" /\ call.args[3] = <<"Time", grain>>
        /\ call.args[2] # NoType /\ OfGrain(call.args[1], grain)
        => LET key == call.args[1]
               up == call.args[2]
           IN  /\ up = <<"Time", "Daily">> /\ grain # "Yearly" =>
                     /\ ToSet(call.answer) = {<<"Daily", d>> : d \in DaysOf(key)}
                     /\ Len(call.answer) = Cardinality(DaysOf(key))
               /\ up = <<"Time", "Hourly">> /\ grain = "Daily" =>
                     ToSet(call.answer) =
                        {<<"Hourly", h>> : h \in 24 * key[2]..24 * key[2] + 23}
               /\ up = <<"Time", "Monthly">> /\ grain = "Yearly" =>
                     DaysOf(key) = UNION {DaysOf(m) : m \in ToSet(call.answer)}

(* The range of days resolved for the child job holds every day of every   *)
(* week or month of the range of the job, its last one included.           *)
RangeCovers ==
    \A grain \in {"Weekly", "Monthly"} :
        LET start == DaysOf(call.args[2])
            end == DaysOf(call.args[3])
        IN  /\ call.op = "range" /\ call.args[1] = <<"Aggregation", "Daily", grain>>
            /\ OfGrain(call.args[2], grain) /\ OfGrain(call.args[3], grain)
            /\ \A d \in start, e \in end : d <= e \/ start = end
            => \A day \in start \cup end :
                    call.answer[1][2] <= day /\ day <= call.answer[2][2]

MappingSound == AggregationExact /\ RangeCovers
=============================================================================
