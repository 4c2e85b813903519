----------------------------- MODULE TypedValues -----------------------------
(***************************************************************************)
(* What the analysis engine makes of columns and values (data_engine.rs):  *)
(* the names and types of an imported table, the value DuckDB keeps for a  *)
(* value of the source, and the JSON a result shows.  JSON holds neither   *)
(* every integer nor a decimal, so both travel as text, and a value has to *)
(* come back as what it was, or be refused.                                *)
(* A JSON number is counted in halves, a typed text is its characters, and *)
(* a text the program prints is what it prints.                            *)
(***************************************************************************)
EXTENDS Integers, Sequences, SequencesExt, FiniteSets, FiniteSetsExt

CONSTANTS
  HeaderNames,  \* of source columns: [upper |-> BOOLEAN, parts |-> a sequence], blank when empty
  MaxColumns,   \* bound: columns of a table
  SourceTypes,  \* [words |-> what the type's name contains, width, scale]
  JsonValues,   \* what a source sends
  Computed,     \* values of a result that no import makes
  MaxLong,      \* the integers of BIGINT: -MaxLong - 1 .. MaxLong (2^63 - 1)
  MaxSafe,      \* the integers a JSON number holds: up to MaxSafe (2^53 - 1)
  MaxDecimal,   \* widest DECIMAL (38)
  Day           \* its seconds

VARIABLES
  header, \* the columns a source has named
  names,  \* what a table calls them
  given,  \* the type and the value of a row's one column
  held,   \* the value DuckDB keeps
  seen    \* the JSON of that value

valueVars == <<header, names, given, held, seen>>

NoValue == [form |-> "none"]
Refusal == [form |-> "refused"]

-----------------------------------------------------------------------------
(* JSON values, and the texts the program prints. *)
JsonNull        == [form |-> "null"]
Bool(b)         == [form |-> "bool", is |-> b]
Number(halves)  == [form |-> "number", halves |-> halves]
Text(chars)     == [form |-> "text", chars |-> chars]
Octets(items)   == [form |-> "bytes", items |-> items]
Printed(v)      == [form |-> "printed", of |-> v]
Quotient(n, places)  == [form |-> "quotient", n |-> n, places |-> places]  \* n / 10^places
Moment(second, part) == [form |-> "moment", second |-> second, part |-> part]
Listed(values)       == [form |-> "listed", values |-> values]

(* The characters of a number: its digits and these three. *)
Dot == 10
Minus == 11
Plus == 12
Characters == 0 .. 12
AreDigits(cs) == \A i \in DOMAIN cs : cs[i] \in 0 .. 9
NumberOf(digits) ==
  LET upto[i \in 0 .. Len(digits)] == IF i = 0 THEN 0 ELSE 10 * upto[i - 1] + digits[i]
  IN  upto[Len(digits)]
Zeros(k) == [i \in 1 .. k |-> 0]
PowerOfTen(k) == NumberOf(<<1>> \o Zeros(k))

(* What a value and its kind are in DuckDB: what it holds has the form of  *)
(* the JSON it is nearest to, or counts units of a second.                 *)
Held(kind, v) == [kind |-> kind, v |-> v]
NullValue == Held("NULL", JsonNull)
Integer(kind, n) == Held(kind, Number(2 * n))
Ticks(kind, units, n) == Held(kind, [form |-> "ticks", units |-> units, n |-> n])

(* A sequence, whatever it is of. *)
IsASeq(s) == Len(s) \in Nat /\ s = [i \in 1 .. Len(s) |-> s[i]]

(* Names, types, JSON values and computed values are what they are taken   *)
(* for below, and the bounds are numbers.                                  *)
IsName(name) ==
  name = [upper |-> name.upper, parts |-> name.parts] /\ name.upper \in BOOLEAN /\ IsASeq(name.parts)

IsJson(v) ==
  CASE v.form = "number" -> v = Number(v.halves) /\ v.halves \in Int
    [] v.form = "text" -> v = Text(v.chars) /\ v.chars \in Seq(Characters)
    [] OTHER -> v = JsonNull \/ v.form \in {"bool", "bytes"}

IsScalar(h) ==
  CASE h.kind \in {"BIGINT", "HUGEINT"} -> h.v = Number(h.v.halves) /\ h.v.halves \in Int
    [] h.kind \in {"TIMESTAMP", "TIME"} -> h.v.units \in Nat \ {0} /\ h.v.n \in Int
    [] OTHER -> h.kind \in {"NULL", "BOOLEAN", "DOUBLE", "VARCHAR", "BLOB", "DECIMAL", "NOT FINITE"}
IsComputed(h) ==
  CASE h.kind = "LIST" -> \A i \in DOMAIN h.v.values : IsScalar(h.v.values[i])
    [] h.kind = "MAP" ->
         \A i \in DOMAIN h.v.values : IsScalar(h.v.values[i].key) /\ IsScalar(h.v.values[i].value)
    [] OTHER -> IsScalar(h)

ASSUME ValuesAssumption ==
  /\ \A name \in HeaderNames : IsName(name)
  /\ \A t \in SourceTypes : t.width \in Nat /\ t.scale \in Nat
  /\ \A v \in JsonValues : IsJson(v)
  /\ \A h \in Computed : IsComputed(h)
  /\ MaxColumns \in Nat /\ MaxLong \in Nat /\ MaxSafe \in Nat /\ MaxDecimal \in Nat

-----------------------------------------------------------------------------
(* A name that is taken, in any case, gets the first free number. *)
Base(name, at) ==
  IF name.parts = <<>> THEN [upper |-> FALSE, parts |-> <<"column", at>>] ELSE name
(* Mutant: the numbered name is not looked for again. *)
NamedTwo(base, used) ==
  IF base.parts \notin used THEN base ELSE [base EXCEPT !.parts = Append(@, 2)]

Named(base, used) ==
  IF base.parts \notin used THEN base
  ELSE [base EXCEPT !.parts = Append(@, Min({n \in 2 .. MaxColumns + 2 : Append(@, n) \notin used}))]
Used == {names[i].parts : i \in DOMAIN names}

(* The first test that holds names the type; interval and point have int. *)
IsDecimal(t) ==
  "decimal" \in t.words /\ t.width \in 1 .. MaxDecimal /\ t.scale <= t.width
Type(kind) == [kind |-> kind, width |-> 0, scale |-> 0]
AnalyticalType(t) ==
  CASE t.words \cap {"bool", "bit"} # {} -> Type("BOOLEAN")
    [] t.words \cap {"bool", "bit"} = {} /\ "int" \in t.words -> Type("BIGINT")
    [] t.words \cap {"bool", "bit", "int"} = {} /\ IsDecimal(t) ->
         [kind |-> "DECIMAL", width |-> t.width, scale |-> t.scale]
    [] t.words \cap {"bool", "bit", "int"} = {} /\ ~IsDecimal(t) ->
         Type(IF "float" \in t.words THEN "DOUBLE"
              ELSE IF "binary" \in t.words THEN "BLOB" ELSE "VARCHAR")

-----------------------------------------------------------------------------
Long(n) == IF n \in -MaxLong - 1 .. MaxLong THEN Integer("BIGINT", n) ELSE Refusal

(* An integer: a sign, which may be a plus, and digits. *)
ParseLong(cs) ==
  LET signed == cs # <<>> /\ Head(cs) \in {Minus, Plus}
      digits == IF signed THEN Tail(cs) ELSE cs
  IN  IF digits = <<>> \/ ~AreDigits(digits) THEN Refusal
      ELSE Long(IF signed /\ Head(cs) = Minus THEN -NumberOf(digits) ELSE NumberOf(digits))

(* The place of the first point, or that behind the text. *)
Point(cs) ==
  CHOOSE p \in 1 .. Len(cs) + 1 : (p <= Len(cs) => cs[p] = Dot) /\ \A i \in 1 .. p - 1 : cs[i] # Dot

(* An exact decimal: digits, and no more of them behind the point than the *)
(* scale has; the missing ones are zeros.                                  *)
ParseScaledDecimal(cs, type) ==
  LET negative == cs # <<>> /\ Head(cs) = Minus
      unsigned == IF negative THEN Tail(cs) ELSE cs
      point    == Point(unsigned)
      whole    == SubSeq(unsigned, 1, point - 1)
      fraction == SubSeq(unsigned, point + 1, Len(unsigned))
      n        == NumberOf(whole \o fraction \o Zeros(type.scale - Len(fraction)))
  IN  IF whole = <<>> \/ ~AreDigits(whole \o fraction) \/ Len(fraction) > type.scale THEN Refusal
      ELSE IF n >= PowerOfTen(type.width) THEN Refusal
      ELSE Held("DECIMAL", Quotient(IF negative THEN -n ELSE n, type.scale))

ToLong(v) ==
  IF v.form = "text" THEN ParseLong(v.chars)
  ELSE IF v.form = "number" /\ v.halves % 2 = 0 THEN Long(v.halves \div 2) ELSE Refusal

(* What DuckDB keeps of a JSON value in a column of the type. *)
JsonToDuckdb(v, type) ==
  CASE v = JsonNull -> NullValue
    [] v # JsonNull /\ type.kind = "DECIMAL" ->
         IF v.form = "text" THEN ParseScaledDecimal(v.chars, type) ELSE Refusal
    [] v # JsonNull /\ type.kind = "BOOLEAN" ->
         IF v.form = "bool" THEN Held("BOOLEAN", v) ELSE Refusal
    [] v # JsonNull /\ type.kind = "BIGINT" -> ToLong(v)
    [] v # JsonNull /\ type.kind = "DOUBLE" ->
         IF v.form = "number" THEN Held("DOUBLE", v) ELSE Refusal
    [] v # JsonNull /\ type.kind = "BLOB" ->
         IF v.form = "bytes" THEN Held("BLOB", v) ELSE Refusal
    [] v # JsonNull /\ type.kind = "VARCHAR" ->
         Held("VARCHAR", IF v.form = "text" THEN v ELSE Printed(v))

-----------------------------------------------------------------------------
(* What a result shows of a value.  A 64-bit integer JSON would round is   *)
(* text, and a wider one and a decimal always are; a moment before the     *)
(* first is counted from the second below it; the pairs of a map keep keys *)
(* that are no text.  A time of twenty-four hours, and a double that is no *)
(* number, are refused.                                                    *)
InSeconds(t) == Moment(t.n \div t.units, t.n % t.units)
ShownScalar(h) ==
  CASE h.kind \in {"NULL", "BOOLEAN", "DOUBLE", "VARCHAR", "BLOB"} -> h.v
    [] h.kind = "BIGINT" ->
         IF h.v.halves \in -2 * MaxSafe .. 2 * MaxSafe THEN h.v ELSE Printed(h.v)
    [] h.kind \in {"HUGEINT", "DECIMAL"} -> Printed(h.v)
    [] h.kind = "NOT FINITE" -> Refusal
    [] h.kind = "TIMESTAMP" -> InSeconds(h.v)
    [] h.kind = "TIME" -> IF h.v.n < Day * h.v.units THEN InSeconds(h.v) ELSE Refusal

(* One value that is refused refuses the list it is in. *)
AllOf(values) ==
  IF \E i \in DOMAIN values : values[i] = Refusal THEN Refusal ELSE Listed(values)
ValueToJson(h) ==
  CASE h.kind = "LIST" -> AllOf([i \in DOMAIN h.v.values |-> ShownScalar(h.v.values[i])])
    [] h.kind = "MAP" ->
         AllOf([i \in DOMAIN h.v.values |->
                  AllOf(<<ShownScalar(h.v.values[i].key), ShownScalar(h.v.values[i].value)>>)])
    [] h.kind \notin {"LIST", "MAP"} -> ShownScalar(h)

-----------------------------------------------------------------------------
ValuesInit == header = <<>> /\ names = <<>> /\ given = NoValue /\ held = NoValue /\ seen = NoValue

(* One turn of normalize_columns. *)
AddColumn(name) ==
  /\ given = NoValue /\ held = NoValue
  /\ Len(header) < MaxColumns
  /\ header' = Append(header, name)
  /\ names' = Append(names, Named(Base(name, Len(header) + 1), Used))
  /\ UNCHANGED <<given, held, seen>>

(* A row is appended whole or not at all, so one column shows each case. *)
AppendRow(t, v) ==
  /\ Len(header) = 1 /\ held = NoValue
  /\ given' = [type |-> t, v |-> v]
  /\ held' = JsonToDuckdb(v, AnalyticalType(t))
  /\ UNCHANGED <<header, names, seen>>

Compute(h) ==
  /\ header = <<>> /\ held = NoValue
  /\ held' = h
  /\ UNCHANGED <<header, names, given, seen>>

ShowValue ==
  /\ held \notin {NoValue, Refusal} /\ seen = NoValue
  /\ seen' = ValueToJson(held)
  /\ UNCHANGED <<header, names, given, held>>

ValuesNext ==
  \/ \E name \in HeaderNames : AddColumn(name)
  \/ \E t \in SourceTypes, v \in JsonValues : AppendRow(t, v)
  \/ \E h \in Computed : Compute(h)
  \/ ShowValue

ValuesSpec == ValuesInit /\ [][ValuesNext]_valueVars

-----------------------------------------------------------------------------
(* What a value means: a number is a numerator over a denominator, however *)
(* it is written; anything else is itself.  A numeral is read from left to *)
(* right, a place behind the point counting a tenth of the one before it.  *)
IsNumeric(cs) ==
  /\ \E i \in DOMAIN cs : cs[i] \in 0 .. 9
  /\ \A i \in DOMAIN cs : cs[i] \in {Minus, Plus} => i = 1
  /\ \A i, j \in DOMAIN cs : cs[i] = Dot /\ cs[j] = Dot => i = j
Unread == [n |-> 0, over |-> 1, behind |-> FALSE]
ReadOn(r, c) ==
  IF c = Dot THEN [r EXCEPT !.behind = TRUE]
  ELSE IF c \in 0 .. 9 THEN [r EXCEPT !.n = 10 * @ + c, !.over = IF r.behind THEN 10 * @ ELSE @]
  ELSE r
Reading(cs) ==
  LET upto[i \in 0 .. Len(cs)] == IF i = 0 THEN Unread ELSE ReadOn(upto[i - 1], cs[i])
  IN  upto[Len(cs)]
Sign(cs) == IF cs # <<>> /\ cs[1] = Minus THEN -1 ELSE 1
Fraction(v) ==
  CASE v.form = "number" -> <<v.halves, 2>>
    [] v.form = "quotient" -> <<v.n, PowerOfTen(v.places)>>
    [] v.form = "text" -> <<Sign(v.chars) * Reading(v.chars).n, Reading(v.chars).over>>
IsANumber(v) == v.form \in {"number", "quotient"} \/ (v.form = "text" /\ IsNumeric(v.chars))
Plainly(v) == IF v.form = "printed" THEN v.of ELSE v

Means(u, v) ==
  \/ u = v
  \/ IsANumber(u) /\ IsANumber(v) /\ Fraction(u)[1] * Fraction(v)[2] = Fraction(v)[1] * Fraction(u)[2]

(* JavaScript reads an integer without rounding: it is small or a text. *)
IsExact(v) == v.form = "number" /\ v.halves % 2 = 0 => v.halves \in -2 * MaxSafe .. 2 * MaxSafe

(* A moment is so many units after the first, a part of one being positive. *)
IsMoment(t, v) == v.part \in 0 .. t.units - 1 /\ v.second * t.units + v.part = t.n

ScalarShown(h, v) ==
  CASE h.kind \in {"BIGINT", "HUGEINT"} -> Plainly(v) = h.v /\ IsExact(v)
    [] h.kind = "DECIMAL" -> Plainly(v) = h.v
    [] h.kind \in {"TIMESTAMP", "TIME"} -> IsMoment(h.v, v)
    [] OTHER -> v = h.v
IsShown(h, v) ==
  CASE h.kind = "LIST" ->
         /\ DOMAIN v.values = DOMAIN h.v.values
         /\ \A i \in DOMAIN h.v.values : ScalarShown(h.v.values[i], v.values[i])
    [] h.kind = "MAP" ->
         /\ DOMAIN v.values = DOMAIN h.v.values
         /\ \A i \in DOMAIN h.v.values :
              /\ ScalarShown(h.v.values[i].key, v.values[i].values[1])
              /\ ScalarShown(h.v.values[i].value, v.values[i].values[2])
    [] OTHER -> ScalarShown(h, v)

(* The columns of a table have names that no case confuses, each the name  *)
(* of its source where that was free: normalize_columns.                   *)
NamesDiffer ==
  /\ \A i, j \in DOMAIN names : i # j => names[i].parts # names[j].parts
  /\ \A i \in DOMAIN names :
       header[i].parts # <<>> /\ (\A j \in 1 .. i - 1 : names[j].parts # header[i].parts)
         => names[i] = header[i]

(* An imported value is shown as the value that was sent, a computed one   *)
(* as what it is, neither rounded on the way through JSON nor moved in     *)
(* time: json_to_duckdb and value_to_json.                                 *)
ValuesKept ==
  seen \notin {NoValue, Refusal} =>
    /\ IsShown(held, seen)
    /\ given # NoValue => Means(Plainly(seen), given.v)

(* What keeps them: there is a name for each column, the value that is     *)
(* held was made of the one that was given, and the one that is seen of it. *)
ColumnsNamed ==
  /\ header \in Seq(HeaderNames) /\ Len(header) <= MaxColumns
  /\ DOMAIN names = DOMAIN header /\ IsASeq(names)
  /\ \A i \in DOMAIN names : IsName(names[i])
ValuesMade ==
  /\ given # NoValue =>
       /\ given.type \in SourceTypes /\ given.v \in JsonValues
       /\ held = JsonToDuckdb(given.v, AnalyticalType(given.type))
  /\ given = NoValue => held \in Computed \cup {NoValue}
  /\ seen # NoValue => held \notin {NoValue, Refusal} /\ seen = ValueToJson(held)

ValuesInv == ColumnsNamed /\ ValuesMade /\ NamesDiffer /\ ValuesKept
=============================================================================
