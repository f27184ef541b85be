------------------------------ MODULE Vectors ------------------------------
(***************************************************************************)
(* Values, vectors of values, the operations on them and the statistics    *)
(* of columns: src/lib/Common/Types.  A vector has STANDARD_VECTOR_SIZE    *)
(* positions, of which `count' hold its values: the first ones, or those   *)
(* that a selection vector lists.  What the other positions hold is        *)
(* whatever was there before, and the code must never let it count.        *)
(*                                                                         *)
(* Integers have few bits, booleans are 0 and 1; decimals, dates, pointers *)
(* and strings behave like the integers here and are left out.  An         *)
(* exception is a value without the fields of a vector.                    *)
(***************************************************************************)
EXTENDS Integers, Sequences, FiniteSets, SequencesExt

CONSTANTS VectorSize,   \* STANDARD_VECTOR_SIZE
          Width,        \* bits of TINYINT, SMALLINT, INTEGER and BIGINT
          Null,         \* what a reader gets for a position marked as NULL
          NoSel,        \* the sel_vector of a vector without one
          Trap          \* what a division by zero computes

VARIABLE junk           \* what fresh memory holds, 0 or 1

ASSUME VectorsAssumption == VectorSize \in Nat \ {0} /\ \A t \in DOMAIN Width : Width[t] > 1

Positions == 0 .. VectorSize - 1

BOOLEAN_ == 2
TINYINT == 3
SMALLINT == 4
INTEGER == 5
BIGINT == 6

\* TypeIsIntegral, for the types of this model
Integral(type) == type \in TINYINT .. BIGINT

Larger(a, b) == IF a > b THEN a ELSE b
Smaller(a, b) == IF a < b THEN a ELSE b
Bit(b) == IF b THEN 1 ELSE 0

\* the limits of a type; its least number stands for NULL in tables
Limit(type) == 2 ^ (Width[type] - 1)
MinimumValue(type) == 1 - Limit(type)
MaximumValue(type) == Limit(type) - 1

InType(n, type) == n \in MinimumValue(type) .. MaximumValue(type)

MinimalType(n) ==
    CHOOSE t \in TINYINT .. BIGINT :
        /\ InType(n, t) \/ t = BIGINT
        /\ \A u \in TINYINT .. t - 1 : ~InType(n, u)

\* two's complement: what remains of n in a variable of the type
Wrap(n, type) ==
    IF type = BOOLEAN_ THEN n ELSE ((n + Limit(type)) % (2 * Limit(type))) - Limit(type)

-----------------------------------------------------------------------------
(* Value.cc: a number or NULL with its type                                *)

Value(type, n) == [type |-> type, val |-> n]

CastAs(v, type) == Value(type, IF v.val = Null THEN Null ELSE Wrap(v.val, type))

Quotient(a, b) ==
    LET q == (IF a < 0 THEN -a ELSE a) \div (IF b < 0 THEN -b ELSE b)
    IN  IF (a < 0) = (b < 0) THEN q ELSE -q
Divided(a, b) == IF b = 0 THEN Trap ELSE Quotient(a, b)
Remainder(a, b) == IF b = 0 THEN Trap ELSE a - b * Quotient(a, b)

\* Operators.hpp, before the result is stored in its type
Compute(op, a, b) ==
    CASE op = "ADD" -> a + b
      [] op = "SUB" -> a - b
      [] op = "MUL" -> a * b
      [] op = "DIV" -> Divided(a, b)
      [] op = "MOD" -> Remainder(a, b)
      [] op = "MIN" -> Smaller(a, b)
      [] op = "MAX" -> Larger(a, b)
      [] op = "COUNT" -> a + 1
      [] op = "LEFT" -> a

\* Add, Multiply ...: narrow operands are widened, and so is the result
ValueOp(op, l, r) ==
    LET wide == Wrap(Compute(op, l.val, r.val), BIGINT)
        type == Larger(l.type, r.type)
    IN  IF Null \in {l.val, r.val} THEN Value(type, Null)
        ELSE Value(IF type = BIGINT THEN BIGINT ELSE Larger(type, MinimalType(wide)), wide)

\* Min and Max ignore a NULL
ValuePick(op, l, r) ==
    IF r.val = Null THEN l ELSE IF l.val = Null THEN r ELSE ValueOp(op, l, r)

Compare(op, a, b) ==
    CASE op = "EQ" -> a = b
      [] op = "NE" -> a # b
      [] op = "LT" -> a < b
      [] op = "LE" -> a <= b
      [] op = "GT" -> a > b
      [] op = "GE" -> a >= b

-----------------------------------------------------------------------------
(* Vector.cc                                                               *)

Throw(what) == [exception |-> what]
Throws(v) == "exception" \in DOMAIN v

\* Vector::Initialize: memory that nobody has written, nothing marked as NULL
Initialize(type) ==
    [type |-> type, count |-> 0, sel |-> NoSel, null |-> {},
     data |-> [p \in Positions |-> junk]]

Position(v, i) == IF v.sel = NoSel THEN i ELSE v.sel[i + 1]
Selected(v) == {Position(v, i) : i \in 0 .. v.count - 1}
IsConstant(v) == v.count = 1 /\ v.sel = NoSel

GetValue(v, i) == IF Position(v, i) \in v.null THEN Null ELSE v.data[Position(v, i)]
Content(v) == [i \in 1 .. v.count |-> GetValue(v, i - 1)]
Values(v) == SelectSeq(Content(v), LAMBDA x : x # Null)

SetValue(v, i, x) ==
    LET p == Position(v, i)
    IN  [v EXCEPT !.null = IF x = Null THEN @ \cup {p} ELSE @ \ {p},
                  !.data[p] = IF x = Null THEN 0 ELSE Wrap(x, v.type)]

\* Vector(Value)
Constant(v) == SetValue([Initialize(v.type) EXCEPT !.count = 1], 0, v.val)

\* results of a pass over the selected positions of v go where v has them
Pass(v, out, null, result) ==
    IF Trap \in {out[p] : p \in DOMAIN out} THEN Throw("division by 0")
    ELSE [result EXCEPT !.data = [p \in Positions |-> IF p \in DOMAIN out THEN out[p] ELSE @[p]],
                        !.null = null, !.sel = v.sel, !.count = v.count]

Negated(op, a, type) == IF op = "NOT" THEN 1 - a ELSE Wrap(IF a < 0 THEN -a ELSE a, type)

UnaryLoop(op, v, result) ==
    Pass(v, [p \in Selected(v) |-> Negated(op, v.data[p], v.type)], v.null, result)

\* a comparison, or a number in the type of both sides
Operation(op, a, b, type) ==
    IF op \in {"EQ", "NE", "LT", "LE", "GT", "GE"} THEN Bit(Compare(op, a, b))
    ELSE LET n == Compute(op, a, b) IN IF n = Trap THEN Trap ELSE Wrap(n, type)

\* _templated_binary_loop: a constant is a vector of one value without selection
BinaryLoop(op, l, r, result) ==
    LET nulls(v) == [result EXCEPT !.null = Positions, !.sel = v.sel, !.count = v.count]
    IN  CASE l.type # r.type -> Throw("type cast not implemented")
          [] l.type = r.type /\ IsConstant(l) ->
                IF 0 \in l.null THEN nulls(r)
                ELSE Pass(r, [p \in Selected(r) |-> Operation(op, l.data[0], r.data[p], l.type)], r.null, result)
          [] l.type = r.type /\ ~IsConstant(l) /\ IsConstant(r) ->
                IF 0 \in r.null THEN nulls(l)
                ELSE Pass(l, [p \in Selected(l) |-> Operation(op, l.data[p], r.data[0], l.type)], l.null, result)
          [] l.type = r.type /\ ~IsConstant(l) /\ ~IsConstant(r) ->
                IF l.count # r.count THEN Throw("lengths do not match")
                ELSE IF l.sel # r.sel THEN Throw("assertion")
                ELSE Pass(l, [p \in Selected(l) |-> Operation(op, l.data[p], r.data[p], l.type)],
                          l.null \cup r.null, result)

-----------------------------------------------------------------------------
(* VectorOperations.cc                                                     *)

Arithmetic(op, l, r, result) == BinaryLoop(op, l, r, result)
Comparison(op, l, r, result) == BinaryLoop(op, l, r, result)

Not(v, result) == UnaryLoop("NOT", v, result)
Abs(v, result) == UnaryLoop("ABS", v, result)

\* _is_null_loop: TRUE where v is NULL, or where it is not
IsNull(inverse, v, result) ==
    Pass(v, [p \in Selected(v) |-> Bit((p \in v.null) # inverse)], {}, result)

\* mutant: a NULL side makes the result NULL
EitherMask(a, b, aNull, bNull) == aNull \/ bNull

\* when TRUE and FALSE leave a result NULL, given the data and the marks of both
AndMask(a, b, aNull, bNull) == (aNull /\ (bNull \/ b = 1)) \/ (bNull /\ a = 1)
OrMask(a, b, aNull, bNull) == (aNull /\ (bNull \/ b = 0)) \/ (bNull /\ a = 0)

\* _templated_bool_nullmask_op: equal lengths before constants, and the mark of
\* a constant and a selected row looks at data of the wrong row
BoolLoop(op, l, r, result) ==
    LET value(a, b) == IF op = "AND" THEN Smaller(a, b) ELSE Larger(a, b)
        mask(a, b, aNull, bNull) ==
            IF op = "AND" THEN AndMask(a, b, aNull, bNull) ELSE OrMask(a, b, aNull, bNull)
        kept(v) == result.null \ Selected(v)
        pairwise ==
            Pass(l, [p \in Selected(l) |-> value(l.data[p], r.data[p])],
                 kept(l) \cup {p \in Selected(l) :
                     mask(l.data[p], r.data[p], p \in l.null, p \in r.null)}, result)
        withConstant(c, v) ==
            Pass(v, [p \in Selected(v) |-> value(c.data[0], v.data[p])],
                 kept(v) \cup {Position(v, i) : i \in {j \in 0 .. v.count - 1 :
                     mask(c.data[0], v.data[j], 0 \in c.null, Position(v, j) \in v.null)}}, result)
    IN  CASE l.count = r.count -> IF l.sel = r.sel THEN pairwise ELSE Throw("assertion")
          [] l.count # r.count /\ IsConstant(l) -> withConstant(l, r)
          [] l.count # r.count /\ ~IsConstant(l) ->
                IF IsConstant(r) THEN withConstant(r, l) ELSE Throw("lengths do not match")

\* Set: one value everywhere
Set(result, v) ==
    LET value == CastAs(v, result.type)
    IN  IF value.val = Null THEN [result EXCEPT !.null = Positions]
        ELSE BinaryLoop("LEFT", Constant(value), [result EXCEPT !.null = {}],
                        [result EXCEPT !.null = {}])

\* Case: constants are read at position 0, the result has the length of the check
Case(check, onTrue, onFalse, result) ==
    LET sels == <<check.sel, onTrue.sel, onFalse.sel>>
        used == SelectSeq(sels, LAMBDA s : s # NoSel)
        shaped == IF used = <<>> THEN result ELSE [result EXCEPT !.sel = used[1]]
        at(v, i) == IF IsConstant(v) THEN 0 ELSE Position(v, i)
        chosen(i) == IF check.data[at(check, i)] = 1 /\ at(check, i) \notin check.null
                     THEN onTrue ELSE onFalse
        row(p) == CHOOSE i \in 0 .. result.count - 1 : Position(shaped, i) = p
    IN  CASE \E v \in {check, onTrue, onFalse} : v.count \notin {1, result.count} ->
                 Throw("lengths do not match")
          [] OTHER ->
               IF check.type # BOOLEAN_ \/ {onTrue.type, onFalse.type} # {result.type}
                  \/ result.type = BOOLEAN_ THEN Throw("types do not match")
               ELSE IF used # <<>> /\ \E v \in {check, onTrue, onFalse} :
                           ~IsConstant(v) /\ v.sel = NoSel THEN Throw("assertion")
               ELSE [Pass(shaped, [p \in Selected(shaped) |-> chosen(row(p)).data[at(chosen(row(p)), row(p))]],
                          (shaped.null \ Selected(shaped)) \cup
                          {p \in Selected(shaped) :
                              at(chosen(row(p)), row(p)) \in chosen(row(p)).null},
                          shaped)
                     EXCEPT !.count = check.count]

\* Cast: every type to every other, except to booleans
Cast(v, result) ==
    IF v.type = result.type \/ result.type = BOOLEAN_ THEN Throw("cast not implemented")
    ELSE Pass(v, [p \in Selected(v) |-> Wrap(v.data[p], result.type)], v.null, result)

\* Divide: divisors that are 0 or NULL become 1 and NULL.  The vector of zeros
\* that they are compared with holds a zero at position 0 only.
Fixed(l, fixed, result) == IF Throws(fixed) THEN fixed ELSE Arithmetic("DIV", l, fixed, result)
FixedWhere(l, r, needsFix, result) ==
    LET oneButNull == [Set([Initialize(r.type) EXCEPT !.count = 1], Value(INTEGER, 1))
                       EXCEPT !.null = Positions]
    IN  IF Throws(needsFix) THEN needsFix
        ELSE Fixed(l, Case(needsFix, oneButNull, r,
                           [Initialize(r.type) EXCEPT !.count = r.count, !.sel = r.sel]), result)

Divide(l, r, result) ==
    LET zeroes == [Set([Initialize(r.type) EXCEPT !.count = 1], Value(INTEGER, 0))
                   EXCEPT !.sel = r.sel, !.count = r.count]
        flags == Initialize(BOOLEAN_)
    IN  IF r.type # l.type THEN Throw("type cast not implemented")
        ELSE FixedWhere(l, r, BoolLoop("OR", Comparison("EQ", r, zeroes, flags), IsNull(FALSE, r, flags),
                                       [flags EXCEPT !.count = r.count]), result)

\* Vector::Copy without or with an offset: the marks of a vector without
\* selection are shifted by it, upwards
Copy(v, target, offset) ==
    LET n == v.count - offset
        null == IF v.sel = NoSel THEN {p + offset : p \in v.null} \cap Positions
                ELSE (target.null \ (0 .. n - 1)) \cup
                     {i \in 0 .. n - 1 : Position(v, offset + i) \in v.null}
    IN  CASE v.type # target.type \/ target.sel # NoSel -> Throw("copy not supported")
          [] v.type = target.type /\ target.sel = NoSel ->
                IF n = 0 /\ v.count > 0 THEN Throw("assertion")
                ELSE [target EXCEPT !.count = n, !.null = null,
                        !.data = [p \in Positions |->
                            IF p < n THEN v.data[Position(v, offset + p)] ELSE @[p]]]

\* Vector::Append: marks are added, never taken away
AppendVector(v, other) ==
    LET marked == IF other.sel = NoSel THEN {p + v.count : p \in other.null} \cap Positions
                  ELSE {v.count + i : i \in {j \in 0 .. other.count - 1 :
                                                Position(other, j) \in other.null}}
        kept == IF other.sel = NoSel THEN v.null
                ELSE v.null \ (v.count .. v.count + other.count - 1)
    IN  CASE v.sel # NoSel \/ v.type # other.type -> Throw("append not supported")
          [] v.sel = NoSel /\ v.type = other.type ->
                IF v.count + other.count > VectorSize THEN Throw("vector is full")
                ELSE [v EXCEPT !.count = @ + other.count, !.null = kept \cup marked,
                        !.data = [p \in Positions |->
                            IF p \in v.count .. v.count + other.count - 1
                            THEN other.data[Position(other, p - v.count)] ELSE @[p]]]

\* AppendNull: values as tables keep them, the least of the type for NULL
AppendNull(v, values) ==
    LET at(p) == p - v.count + 1
        new == v.count .. v.count + Len(values) - 1
    IN  [v EXCEPT !.count = @ + Len(values),
                  !.null = @ \cup {p \in new : values[at(p)] = Null},
                  !.data = [p \in Positions |->
                      IF p \notin new THEN @[p]
                      ELSE IF values[at(p)] = Null THEN -Limit(v.type) ELSE values[at(p)]]]

-----------------------------------------------------------------------------
(* DataChunk.cc: vectors of equal length that share a selection vector     *)

NewChunk(types) ==
    [count |-> 0, sel |-> NoSel, cols |-> [i \in DOMAIN types |-> Initialize(types[i])]]

ChunkRows(c) ==
    [i \in 1 .. c.count |-> [k \in DOMAIN c.cols |-> GetValue(c.cols[k], i - 1)]]

\* DataChunk::SetSelectionVector
SetSelectionVector(c, matches) ==
    LET hits == SelectSeq([i \in 1 .. matches.count |-> i - 1],
                    LAMBDA i : matches.data[Position(c, i)] = 1 /\ Position(c, i) \notin matches.null)
        sel == IF c.sel = NoSel /\ Len(hits) = matches.count THEN NoSel
               ELSE [i \in DOMAIN hits |-> Position(c, hits[i])]
    IN  IF c.sel # NoSel /\ matches.sel = NoSel THEN Throw("assertion")
        ELSE [count |-> Len(hits), sel |-> sel,
              cols |-> [i \in DOMAIN c.cols |-> [c.cols[i] EXCEPT !.count = Len(hits), !.sel = sel]]]

ScanChunk(types, nulls, values) ==
    [count |-> Len(values), sel |-> NoSel,
     cols |-> [i \in DOMAIN types |->
         AppendNull([Initialize(types[i]) EXCEPT !.null = nulls[i]],
                    [r \in DOMAIN values |-> values[r][i]])]]

-----------------------------------------------------------------------------
(* VectorAggregates.cc                                                     *)

Fold(op, base, v) ==
    Value(v.type, FoldLeft(LAMBDA acc, x : Wrap(Compute(op, acc, x), v.type), base, Values(v)))

NothingToFold(v) == v.count = 0 \/ ~Integral(v.type)

Sum(v) ==
    IF NothingToFold(v) THEN Value(INTEGER, Null)
    ELSE IF Values(v) = <<>> THEN Value(v.type, Null) ELSE Fold("ADD", 0, v)

Count(v) ==
    IF Integral(v.type) THEN Fold("COUNT", 0, v) ELSE Throw("not numeric")

\* a result equal to where the fold began counts as none
Extreme(op, base, v) ==
    IF NothingToFold(v) THEN Value(INTEGER, Null)
    ELSE LET result == Fold(op, base, v)
         IN  IF result.val = base THEN Value(v.type, Null) ELSE result

MaxOf(v) == Extreme("MAX", -Limit(v.type), v)
MinOf(v) == Extreme("MIN", MaximumValue(v.type), v)

AnyTrue(v) == 1 \in ToSet(Values(v))
HasNull(v) == v.null # {}

-----------------------------------------------------------------------------
(* Statistic.cc: bounds on the values of a column or of an expression      *)

NoStatistics == [has |-> FALSE, canNull |-> FALSE, count |-> 0,
                 min |-> Value(INTEGER, Null), max |-> Value(INTEGER, Null)]

ConstantStatistics(v) ==
    LET n == IF Integral(v.type) THEN CastAs(v, BIGINT) ELSE v
    IN  [has |-> TRUE, canNull |-> v.val = Null, count |-> 1, min |-> n, max |-> n]

\* the statistics of a table's column grow with every append and update
Update(s, v) ==
    LET least == CastAs(MinOf(v), BIGINT)
        most == CastAs(MaxOf(v), BIGINT)
    IN  [has |-> TRUE, canNull |-> s.canNull \/ HasNull(v), count |-> s.count + v.count,
         min |-> IF s.has THEN ValuePick("MIN", s.min, least) ELSE least,
         max |-> IF s.has THEN ValuePick("MAX", s.max, most) ELSE most]

FitsInType(s, type) ==
    (Integral(type) /\ s.has /\ s.min.val # Null /\ s.max.val # Null)
        => InType(s.min.val, type) /\ InType(s.max.val, type)

MinimalTypeOf(s) ==
    IF ~Integral(s.min.type) \/ Null \in {s.min.val, s.max.val} THEN s.min.type
    ELSE Larger(MinimalType(s.min.val), MinimalType(s.max.val))

Both(l, r, min, max) ==
    IF l.has /\ r.has
    THEN [has |-> TRUE, canNull |-> l.canNull \/ r.canNull,
          count |-> Larger(l.count, r.count), min |-> min, max |-> max]
    ELSE NoStatistics

\* mutant: the least minus the least
DifferenceOfLike(l, r) == Both(l, r, ValueOp("SUB", l.min, r.min), ValueOp("SUB", l.max, r.max))

Difference(l, r) == Both(l, r, ValueOp("SUB", l.min, r.max), ValueOp("SUB", l.max, r.min))

\* products and quotients have no statistics
OperatorStatistics(op, l, r) ==
    CASE op = "ADD" -> Both(l, r, ValueOp("ADD", l.min, r.min), ValueOp("ADD", l.max, r.max))
      [] op = "SUB" -> Difference(l, r)
      [] op = "MOD" -> Both(l, r, Value(r.max.type, 0), r.max)
      [] OTHER -> NoStatistics

\* of a sum over one group, which may be the whole column or one row of it
SumStatistics(s) ==
    LET n == Value(s.min.type, s.count)
    IN  IF ~s.has THEN NoStatistics
        ELSE [has |-> TRUE, canNull |-> TRUE, count |-> 1,
              min |-> ValuePick("MIN", ValueOp("MUL", s.min, n), s.min),
              max |-> ValueOp("MUL", s.max, n)]

CountStatistics(s) ==
    IF ~s.has THEN NoStatistics
    ELSE [has |-> TRUE, canNull |-> TRUE, count |-> 1,
          min |-> Value(s.min.type, 0), max |-> Value(s.min.type, s.count)]
=============================================================================
