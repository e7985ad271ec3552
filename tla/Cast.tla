-------------------------------- MODULE Cast --------------------------------
(***************************************************************************)
(* Package cast: conversions between Go's numbers, texts, booleans and     *)
(* times (src/cast).  A behaviour is one value converted again and again,  *)
(* by To[T] in any order, the way configuration values travel: a number of *)
(* a YAML file becomes a json.Number, a text, a float to be compared with  *)
(* a range, and the integer of a field.                                    *)
(*                                                                         *)
(* The widths are scaled down: 8, 16, 32 and 64 bits become 2, 3, 4 and 6, *)
(* and the 53 and 24 significant bits of float64 and float32 become 4 and  *)
(* 3, which keeps what matters of their order: float64 holds every 32-bit  *)
(* integer and not every 64-bit one, float32 every 16-bit one and not      *)
(* every 32-bit one, and the largest float32 lies beyond every integer.    *)
(* A number is kept as twice its value, so that halves exist.              *)
(***************************************************************************)
EXTENDS Integers

CONSTANT IntBits    \* the width of int and uint: 6, or 4 on a 32-bit platform

VARIABLES
    val,    \* the value
    step    \* the last conversion: its target type and whether it succeeded

cvars == <<val, step>>

Signed == {"int", "int8", "int16", "int32", "int64"}
Unsigned == {"uint", "uint8", "uint16", "uint32", "uint64"}
Floats == {"float32", "float64"}
Texts == {"string", "number"}           \* string and json.Number
Targets == Signed \cup Unsigned \cup Floats \cup {"string", "bool", "duration", "time"}

Bits(T) ==
    CASE T \in {"int", "uint"} -> IntBits
      [] T \in {"int8", "uint8"} -> 2
      [] T \in {"int16", "uint16"} -> 3
      [] T \in {"int32", "uint32"} -> 4
      [] T \in {"int64", "uint64", "duration", "time"} -> 6
Smallest(T) == IF T \in Unsigned THEN 0 ELSE - 2^(Bits(T) - 1)
Largest(T) == IF T \in Unsigned THEN 2^Bits(T) - 1 ELSE 2^(Bits(T) - 1) - 1

-----------------------------------------------------------------------------
(* Values: their type t, their sort s and twice their number h.            *)

\* "finite" numbers, the other floats, and texts that are no number: an
\* ordinary word, a duration with its unit ("5s"), a time (RFC 3339).
Value(t, s, h) == [t |-> t, s |-> s, h |-> h]
Num(t, n) == Value(t, "finite", 2 * n)
Nil == Value("nil", "none", 0)
Bool(b) == Value("bool", "finite", IF b THEN 2 ELSE 0)
ZeroTime == Value("time", "zero", 0)

Fail == Value("error", "none", 0)

Abs(n) == IF n < 0 THEN -n ELSE n
\* The integer part, as Go's conversion of a float takes it.
Truncate(h) == IF h < 0 THEN - ((-h) \div 2) ELSE h \div 2

\* The float with p significant bits next to h (ties to even), as the compiler
\* and strconv round, and the place where it becomes an infinity.
Significant(T) == IF T = "float32" THEN 3 ELSE 4
FloatLimit(T) == IF T = "float32" THEN 2^8 ELSE 2^9
Round(h, T) ==
    LET p == Significant(T)
        e == CHOOSE k \in 0..10 :
                /\ Abs(h) < 2^(p + k)
                /\ \A j \in 0..(k - 1) : Abs(h) >= 2^(p + j)
        unit == 2^e
        low == (Abs(h) \div unit) * unit
        rest == Abs(h) - low
        up == 2 * rest > unit \/ (2 * rest = unit /\ (low \div unit) % 2 = 1)
        near == IF up THEN low + unit ELSE low
    IN  IF h < 0 THEN -near ELSE near

\* float64(v) and float32(f).
Float(T, v) ==
    IF v.s # "finite" THEN Value(T, v.s, v.h)
    ELSE LET r == Round(v.h, T)
         IN  CASE Abs(r) < FloatLimit(T) -> Value(T, "finite", r)
               [] r >= FloatLimit(T) -> Value(T, "inf", 0)
               [] r <= - FloatLimit(T) -> Value(T, "-inf", 0)

\* A conversion between integer types keeps the low bits.
Wrap(T, n) ==
    LET m == n % 2^Bits(T)
    IN  IF m > Largest(T) THEN m - 2^Bits(T) ELSE m

\* What the conversion of a float that does not fit can give: the smallest
\* integer (amd64), or the nearest one and 0 for NaN (arm64).
Unfit(T) == {Num(T, Smallest(T)), Num(T, Largest(T)), Num(T, 0)}
Whole(T, v) ==
    IF v.s = "finite" /\ Truncate(v.h) \in Smallest(T)..Largest(T)
    THEN {Num(T, Truncate(v.h))}
    ELSE Unfit(T)

\* strconv.ParseInt and ParseUint with a bit size, ParseFloat, ParseBool.
ParseInt(T, v) ==
    IF /\ v.s = "finite" /\ v.h % 2 = 0
       /\ v.h \div 2 \in Smallest(T)..Largest(T)
    THEN Num(T, v.h \div 2)
    ELSE Fail
ParseFloat(v) ==
    IF v.s \in {"finite", "nan", "inf", "-inf"} /\ (v.s = "finite" => Float("float64", v).s = "finite")
    THEN Float("float64", v)
    ELSE Fail
ParseBool(v) ==
    CASE v.s \in {"true", "false"} -> Bool(v.s = "true")
      [] v.s = "finite" /\ v.h \in {0, 2} -> Bool(v.h = 2)
      [] OTHER -> Fail

-----------------------------------------------------------------------------
(* Floats to integers, checked                                             *)

floatToInt64E(v) ==
    IF v.s # "finite" \/ v.h >= 2 * 2^5 \/ v.h < - 2 * 2^5
    THEN {Fail}
    ELSE Whole("int64", v)

\* The second check matters where int is narrower than int64.
floatToIntE(v) ==
    {IF r = Fail \/ Truncate(r.h) > Largest("int") \/ Truncate(r.h) < Smallest("int")
     THEN Fail
     ELSE Num("int", Truncate(r.h)) : r \in floatToInt64E(v)}

floatToUint64E(v) ==
    IF v.s # "finite" \/ v.h < 0 \/ v.h >= 2 * 2^6
    THEN {Fail}
    ELSE Whole("uint64", v)

-----------------------------------------------------------------------------
(* Integers                                                                *)

\* The same switch for ToIntE and ToInt64E, except what is checked: an int64
\* and a json.Number that fits int64 are converted to int as they are.
ToSigned(T, v) ==
    CASE v.t = "nil" -> {Num(T, 0)}
      [] v.t \in Signed -> {Num(T, Wrap(T, Truncate(v.h)))}
      [] v.t \in {"uint", "uint64"} ->
            {IF Truncate(v.h) > Largest(T) THEN Fail ELSE Num(T, Truncate(v.h))}
      [] v.t \in Unsigned \ {"uint", "uint64"} -> {Num(T, Wrap(T, Truncate(v.h)))}
      [] v.t \in Floats -> IF T = "int" THEN floatToIntE(v) ELSE floatToInt64E(v)
      [] v.t = "bool" -> {Num(T, Truncate(v.h))}
      [] v.t = "string" -> {ParseInt(T, v)}
      [] v.t = "number" ->
            LET r == ParseInt("int64", v)
            IN  {IF r = Fail THEN Fail ELSE Num(T, Wrap(T, Truncate(r.h)))}
      [] v.t \in {"duration", "time"} -> {Fail}

ToIntE(v) == ToSigned("int", v)
ToInt64E(v) == ToSigned("int64", v)

ToUint64E(v) ==
    CASE v.t = "nil" -> {Num("uint64", 0)}
      [] v.t \in Signed -> {IF v.h < 0 THEN Fail ELSE Num("uint64", Truncate(v.h))}
      [] v.t \in Unsigned \cup {"bool"} -> {Num("uint64", Truncate(v.h))}
      [] v.t \in Floats -> floatToUint64E(v)
      [] v.t \in Texts -> {ParseInt("uint64", v)}
      [] v.t \in {"duration", "time"} -> {Fail}

ToUintE(v) ==
    {IF r = Fail \/ Truncate(r.h) > Largest("uint") THEN Fail
     ELSE Num("uint", Truncate(r.h)) : r \in ToUint64E(v)}

\* As FitsBitSize, with the bound of the signed types one too large.
FitsBitSizeOffByOne(T, n) ==
    n \in Smallest(T)..(IF T \in Signed THEN Largest(T) + 1 ELSE Largest(T))

\* checkIntBitSize and checkUintBitSize.
FitsBitSize(T, n) == n \in Smallest(T)..Largest(T)

\* narrowInt64E and narrowUint64E, with the narrowing that follows them.
Narrow(T, wide) ==
    {IF r = Fail \/ ~FitsBitSize(T, Truncate(r.h)) THEN Fail
     ELSE Num(T, Wrap(T, Truncate(r.h))) : r \in wide}

-----------------------------------------------------------------------------
(* Floats, booleans, texts, times                                          *)

ToFloat64E(v) ==
    CASE v.t = "nil" -> Float("float64", Bool(FALSE))
      [] v.t \in Signed \cup Unsigned \cup Floats \cup {"bool"} -> Float("float64", v)
      [] v.t \in Texts -> ParseFloat(v)
      [] v.t \in {"duration", "time"} -> Fail

ToFloat32E(v) ==
    LET f == ToFloat64E(v)
        f32 == Float("float32", f)
    IN  IF f = Fail \/ (f32.s # "finite" /\ f.s = "finite") THEN Fail ELSE f32

ToBoolE(v) ==
    CASE v.t = "nil" -> Bool(FALSE)
      [] v.t = "bool" -> v
      [] v.t \in Signed \cup Unsigned \cup Floats -> Bool(v.s # "finite" \/ v.h # 0)
      [] v.t = "string" -> ParseBool(v)
      [] v.t = "number" ->
            LET r == ParseInt("int64", v) IN IF r = Fail THEN Fail ELSE Bool(r.h # 0)
      [] v.t \in {"duration", "time"} -> Fail

\* A float is written with as many digits as bring it back.
ToStringE(v) ==
    CASE v.t = "nil" -> Value("string", "word", 0)
      [] v.t = "bool" -> Value("string", IF v.h = 2 THEN "true" ELSE "false", 0)
      [] v.t = "duration" -> Value("string", "unit", v.h)     \* fmt.Stringer
      [] v.t = "time" -> Value("string", "word", 0)           \* fmt.Stringer: not RFC 3339
      [] OTHER -> Value("string", v.s, v.h)

\* Durations are nanoseconds, times seconds: both are an int64, which nothing
\* checks the wider sources against.
AsInt64(T, v) ==
    CASE v.t \in Signed \cup Unsigned -> {Num(T, Wrap(T, Truncate(v.h)))}
      [] v.t \in Floats -> Whole(T, v)
      [] v.t = "number" -> {ParseInt(T, v)}
      [] v.t \in {"bool", "duration", "time"} -> {Fail}

ToDurationE(v) ==
    CASE v.t = "nil" -> {Num("duration", 0)}
      [] v.t = "duration" -> {v}
      [] v.t = "string" ->
            {IF \/ v.s = "unit" /\ Truncate(v.h) \in Smallest("duration")..Largest("duration")
                \/ v.s = "finite" /\ v.h = 0
             THEN Value("duration", "finite", v.h) ELSE Fail}
      [] OTHER -> AsInt64("duration", v)

ToTimeE(v) ==
    CASE v.t = "nil" -> {ZeroTime}
      [] v.t = "time" -> {v}
      [] v.t = "string" ->
            {IF v.s = "rfc3339" THEN Value("time", "finite", v.h) ELSE ParseInt("time", v)}
      [] OTHER -> AsInt64("time", v)

\* ToE[T]: the possible results, of which there is one except where the code
\* converts a float that does not fit.
ToE(T, v) ==
    CASE T = "int" -> ToIntE(v)
      [] T = "int64" -> ToInt64E(v)
      [] T \in {"int8", "int16", "int32"} -> Narrow(T, ToInt64E(v))
      [] T = "uint" -> ToUintE(v)
      [] T = "uint64" -> ToUint64E(v)
      [] T \in {"uint8", "uint16", "uint32"} -> Narrow(T, ToUint64E(v))
      [] T = "float32" -> {ToFloat32E(v)}
      [] T = "float64" -> {ToFloat64E(v)}
      [] T = "string" -> {ToStringE(v)}
      [] T = "bool" -> {ToBoolE(v)}
      [] T = "duration" -> ToDurationE(v)
      [] T = "time" -> ToTimeE(v)

-----------------------------------------------------------------------------
Integral(T) == {Num(T, n) : n \in Smallest(T)..Largest(T)}
Halves == {h \in -140..140 : Abs(h) <= 4 \/ h % 8 \in {0, 7}} \cup {300, -300, 600}
Sources ==
    UNION {Integral(T) : T \in Signed \cup Unsigned}
    \cup {Float(T, Value("float64", "finite", h)) : T \in Floats, h \in Halves}
    \cup {Value(T, s, 0) : T \in Floats, s \in {"nan", "inf", "-inf"}}
    \cup {Value(t, "finite", h) : t \in Texts, h \in Halves}
    \cup {Value("string", s, 2 * n) : s \in {"unit", "rfc3339"}, n \in {-3, 0, 31, 40}}
    \cup {Value("string", "word", 0), Value("string", "nan", 0), Nil, Bool(TRUE), Bool(FALSE)}

CInit ==
    /\ val \in Sources
    /\ step = [to |-> "none", ok |-> TRUE]

\* A failed conversion leaves the caller with the value it had.
Convert(T) ==
    \E r \in ToE(T, val) :
        /\ val' = IF r = Fail THEN val ELSE r
        /\ step' = [to |-> T, ok |-> r # Fail]

CNext == \E T \in Targets : Convert(T)

CSpec == CInit /\ [][CNext]_cvars

-----------------------------------------------------------------------------
(* What a conversion is worth                                              *)

\* Numbers that mean themselves; a text is one when it reads as one.
Numeric(v) == v.s = "finite" /\ v.t \notin {"duration", "time"}

\* The integers of type T that v may become: its whole part, unless that lies
\* outside T, or v is a text with a fraction, or a negative number for an
\* unsigned type.
Meaning(T, v) ==
    IF /\ Numeric(v)
       /\ v.t \in Texts => v.h % 2 = 0
       /\ T \in Unsigned => v.h >= 0
       /\ Truncate(v.h) \in Smallest(T)..Largest(T)
    THEN {Num(T, Truncate(v.h))}
    ELSE IF v.t = "nil" THEN {Num(T, 0)} ELSE {}

\* v becomes r, or an error when r is Fail, exactly when it should.
ExactInteger(T, v, r) == IF Meaning(T, v) = {} THEN r = Fail ELSE r \in Meaning(T, v)

\* A float is the nearest one and finite when v is, a text reads as the number
\* it was written from.
ExactOther(T, v, r) ==
    CASE T \in Floats ->
            /\ Numeric(v) /\ r # Fail => r = Value(T, "finite", Round(Round(v.h, "float64"), T))
            /\ Numeric(v) /\ Abs(v.h) < FloatLimit("float32") \div 2 => r # Fail
      [] T = "string" -> Numeric(v) /\ v.t # "bool" => r = Value("string", "finite", v.h)
      [] T = "bool" -> Numeric(v) /\ r # Fail => r = Bool(v.h # 0)

Result == IF step'.ok THEN val' ELSE Fail

(* No conversion to a number, a text or a boolean wraps around, loses an    *)
(* integer or fails without need, in whatever order values are converted   *)
(* and whatever types they pass through (cast.go, number.go, generic.go;   *)
(* cast.go:42 "must be checked explicitly, otherwise callers get a         *)
(* plausible-looking garbage value with a nil error").                     *)
ConvertedExactly ==
    [][/\ step'.to \in Signed \cup Unsigned => ExactInteger(step'.to, val, Result)
       /\ step'.to \in Floats \cup {"string", "bool"} => ExactOther(step'.to, val, Result)]_cvars

(* A number that becomes a duration or a time counts its nanoseconds or its *)
(* seconds (time.go:21 "Numeric types are treated as nanoseconds"), or is   *)
(* refused.                                                                 *)
TimesExact ==
    [][/\ step'.to \in {"duration", "time"}
       /\ val.t \in Signed \cup Unsigned \cup Floats
       /\ step'.ok
       => val.s = "finite" /\ val'.h = 2 * Truncate(val.h)]_cvars
=============================================================================
