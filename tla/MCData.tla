------------------------------- MODULE MCData -------------------------------
(***************************************************************************)
(* Data in its representations, for TLC, one after the other:              *)
(* configuration, and the conversions of package cast.  which is the one   *)
(* that runs, the variables of the other keep their initial values.        *)
(*                                                                         *)
(* First the programs, calls and the reference for Conf.  A program has a  *)
(* struct Sub with two fields: A, an optional text with the key a, and B,  *)
(* a field of every kind with every combination of options.  Root is Sub   *)
(* itself, or contains it as a struct, as a pointer to one, or embedded.   *)
(***************************************************************************)
EXTENDS Conf

Field(name, kind, ptr, of, tags) ==
    [name |-> name, kind |-> kind, ptr |-> ptr, of |-> of, tags |-> tags]
Tag(key, opts) == [key |-> key, opts |-> opts]
Json(key, opts) == [x \in {"json"} |-> Tag(key, opts)]
NoTags == [x \in {} |-> Tag(<<>>, <<>>)]

OptionalIf(dep, negate) == Opt("optional", [dep |-> dep, negate |-> negate])

\* The texts of a kind: 2 and 7, or 2ns and 7ns.
Written(kind, n) == IF kind = "duration" THEN Unit(n) ELSE n

Defaults(kind) == {<<>>} \cup {<<Opt("default", Written(kind, n))>> : n \in {2, 7}}
Envs == {<<>>, <<Flag("env")>>}
Optionals ==
    {<<>>, <<Flag("optional")>>, <<OptionalIf(<<"a">>, FALSE)>>, <<OptionalIf(<<"a">>, TRUE)>>}
Limits ==
    {<<>>, <<Opt("options", {2, 3, Unit(2)})>>, <<Opt("range", Bounds(1, TRUE, 5, FALSE))>>,
     <<Opt("range", Bounds(2, FALSE, 7, TRUE)), Opt("options", {2, 7})>>}
Kinds == {"int", "string", "duration", "slice", "bool"}

Options(kind, limits) ==
    {d \o e \o o \o l : d \in Defaults(kind), e \in Envs, o \in Optionals, l \in limits}

A == Field("A", "string", FALSE, "", Json(<<"a">>, <<Flag("optional")>>))
B(kind, ptr, key, opts) == Field("B", kind, ptr, "", Json(key, opts))

Plain(sub) == [Root |-> sub, Sub |-> <<>>]
Within(sub, kind, ptr, tags) == [Root |-> <<Field("S", kind, ptr, "Sub", tags)>>, Sub |-> sub]
Containers(sub) ==
    {Within(sub, "struct", FALSE, NoTags), Within(sub, "struct", FALSE, Json(<<"s">>, <<Flag("optional")>>)),
     Within(sub, "struct", TRUE, Json(<<>>, <<Flag("optional")>>)),
     Within(sub, "embedded", FALSE, NoTags), Within(sub, "embedded", TRUE, Json(<<>>, <<Flag("optional")>>))}

\* Options that do not parse, a dependency that is no key, a field that is left
\* out, one that is parsed from its text and one without a key of its own.
Odd ==
    {Plain(<<A, f>>) :
        f \in {B("int", FALSE, <<"b">>, <<Flag("unknown")>>), B("int", FALSE, <<"b">>, <<OptionalIf(<<"x">>, FALSE)>>),
               B("int", FALSE, <<"-">>, <<>>), B("int", TRUE, <<"b">>, <<Opt("default", 2)>>),
               B("int", TRUE, <<"b">>, <<Flag("optional")>>),
               B("int", FALSE, <<>>, <<Flag("string"), Opt("range", Bounds(1, TRUE, 5, FALSE))>>)}}

LeafPrograms ==
    Odd \cup UNION {{Plain(<<A, B(k, FALSE, <<"b">>, o)>>) : o \in Options(k, Limits)} : k \in Kinds}
        \cup UNION {Containers(<<A, B(k, FALSE, <<"b">>, o)>>) : k \in {"int", "slice"}, o \in Options("int", {<<>>})}

\* Programs that call again: fields with the same tag and no key of their own, in
\* one struct or in two, and a struct that is required under one tag name and not
\* under another.
SameTags ==
    LET same(n) == Field(n, "int", FALSE, "", Json(<<>>, <<Opt("default", 2)>>))
    IN  {[Root |-> <<same("A")>>, Sub |-> <<same("B")>>],
         Within(<<same("A"), same("B")>>, "struct", FALSE, NoTags),
         Within(<<same("B"), same("A")>>, "embedded", FALSE, NoTags)}
TwoTags ==
    {Within(<<Field("A", "int", FALSE, "",
                [x \in {"json", "yaml"} |-> Tag(<<"a">>, IF x = "json" THEN <<Flag("optional")>> ELSE <<>>)])>>,
            "struct", FALSE, NoTags)}
MCPrograms == LeafPrograms \cup SameTags

\* A misspelled dependency in an embedded struct.
Misspelled == {Within(<<A, B("int", FALSE, <<"b">>, <<OptionalIf(<<"x">>, FALSE)>>)>>, "embedded", FALSE, NoTags)}
\* Durations with options.
Durations == {Plain(<<A, B("duration", FALSE, <<"b">>, o)>>) : o \in Options("duration", Limits)}

MCMax(tps) == IF tps \in SameTags \cup TwoTags THEN 3 ELSE 1

-----------------------------------------------------------------------------
(* Calls                                                                   *)

SubOf(tps) == IF tps.Sub = <<>> THEN tps.Root ELSE tps.Sub
OptionsOf(f) == DoParse(f.tags["json"]).opts

Base == [op |-> "load", into |-> "Root", tag |-> "json", canonical |-> TRUE, fromString |-> FALSE, env |-> Empty,
         order |-> <<"a", "b", "#b", "$K", "B", "B2", "s", "S">>, m |-> EmptyMap, over |-> NilStruct,
         useEnv |-> FALSE, valid |-> TRUE]

As == {EmptyMap, [x \in {"a"} |-> Text(Word)]}
Values == {Native(2), Native(7), Text(2), Text(7), Text(Word), Text(Unit(2)), Text(Unit(7)), Nil,
           List(<<Native(2), Nil, Text(3)>>), List(<<Text(Word)>>), Map(EmptyMap)}
Bs == {EmptyMap} \cup {[x \in {"b"} |-> v] : v \in Values}
        \cup {[x \in {"B"} |-> Text(2)], [x \in {"B", "B2"} |-> IF x = "B" THEN Text(2) ELSE Text(3)],
              [x \in {"b", "B"} |-> IF x = "b" THEN Native(2) ELSE Native(3)]}
Inputs == {b @@ a : a \in As, b \in Bs}
Refs == {[x \in {"b"} |-> v] : v \in {Text(Ref), Text(RefOr2), Text(Escape), List(<<Text(RefOr2)>>)}}
            \cup {[x \in {"$K"} |-> Native(2)], [x \in {"$K", "b"} |-> Native(2)]}

EnvOf(tps) == IF OptionsOf(SubOf(tps)[2]).env THEN {Empty, 2, 7, Word, Unit(2)} ELSE {Empty}

\* The input where Root keeps it: in a map of its own, or not at all.
Placed(tps, m) ==
    IF tps.Sub # <<>> /\ tps.Root[1].kind = "struct"
    THEN {[x \in {"s"} |-> Map(m)], EmptyMap} ELSE {m}

\* Nested maps of a YAML document with keys that are not texts, and with two keys
\* that have the same text.
Untexted(tps) ==
    IF tps.Sub # <<>> /\ tps.Root[1].kind = "struct"
    THEN {[x \in {"s"} |-> Map(m)] :
            m \in {[x \in {"#b"} |-> Native(2)], [x \in {"b", "#b"} |-> IF x = "b" THEN Text(7) ELSE Native(2)]}}
    ELSE {}

Overs(tps) ==
    LET f == SubOf(tps)[2]
        zero == IF f.ptr THEN NilPtr ELSE IF f.kind = "slice" THEN <<>> ELSE 0
        set == IF f.kind = "slice" THEN <<3>> ELSE 3
        subs == {[A |-> a, B |-> b] : a \in {Empty, Word}, b \in {zero, set} \cup (IF f.ptr THEN {0} ELSE {})}
        whole == IF tps.Sub = <<>> THEN subs
                 ELSE {[S |-> s] : s \in subs \cup (IF tps.Root[1].ptr THEN {NilStruct} ELSE {})}
    IN  whole \cup {NilStruct}

RepeatedCalls(op, tps) ==
    LET at(m) == IF tps.Root[1].kind = "struct" THEN [x \in {"s"} |-> Map(m)] ELSE m
        calls ==
            CASE op = "load" ->
                    {[Base EXCEPT !.m = at(m)] :
                        m \in {EmptyMap, [x \in {"a"} |-> Native(3)], [x \in {"B"} |-> Native(3)]}}
              [] op = "unmarshal" ->
                    {[Base EXCEPT !.op = op, !.tag = t] : t \in IF tps \in TwoTags THEN {"json", "yaml"} ELSE {"json"}}
              [] OTHER -> {[Base EXCEPT !.op = op]}
    IN  {[c EXCEPT !.into = tp] : c \in calls, tp \in {"Root", "Sub"}}

AllCalls(op, tps) ==
    IF MCMax(tps) > 1 THEN RepeatedCalls(op, tps) ELSE
    CASE op = "load" ->
            {[Base EXCEPT !.m = p, !.env = e] :
                e \in EnvOf(tps), p \in Untexted(tps) \cup UNION {Placed(tps, m) : m \in Inputs}}
            \cup {[Base EXCEPT !.m = p, !.env = e, !.useEnv = TRUE, !.valid = b] :
                    e \in {Empty, 2, Unit(7)}, p \in UNION {Placed(tps, m) : m \in Refs}, b \in BOOLEAN}
      [] op = "unmarshal" ->
            {[Base EXCEPT !.op = op, !.m = p, !.canonical = FALSE, !.fromString = b] :
                p \in UNION {Placed(tps, m) : m \in Inputs}, b \in BOOLEAN}
      [] op = "fill" -> {[Base EXCEPT !.op = op, !.env = e] : e \in EnvOf(tps)}
      [] op = "override" ->
            {[Base EXCEPT !.op = op, !.env = e, !.over = o] : e \in EnvOf(tps), o \in Overs(tps)}

\* A list in the file for a field with a range; two keys with the same text.
RangedList(tps, call) ==
    LET f == SubOf(tps)[2]
    IN  /\ MCMax(tps) = 1 /\ f.kind = "slice" /\ OptionsOf(f).range # NoRange
        /\ \E k \in KeysOf(call.m) : call.m[k].t = "list"
SameText(call) ==
    \E k \in KeysOf(call.m) : call.m[k].t = "map" /\ {"b", "#b"} \subseteq KeysOf(call.m[k].m)

\* The calls for which the code does what its comments say.
MCCalls(op, tps) == {call \in AllCalls(op, tps) : ~RangedList(tps, call) /\ ~SameText(call)}

-----------------------------------------------------------------------------
(* The reference: what the tags promise, told once for all sources and all  *)
(* representations of a value.                                              *)

\* What a value means to a field.
Means(f, v) ==
    CASE f.kind = "int" -> ToFloat(v)
      [] f.kind = "bool" -> ToFloat(v) \cap {1}
      [] f.kind = "string" -> {TextOf(v)}
      [] f.kind = "duration" -> ToDuration(v)
      [] f.kind = "slice" ->
            IF v.t = "list" /\ \A i \in DOMAIN v.e : v.e[i] = Nil \/ ToFloat(v.e[i]) # {}
            THEN {[i \in DOMAIN v.e |-> IF v.e[i] = Nil THEN 0 ELSE v.e[i].n]} ELSE {}

\* The number a range speaks of.
Measure(f, v) == IF f.kind = "duration" THEN ToDuration(v) ELSE ToFloat(v)

\* A value is in its range, a list with every element.
Legal(f, o, v) ==
    CASE o.range = NoRange -> Means(f, v)
      [] o.range # NoRange /\ f.kind = "slice" ->
            {s \in Means(f, v) : \A i \in DOMAIN s : IsInRange(o, s[i])}
      [] OTHER -> IF \E n \in Measure(f, v) : IsInRange(o, n) THEN Means(f, v) ELSE {}

\* The options bind what the environment and the file say; not a default, not
\* the elements of a list, and, in the file, not a duration.
Listed(o, v) == o.options = {} \/ TextOf(v) \in o.options

ZeroB(f) == IF f.ptr THEN NilPtr ELSE IF f.kind = "slice" THEN <<>> ELSE 0

FromDefault(f, o) ==
    Legal(f, o, IF f.kind = "slice" THEN List(<<Text(o.default)>>) ELSE Text(o.default))
FromEnv(f, o, env) == IF Listed(o, Text(env)) THEN Legal(f, o, Text(env)) ELSE {}
FromFile(f, o, v) ==
    IF v = Nil THEN IF o.optional THEN {ZeroB(f)} ELSE {}
    ELSE IF f.kind \in {"duration", "slice"} \/ Listed(o, v) THEN Legal(f, o, v) ELSE {}

\* The keys of m that spell the key of f: itself, else its canonical form, else
\* all the others.
Spellings(f, m, canonical) ==
    LET k == IF f.tags["json"].key = <<>> THEN f.name ELSE f.tags["json"].key[1]
    IN  IF k \in KeysOf(m) THEN {k}
        ELSE IF canonical /\ Lower(k) \in KeysOf(m) THEN {Lower(k)}
        ELSE {x \in KeysOf(m) : canonical /\ Lower(x) = Lower(k)}

MayBeAbsent(o, m) == o.optional /\ (o.dep = NoDep \/ ("a" \in KeysOf(m)) # o.negate)

WantB(f, m, call) ==
    LET o == OptionsOf(f)
        keys == Spellings(f, m, call.canonical)
    IN  IF f.tags["json"].key = <<"-">> THEN {ZeroB(f)}
        ELSE IF o.env /\ call.env # Empty THEN FromEnv(f, o, call.env)
        ELSE IF Cardinality(keys) > 1 THEN {}
        ELSE IF keys # {} THEN FromFile(f, o, m[CHOOSE k \in keys : TRUE])
        ELSE IF HasDefault(o) THEN FromDefault(f, o)
        ELSE IF MayBeAbsent(o, m) \/ (f.kind = "slice" /\ o.dep = NoDep) THEN {ZeroB(f)}
        ELSE {}

WellFormed(f) == ~DoParse(f.tags["json"]).err
GoodDeps(f) == OptionsOf(f).dep \in {NoDep, <<"a">>}
WantSub(f, m, call) ==
    IF ~WellFormed(f) THEN {}
    ELSE {[A |-> IF "a" \in KeysOf(m) THEN Word ELSE Empty, B |-> b] : b \in WantB(f, m, call)}

\* Root: Sub, or the field S with Sub.  A struct that is not in the file is as
\* if empty, unless a list in it has neither default nor variable and is not
\* optional.
WantRoot(tps, m, call) ==
    LET f == SubOf(tps)[2]
        o == OptionsOf(f)
        g == tps.Root[1]
        optional == DOMAIN g.tags # {}
        zero == [A |-> Empty, B |-> ZeroB(f)]
    IN  IF tps.Sub = <<>> THEN IF GoodDeps(f) THEN WantSub(f, m, call) ELSE {}
        ELSE {[S |-> x] : x \in
                IF g.kind = "embedded"
                THEN IF optional /\ "a" \notin KeysOf(m) /\ Cardinality(Spellings(f, m, call.canonical)) # 1
                     THEN {zero} ELSE WantSub(f, m, call)
                ELSE IF "s" \in KeysOf(m) /\ (call.canonical \/ (optional /\ g.tags["json"].key # <<>>))
                THEN WantSub(f, m["s"].m, call)
                ELSE IF optional THEN {IF g.ptr THEN NilStruct ELSE zero}
                ELSE IF ~o.optional /\ ~HasDefault(o) /\ ~o.env THEN {}
                ELSE WantSub(f, EmptyMap, call)}

WantFilledSub(f, env) ==
    LET o == OptionsOf(f)
    IN  IF ~WellFormed(f) THEN {}
        ELSE {[A |-> Empty, B |-> b] : b \in
                IF f.tags["json"].key = <<"-">> THEN {ZeroB(f)}
                ELSE IF o.env /\ env # Empty THEN FromEnv(f, o, env)
                ELSE IF HasDefault(o) THEN FromDefault(f, o)
                ELSE {ZeroB(f)}}

\* The user's values over the defaults: those that are set, and a text that is
\* optional and has no default in any case.
OverSub(f, s, over) ==
    LET o == OptionsOf(f)
    IN  [A |-> over.A,
         B |-> IF over.B # ZeroB(f) \/ (f.kind = "string" /\ o.optional /\ ~HasDefault(o))
               THEN over.B ELSE s.B]

WantFilled(tps, call) ==
    LET f == SubOf(tps)[2]
        g == tps.Root[1]
        filled == WantFilledSub(f, call.env)
        over == call.over
    IN  IF tps.Sub = <<>> THEN {IF over = NilStruct THEN s ELSE OverSub(f, s, over) : s \in filled}
        ELSE IF g.kind = "struct" /\ g.ptr
        THEN {IF over = NilStruct THEN [S |-> NilStruct] ELSE over}
        ELSE {[S |-> IF over = NilStruct \/ over = [S |-> NilStruct] THEN s ELSE OverSub(f, s, over.S)] :
                s \in filled}

Want(tps, call) ==
    CASE call.op \in {"fill", "override"} -> WantFilled(tps, call)
      [] call.op = "unmarshal" -> WantRoot(tps, call.m, call)
      [] call.op = "load" ->
            LET m == IF call.useEnv THEN ExpandEnvMap(call.env, NormalizeMap(call.order, call.m))
                     ELSE {NormalizeMap(call.order, call.m)}
            IN  IF call.valid THEN UNION {WantRoot(tps, x, call) : x \in m} ELSE {}

(* Every call writes what the tags promise or fails: the environment before *)
(* the file before the default, the same verdict whatever way a value is    *)
(* written, no value outside its range from any source (utils.go:343 "Every *)
(* path that writes a field must call this function"), keys in any case,    *)
(* never one of two, and the user's struct over the defaults.  A list in    *)
(* the file breaks it, see RangedList: setSliceValue (unmarshaler.go:637)   *)
(* never checks the range that a default of the same field must meet.       *)
FieldsExact == last.call.op # "none" /\ MCMax(types) = 1 => last.out = Want(types, last.call)

(* What the file says of a field with options is one of them                 *)
(* (unmarshaler.go:859 "As on the config value path, environment variables   *)
(* must satisfy the options and range constraints too").                     *)
OptionsBind ==
    LET f == SubOf(types)[2]
        o == OptionsOf(f)
    IN  /\ last.call.op = "load" /\ last.out # Failed
        /\ ~(o.env /\ last.call.env # Empty)
        /\ "b" \in KeysOf(last.call.m) /\ last.call.m["b"].t \in {"int", "text"}
        /\ ~last.call.useEnv
        => Listed(o, last.call.m["b"])

(* A dependency that names no key is refused (unmarshaler.go:383 "a          *)
(* misspelled dependency name makes the field **permanently required**").    *)
MisspelledRefused ==
    last.call.op \in {"load", "unmarshal"} /\ ~GoodDeps(SubOf(types)[2]) => last.out = Failed

-----------------------------------------------------------------------------
(* The runs, one after the other.                                          *)

CONSTANT IntBits

VARIABLES which,
          val, step

Casting == INSTANCE Cast

cVars == <<val, step>>

Unused == [Root |-> <<>>, Sub |-> <<>>]

MCInit ==
    /\ which \in {"config", "cast"}
    /\ IF which = "config" THEN FInit
       ELSE /\ types = Unused /\ left = 0 /\ last = NoCall
            /\ optionsCache = NoCache /\ structRequiredCache = NoCache
    /\ IF which = "cast" THEN Casting!CInit ELSE val = Casting!Nil /\ step = [to |-> "none", ok |-> TRUE]

MCNext ==
    \/ which = "config" /\ FNext /\ UNCHANGED <<which, cVars>>
    \/ which = "cast" /\ Casting!CNext /\ UNCHANGED <<which, fvars>>

MCSpec == MCInit /\ [][MCNext]_<<which, fvars, cVars>>

\* No conversion to a number, a text or a boolean wraps around, loses an integer
\* or fails without need, through whatever types a value has come.
ConvertedExactly == Casting!ConvertedExactly
=============================================================================
