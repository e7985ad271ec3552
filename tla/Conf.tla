-------------------------------- MODULE Conf --------------------------------
(***************************************************************************)
(* Packages mapping and conf.  Package mapping writes a configuration map  *)
(* into a struct by the tags of its fields (src/mapping): a field gets its *)
(* value from an environment variable, the map or its default, in this     *)
(* order; each way has its own code, and so has each representation of a   *)
(* value.  On top of it package conf parses a configuration file,          *)
(* normalises it, expands its references to environment variables,         *)
(* unmarshals and validates it (src/conf).  The two packages' entry points *)
(* are called one after the other by a program whose struct types are      *)
(* fixed; what the calls share are the two caches of package mapping.      *)
(*                                                                         *)
(* A struct type is a sequence of fields; a tag is a key and a sequence of *)
(* options.  The texts, keys and numbers are small: a text is a number, as *)
(* below.  An operator that can fail returns the set of its result, which  *)
(* is empty when it fails.  What a failed call has written so far is left  *)
(* out.                                                                    *)
(***************************************************************************)
EXTENDS Integers, Sequences, SequencesExt, FiniteSets, TLC

CONSTANTS
    Programs,       \* the struct types of a program, Root and those it uses
    Calls(_, _),    \* the calls of an entry point it may make: the entry point, the program
    MaxCalls(_)     \* how many calls it makes

VARIABLES
    types,                  \* the program
    optionsCache,           \* tag -> key, options, error
    structRequiredCache,    \* struct type -> whether it has required fields
    left,                   \* calls left
    last                    \* the last call and what it wrote

fvars == <<types, optionsCache, structRequiredCache, left, last>>

-----------------------------------------------------------------------------
(* Texts, values and keys                                                  *)

Empty == 0                      \* ""
Word == -1                      \* a text that is neither number nor duration
Digits == 1..9                  \* "1" to "9"
Unit(d) == 100 + d              \* "2ns": a duration

\* What a map holds: nil, a json.Number, an int, a text, a list or a map.
Nil == [t |-> "nil"]
Number(n) == [t |-> "number", n |-> n]
Native(n) == [t |-> "int", n |-> n]
Text(x) == [t |-> "text", n |-> x]
List(s) == [t |-> "list", e |-> s]
Map(m) == [t |-> "map", m |-> m]
EmptyMap == [k \in {} |-> Nil]

\* strings.ToLower on the keys there are; B2 is a second way to spell b.
Lower(k) == CASE k = "A" -> "a" [] k \in {"B", "B2"} -> "b" [] k = "S" -> "s" [] OTHER -> k

\* strconv, cast.ToBoolE and the plain text, by the kind of the field.
convertTypeFromString(kind, x) ==
    CASE kind = "int" -> {x} \cap Digits
      [] kind = "bool" -> {x} \cap {1}
      [] kind = "string" -> {x}
      [] OTHER -> {}

\* cast.ToStringE, cast.ToFloat64E and cast.ToDurationE of such values.
TextOf(v) == IF v.t \in {"number", "int", "text"} THEN v.n ELSE Word
ToFloat(v) ==
    IF v.t \in {"number", "int"} \/ (v.t = "text" /\ v.n \in Digits) THEN {v.n} ELSE {}
ToDuration(v) ==
    CASE v.t \in {"number", "int"} -> {v.n}
      [] v.t = "text" /\ v.n > 100 -> {v.n - 100}
      [] OTHER -> {}

-----------------------------------------------------------------------------
(* Tags                                                                    *)

NoRange == <<>>
Bounds(lo, loIn, hi, hiIn) == <<lo, loIn, hi, hiIn>>
NoDep == <<>>

NoOptions == [nil |-> TRUE, default |-> Empty, env |-> FALSE, optional |-> FALSE, dep |-> NoDep,
              negate |-> FALSE, options |-> {}, range |-> NoRange, string |-> FALSE]
ZeroOptions == [NoOptions EXCEPT !.nil = FALSE]

\* One option of a tag: its name and its value, if any.
Opt(name, value) == [o |-> name, v |-> value]
Flag(name) == [o |-> name, v |-> <<>>]

ParseOption(opts, s) ==
    CASE s.o = "optional" ->
            {[opts EXCEPT !.optional = TRUE,
                          !.dep = IF s.v = <<>> THEN @ ELSE s.v.dep,
                          !.negate = @ \/ (s.v # <<>> /\ s.v.negate)]}
      [] s.o = "string" -> {[opts EXCEPT !.string = TRUE]}
      [] s.o = "options" -> {[opts EXCEPT !.options = s.v]}
      [] s.o = "default" -> {[opts EXCEPT !.default = s.v]}
      [] s.o = "env" -> {[opts EXCEPT !.env = TRUE]}
      [] s.o = "range" -> {[opts EXCEPT !.range = s.v]}
      [] OTHER -> {}

\* The key, the options and whether the tag is in error.
DoParse(tag) ==
    LET parsed == FoldLeft(LAMBDA acc, s : UNION {ParseOption(o, s) : o \in acc},
                           {ZeroOptions}, tag.opts)
    IN  CASE tag.opts = <<>> -> [key |-> tag.key, opts |-> NoOptions, err |-> FALSE]
          [] parsed = {} -> [key |-> <<>>, opts |-> NoOptions, err |-> TRUE]
          [] OTHER -> [key |-> tag.key, opts |-> CHOOSE o \in parsed : TRUE, err |-> FALSE]

\* As CacheEntry, for an implementation that resolves the name before it caches.
CacheEntryResolved(f, tag) ==
    LET p == DoParse(tag) IN IF p.key = <<>> THEN [p EXCEPT !.key = <<f.name>>] ELSE p

\* What optionsCache remembers of a tag that was met on field f.
CacheEntry(f, tag) == DoParse(tag)

\* The cache after the tags of a struct were parsed, in the order of its fields.
Remember(cache, tagName, fields) ==
    FoldLeft(LAMBDA acc, f :
                IF tagName \in DOMAIN f.tags /\ f.tags[tagName] \notin DOMAIN acc
                THEN [t \in DOMAIN acc \cup {f.tags[tagName]} |->
                        IF t \in DOMAIN acc THEN acc[t] ELSE CacheEntry(f, t)]
                ELSE acc,
             cache, fields)

\* parseKeyAndOptions, once the cache holds the tag.
ParseKeyAndOptions(c, f) ==
    IF c.tag \notin DOMAIN f.tags
    THEN [key |-> <<f.name>>, opts |-> NoOptions, err |-> FALSE]
    ELSE LET p == c.cache[f.tags[c.tag]]
         IN  IF p.key = <<>> THEN [p EXCEPT !.key = <<f.name>>] ELSE p

Ignored(p) == p.key = <<"-">>
HasDefault(o) == o.default # Empty
UsingDifferentKeys(c, f) == DOMAIN f.tags # {} /\ c.tag \notin DOMAIN f.tags

IsInRange(o, n) ==
    \/ o.range = NoRange
    \/ /\ IF o.range[2] THEN n >= o.range[1] ELSE n > o.range[1]
       /\ IF o.range[4] THEN n <= o.range[3] ELSE n < o.range[3]

\* validateOptions: the text of the value is compared.
ValidOption(o, v) == o.options = {} \/ TextOf(v) \in o.options
\* validateValueRange and validateRangeForType.
ValidRange(o, v) == o.range = NoRange \/ \E n \in ToFloat(v) : IsInRange(o, n)
ValidRangeFor(f, o, v) ==
    IF f.kind = "duration"
    THEN o.range = NoRange \/ \E d \in ToDuration(v) : IsInRange(o, d)
    ELSE ValidRange(o, v)

-----------------------------------------------------------------------------
(* Looking a key up                                                        *)

KeysOf(m) == DOMAIN m
Inner(v) == IF v.t = "map" THEN {v.m} ELSE {}


\* The scan of lookupKeyCanonical: the keys in the order the map yields them,
\* and an error at the second key with the same canonical form.
Scan(c, m, k) ==
    LET want == Lower(k)
        hits == SelectSeq(c.order, LAMBDA x : x \in KeysOf(m) /\ Lower(x) = want)
    IN  [err |-> Len(hits) > 1, found |-> IF Len(hits) = 1 THEN {m[hits[1]]} ELSE {}]

\* lookupKey without, and lookupKeyCanonical with a canonical form: exactly, in
\* canonical form, and by a scan.
Segment(c, m, k) ==
    CASE k \in KeysOf(m) -> [err |-> FALSE, found |-> {m[k]}]
      [] ~c.canonical -> [err |-> FALSE, found |-> {}]
      [] k \notin KeysOf(m) /\ Lower(k) \in KeysOf(m) -> [err |-> FALSE, found |-> {m[Lower(k)]}]
      [] OTHER -> Scan(c, m, k)

\* A key of several segments is looked up in the maps of the first ones.
LookupKey(c, m, key) ==
    FoldLeft(LAMBDA acc, k :
                LET inner == UNION {Inner(v) : v \in acc.found}
                IN  IF acc.err \/ inner = {} THEN [err |-> acc.err, found |-> {}]
                    ELSE Segment(c, CHOOSE x \in inner : TRUE, k),
             [err |-> FALSE, found |-> {Map(m)}], key)

-----------------------------------------------------------------------------
(* Writing one value                                                       *)

\* Pointers: nil, or what they point at.
NilPtr == -99
NilStruct == [nil |-> TRUE]

Failed == {}

\* setStringValue of a text.
SetText(f, x) == convertTypeFromString(f.kind, x)

\* setBasicValue: parsed from a text, a json.Number, the field's own kind, or
\* converted, each with its own checks in its own order.
SetBasicValue(c, f, o, v) ==
    CASE c.fromString \/ o.string ->
            IF ValidOption(o, v) /\ ValidRange(o, Text(TextOf(v))) THEN SetText(f, TextOf(v)) ELSE Failed
      [] v.t = "number" /\ ~(c.fromString \/ o.string) ->
            IF (o.range = NoRange \/ IsInRange(o, v.n)) /\ ValidOption(o, v)
            THEN SetText(f, v.n) ELSE Failed
      [] ~(c.fromString \/ o.string) /\ (v.t = f.kind \/ (v.t = "text" /\ f.kind = "string")) ->
            IF ValidRange(o, v) /\ ValidOption(o, v) THEN {v.n} ELSE Failed
      [] OTHER ->
            IF ValidOption(o, v) /\ ValidRangeFor(f, o, Text(TextOf(v)))
            THEN SetText(f, TextOf(v)) ELSE Failed

\* setDurationValue.
SetDurationValue(v) == ToDuration(v)

\* setSliceValue and fillSliceValue for a list of integers: nil elements stay
\* zero, texts and numbers are parsed, the others assigned or converted.
SetSliceValue(v) ==
    IF v.t # "list" THEN Failed
    ELSE LET element(x) == IF x.t = "nil" THEN {0} ELSE convertTypeFromString("int", TextOf(x))
         IN  IF \E i \in DOMAIN v.e : element(v.e[i]) = {} THEN Failed
             ELSE {[i \in DOMAIN v.e |-> CHOOSE n \in element(v.e[i]) : TRUE]}

\* setEnvValue: options, range, then the text.
SetEnvValue(f, o, x) ==
    CASE ~ValidOption(o, Text(x)) \/ ~ValidRangeFor(f, o, Text(x)) -> Failed
      [] f.kind = "duration" -> ToDuration(Text(x))
      [] OTHER -> SetText(f, x)

\* setDefaultValue: the range, then the text; the default of a list is a list
\* of one here (fillSliceWithDefault).
SetDefaultValue(f, o) ==
    CASE ~ValidRangeFor(f, o, Text(o.default)) -> Failed
      [] f.kind = "duration" -> ToDuration(Text(o.default))
      [] f.kind = "slice" -> SetSliceValue(List(<<Text(o.default)>>))
      [] OTHER -> SetText(f, o.default)

-----------------------------------------------------------------------------
(* Structs.  A context c holds the unmarshaler (tag, canonical, fromString), *)
(* the order in which maps are walked, the environment variable of the      *)
(* fields that name one (env), the struct types (types), optionsCache       *)
(* (cache) and structRequiredCache (required).  A struct is written into by  *)
(* an outcome: the struct written (out), and the types whose being required  *)
(* was asked for and remembered (asked).                                     *)

Scalar(f) == f.kind \notin {"struct", "embedded"}
Fields(c, tp) == c.types[tp]
Names(c, tp) == {Fields(c, tp)[i].name : i \in DOMAIN Fields(c, tp)}

\* The zero value of a struct type; types do not contain themselves.
RECURSIVE ZeroOf(_, _)
ZeroOf(c, tp) ==
    LET zero(f) ==
            CASE Scalar(f) /\ f.ptr -> NilPtr
              [] f.kind = "slice" /\ ~f.ptr -> <<>>
              [] Scalar(f) /\ f.kind # "slice" /\ ~f.ptr -> 0
              [] ~Scalar(f) /\ f.ptr -> NilStruct
              [] ~Scalar(f) /\ ~f.ptr -> ZeroOf(c, f.of)
    IN  [n \in Names(c, tp) |->
            zero(SelectSeq(Fields(c, tp), LAMBDA f : f.name = n)[1])]

\* maybeNewValue and ensureValue: a nil pointer to a struct is allocated.
Allocated(c, f, v) == IF v = NilStruct THEN ZeroOf(c, f.of) ELSE v

Outcome(out) == [out |-> out, asked |-> {}]

\* The fields of a struct one after the other, until one fails.
EachField(c, tp, v, Step(_, _)) ==
    FoldLeft(LAMBDA acc, f :
                IF acc.out = Failed THEN acc
                ELSE LET s == CHOOSE x \in acc.out : TRUE
                         r == Step(f, s[f.name])
                     IN  [out |-> {[s EXCEPT ![f.name] = x] : x \in r.out},
                          asked |-> acc.asked \cup r.asked],
             Outcome({v}), Fields(c, tp))

\* buildDependencyKeys and validateOptionalDeps: a dependency names a key of the
\* struct, those of the embedded structs included.
RECURSIVE DependencyKeys(_, _)
DependencyKeys(c, tp) ==
    UNION {LET f == Fields(c, tp)[i]
               p == ParseKeyAndOptions(c, f)
           IN  CASE f.kind = "embedded" -> DependencyKeys(c, f.of)
                 [] f.kind # "embedded" /\ (p.err \/ Ignored(p)) -> {}
                 [] OTHER -> {p.key}
           : i \in DOMAIN Fields(c, tp)}
ValidOptionalDeps(c, tp) ==
    \A i \in DOMAIN Fields(c, tp) :
        LET p == ParseKeyAndOptions(c, Fields(c, tp)[i])
        IN  \/ Fields(c, tp)[i].kind = "embedded"
            \/ p.err \/ Ignored(p)
            \/ p.opts.dep \in {NoDep} \cup DependencyKeys(c, tp)

\* optionalDepMet.
OptionalDepMet(c, o, m) ==
    LET l == LookupKey(c, m, o.dep)
    IN  [err |-> l.err, met |-> IF o.negate THEN l.found = {} ELSE l.found # {}]

\* hasAnySubField.
HasAnySubField(c, tp, m) ==
    \E i \in DOMAIN Fields(c, tp) :
        LET p == ParseKeyAndOptions(c, Fields(c, tp)[i])
            l == LookupKey(c, m, p.key)
        IN  ~p.err /\ ~Ignored(p) /\ ~l.err /\ l.found # {}

\* implicitValueRequiredStruct.
RECURSIVE ImplicitValueRequired(_, _)
ImplicitValueRequired(c, tp) ==
    \E i \in DOMAIN Fields(c, tp) :
        LET f == Fields(c, tp)[i]
            p == ParseKeyAndOptions(c, f)
        IN  \/ UsingDifferentKeys(c, f)
            \/ p.err
            \/ p.opts.nil /\ (Scalar(f) \/ ImplicitValueRequired(c, f.of))
            \/ ~p.opts.nil /\ ~p.opts.optional /\ ~HasDefault(p.opts) /\ ~p.opts.env

\* structValueRequired: the answer is remembered by type.
StructValueRequired(c, tp) ==
    IF tp \in DOMAIN c.required THEN c.required[tp] ELSE ImplicitValueRequired(c, tp)

RECURSIVE ProcessStruct(_, _, _, _), ProcessField(_, _, _, _)

\* processFieldWithoutValue.
ProcessFieldWithoutValue(c, f, o, v) ==
    IF HasDefault(o) THEN Outcome(SetDefaultValue(f, o))
    ELSE IF o.optional \/ f.kind = "slice" THEN Outcome({v})
    ELSE IF f.kind # "struct" THEN Outcome(Failed)
    ELSE LET r == IF StructValueRequired(c, f.of) THEN Outcome(Failed)
                  ELSE ProcessStruct(c, f.of, Allocated(c, f, v), EmptyMap)
         IN  [r EXCEPT !.asked = @ \cup {f.of}]

\* processFieldWithValue, with setStructValue.
ProcessFieldWithValue(c, f, o, v, mv) ==
    IF mv = Nil THEN Outcome(IF o.optional THEN {v} ELSE Failed)
    ELSE CASE f.kind = "duration" ->
                Outcome(IF ValidRangeFor(f, o, mv) THEN SetDurationValue(mv) ELSE Failed)
           [] f.kind = "struct" ->
                IF mv.t = "map" THEN ProcessStruct(c, f.of, Allocated(c, f, v), mv.m)
                ELSE Outcome(Failed)
           [] f.kind = "slice" -> Outcome(SetSliceValue(mv))
           [] OTHER -> Outcome(SetBasicValue(c, f, o, mv))

\* processAnonymousField: the fields of an embedded struct share its parent's
\* map; a pointer is allocated even when nothing is set.
ProcessAnonymousField(c, f, v, m) ==
    LET p == ParseKeyAndOptions(c, f)
        fresh == Allocated(c, f, v)
    IN  IF p.err THEN Outcome(Failed)
        ELSE IF Ignored(p) THEN Outcome({v})
        ELSE IF p.opts.optional /\ ~HasAnySubField(c, f.of, m) THEN Outcome({fresh})
        ELSE EachField(c, f.of, fresh, LAMBDA g, x : ProcessField(c, g, x, m))

\* As Precedence, the map before the environment.
PrecedenceMapFirst(c, p, l) ==
    IF l.found # {} THEN "map" ELSE IF p.opts.env /\ c.env # Empty THEN "env" ELSE "none"

\* processField looks at the environment before it looks into the map.
Precedence(c, p, l) ==
    IF p.opts.env /\ c.env # Empty THEN "env" ELSE IF l.found # {} THEN "map" ELSE "none"

ProcessField(c, f, v, m) ==
    LET p == ParseKeyAndOptions(c, f)
        o == p.opts
        l == LookupKey(c, m, p.key)
        dep == OptionalDepMet(c, o, m)
        unmet == o.dep # NoDep /\ ~HasDefault(o) /\ (dep.err \/ ~dep.met)
        from == Precedence(c, p, l)
    IN  IF UsingDifferentKeys(c, f) THEN Outcome({v})
        ELSE IF f.kind = "embedded" THEN ProcessAnonymousField(c, f, v, m)
        ELSE IF p.err THEN Outcome(Failed)
        ELSE IF Ignored(p) THEN Outcome({v})
        ELSE IF from = "env" THEN Outcome(SetEnvValue(f, o, c.env))
        ELSE IF l.err THEN Outcome(Failed)
        ELSE IF from = "map" THEN ProcessFieldWithValue(c, f, o, v, CHOOSE x \in l.found : TRUE)
        ELSE IF unmet THEN Outcome(Failed)
        ELSE ProcessFieldWithoutValue(c, f, o, v)

\* processStruct: the dependencies first, then the fields.
ProcessStruct(c, tp, v, m) ==
    IF ~ValidOptionalDeps(c, tp) THEN Outcome(Failed)
    ELSE EachField(c, tp, v,
            LAMBDA f, x : IF f.kind = "embedded" THEN ProcessAnonymousField(c, f, x, m)
                          ELSE ProcessField(c, f, x, m))

-----------------------------------------------------------------------------
(* Defaults only, and a user's struct over the defaults                    *)

IsZero(c, f, v) ==
    CASE f.ptr -> v \in {IF Scalar(f) THEN NilPtr ELSE NilStruct}
      [] ~f.ptr /\ f.kind = "slice" -> v = <<>>
      [] ~f.ptr /\ Scalar(f) /\ f.kind # "slice" -> v = 0
      [] ~f.ptr /\ ~Scalar(f) -> v = ZeroOf(c, f.of)

\* fillDefaultStruct: the environment, the default, or the fields of a struct
\* that is no pointer; a field that is set already is an error.
RECURSIVE FillDefaultStruct(_, _, _)
FillDefaultStruct(c, tp, v) ==
    LET fill(f, x) ==
            LET p == ParseKeyAndOptions(c, f)
            IN  IF f.kind = "embedded" THEN FillDefaultStruct(c, f.of, Allocated(c, f, x))
                ELSE IF p.err THEN Outcome(Failed)
                ELSE IF Ignored(p) THEN Outcome({x})
                ELSE IF ~IsZero(c, f, x) THEN Outcome(Failed)
                ELSE IF p.opts.env /\ c.env # Empty THEN Outcome(SetEnvValue(f, p.opts, c.env))
                ELSE IF HasDefault(p.opts) THEN Outcome(SetDefaultValue(f, p.opts))
                ELSE IF f.kind = "struct" /\ ~f.ptr THEN FillDefaultStruct(c, f.of, x)
                ELSE Outcome({x})
    IN  EachField(c, tp, v, fill)

\* shouldOverride: a pointer that is not nil, a text that is optional without a
\* default, and everything else that is not zero or empty.
ShouldOverride(f, o, x) ==
    CASE f.ptr -> ~(x \in {IF Scalar(f) THEN NilPtr ELSE NilStruct})
      [] ~f.ptr /\ f.kind = "slice" -> x # <<>>
      [] ~f.ptr /\ f.kind # "slice" -> x # 0 \/ (f.kind = "string" /\ o.optional /\ ~HasDefault(o))

\* overrideStructFields.
RECURSIVE OverrideStruct(_, _, _, _)
OverrideStruct(c, tp, t, over) ==
    LET field(f, x) ==
            LET y == over[f.name]
                p == ParseKeyAndOptions([c EXCEPT !.tag = "json"], f)
            IN  IF f.kind = "embedded"
                THEN IF f.ptr /\ y = NilStruct THEN Outcome({x})
                     ELSE OverrideStruct(c, f.of, Allocated(c, f, x), y)
                ELSE IF p.err THEN Outcome({x})
                ELSE IF f.kind = "struct" /\ ~f.ptr
                     THEN IF IsZero(c, f, y) THEN Outcome({x}) ELSE OverrideStruct(c, f.of, x, y)
                ELSE Outcome({IF ShouldOverride(f, p.opts, y) THEN y ELSE x})
    IN  EachField(c, tp, t, field)

\* FillAndOverride into a zero struct; without overrides nothing else happens.
FillAndOverride(c, tp, over) ==
    LET filled == FillDefaultStruct(c, tp, ZeroOf(c, tp))
    IN  IF filled.out = Failed \/ over = NilStruct THEN filled
        ELSE OverrideStruct(c, tp, CHOOSE x \in filled.out : TRUE, over)


-----------------------------------------------------------------------------
(* References to environment variables                                     *)

\* Texts that refer to the variable: ${VAR}, ${VAR:-2} and the escape $$.
Ref == 200
RefOr2 == 201
Escape == 202

ExpandEnv(env, x) ==
    CASE x = Escape -> Word
      [] x \in {Ref, RefOr2} /\ env # Empty -> env
      [] x = RefOr2 /\ env = Empty -> 2
      [] x = Ref /\ env = Empty -> Empty
      [] OTHER -> x

\* A key may refer to a variable too; this one holds "b".
ExpandKey(k) == IF k = "$K" THEN "b" ELSE k

\* expandEnvMap and expandEnvValue, on a map of texts, numbers and lists, and
\* of maps of them.  Two keys that become one are an error.
ExpandLeaf(env, v) == IF v.t = "text" THEN Text(ExpandEnv(env, v.n)) ELSE v
ExpandValue(env, v) ==
    IF v.t = "list" THEN List([i \in DOMAIN v.e |-> ExpandLeaf(env, v.e[i])]) ELSE ExpandLeaf(env, v)
ExpandInto(m, Expand(_)) ==
    IF \E k, l \in KeysOf(m) : k # l /\ ExpandKey(k) = ExpandKey(l) THEN Failed
    ELSE {[x \in {ExpandKey(k) : k \in KeysOf(m)} |->
            Expand(m[CHOOSE k \in KeysOf(m) : ExpandKey(k) = x])]}
ExpandEnvMap(env, m) ==
    LET inner(k) == ExpandInto(m[k].m, LAMBDA v : ExpandValue(env, v))
        maps == {k \in KeysOf(m) : m[k].t = "map"}
    IN  IF \E k \in maps : inner(k) = Failed THEN Failed
        ELSE ExpandInto(m, LAMBDA v :
                IF v.t # "map" THEN ExpandValue(env, v)
                ELSE Map(CHOOSE x \in ExpandInto(v.m, LAMBDA w : ExpandValue(env, w)) : TRUE))

-----------------------------------------------------------------------------
(* Parsing                                                                 *)

\* normalizeValue: YAML's integers become json.Numbers, as the JSON decoder
\* makes them at once.
NormalizeLeaf(v) == IF v.t = "int" THEN Number(v.n) ELSE v
NormalizeValue(v) ==
    IF v.t = "list" THEN List([i \in DOMAIN v.e |-> NormalizeLeaf(v.e[i])]) ELSE NormalizeLeaf(v)

\* The text of a key.  In YAML a key of a nested map need not be a text: #b is
\* a number, say, that is written as b (fmt.Sprintf).
KeyText(k) == IF k = "#b" THEN "b" ELSE k

\* normalizeAnyKeyMap: of the keys with the same text the last one stays, in the
\* order in which the map is walked.
NormalizeAnyKeyMap(order, m) ==
    [x \in {KeyText(k) : k \in KeysOf(m)} |->
        NormalizeValue(m[Last(SelectSeq(order, LAMBDA k : k \in KeysOf(m) /\ KeyText(k) = x))])]

\* The keys of the whole document are texts: it is decoded into a map of them.
NormalizeMap(order, m) ==
    [k \in KeysOf(m) |->
        IF m[k].t = "map" THEN Map(NormalizeAnyKeyMap(order, m[k].m)) ELSE NormalizeValue(m[k])]

-----------------------------------------------------------------------------
(* Calls                                                                   *)

\* The fields a call meets: those of its struct, then those of the struct in it.
Met(tps, tp) ==
    tps[tp] \o (IF \E i \in DOMAIN tps[tp] : tps[tp][i].of = "Sub" THEN tps["Sub"] ELSE <<>>)

\* Everything a call depends on besides its arguments.
Context(tps, call, cache, required) ==
    [tag |-> call.tag, canonical |-> call.canonical, fromString |-> call.fromString,
     env |-> call.env, order |-> call.order, types |-> tps, required |-> required,
     into |-> call.into, cache |-> Remember(cache, call.tag, Met(tps, call.into))]

\* Unmarshaler.Unmarshal into a zero struct.
Unmarshal(c, m) == ProcessStruct(c, c.into, ZeroOf(c, c.into), m)

\* loadFromMap: expand, unmarshal, validate.
Validated(call, r) == IF call.valid THEN r ELSE [r EXCEPT !.out = Failed]
LoadFromMap(c, m, call) ==
    LET expanded == IF call.useEnv THEN ExpandEnvMap(c.env, m) ELSE {m}
    IN  IF expanded = Failed THEN Outcome(Failed)
        ELSE Validated(call, Unmarshal(c, CHOOSE x \in expanded : TRUE))

Perform(c, call) ==
    CASE call.op = "load" -> LoadFromMap(c, NormalizeMap(c.order, call.m), call)
      [] call.op = "unmarshal" -> Unmarshal(c, call.m)
      [] call.op = "fill" -> FillDefaultStruct(c, c.into, ZeroOf(c, c.into))
      [] call.op = "override" -> FillAndOverride(c, c.into, call.over)

NoCache == [x \in {} |-> FALSE]

Make(op) ==
    /\ left > 0
    /\ left' = left - 1
    /\ \E call \in Calls(op, types) :
       \E c \in {Context(types, call, optionsCache, structRequiredCache)} :
       \E r \in {Perform(c, call)} :
          /\ optionsCache' = c.cache
          /\ structRequiredCache' =
                structRequiredCache @@ [tp \in r.asked |-> ImplicitValueRequired(c, tp)]
          /\ last' = [call |-> call, out |-> r.out]
    /\ UNCHANGED types

\* conf.Load, LoadFromJSONBytes and LoadFromYAMLBytes.
Load == Make("load")
\* An unmarshaler of one's own: NewUnmarshaler, UnmarshalKey, UnmarshalJsonMap.
UnmarshalKey == Make("unmarshal")
FillDefault == Make("fill")
Override == Make("override")

NoCall == [call |-> [op |-> "none"], out |-> Failed]

FInit ==
    /\ types \in Programs
    /\ optionsCache = NoCache
    /\ structRequiredCache = NoCache
    /\ left = MaxCalls(types)
    /\ last = NoCall

FNext == Load \/ UnmarshalKey \/ FillDefault \/ Override

FSpec == FInit /\ [][FNext]_fvars

-----------------------------------------------------------------------------
(* What a call returns depends on its arguments alone: not on the calls the  *)
(* program made before, and not on the order in which Go walks a map         *)
(* (unmarshaler.go:63 "Unmarshaler methods only read their own fields and    *)
(* never mutate state"; utils.go:174 "rather than picking one depending on   *)
(* map iteration order").  Two keys of a nested map that have the same text, *)
(* as 1 and 1.0, break it: normalize.go:97 keeps the one met last.           *)
HistoryFree ==
    last.call.op # "none" =>
        \A order \in {last.call.order, Reverse(last.call.order)} :
            Perform(Context(types, [last.call EXCEPT !.order = order], NoCache, NoCache), last.call).out
                = last.out
=============================================================================
