------------------------------- MODULE Logger -------------------------------
(***************************************************************************)
(* Package logger: the global Logger and its replacement, and the context  *)
(* extractors, whose list is replaced under extractorsMu and walked        *)
(* without it.  Goroutines log with a context meanwhile.                   *)
(*                                                                         *)
(* A file output is a lumberjack.Logger, modelled from its use: it opens   *)
(* the file with the first write, and again with a write after its Close.  *)
(***************************************************************************)
EXTENDS Naturals, Sequences, SequencesExt

CONSTANTS
    Procs,          \* goroutines that log with a context
    Extractors,     \* entries: each is registered and unregistered once
    Loggers,        \* Loggers that ReplaceGlobal may make
    First,          \* the one of init()
    Quiet           \* Loggers whose level is above the one of the entry

VARIABLES
    list,           \* contextExtractors
    removed,        \* entries whose removed flag is set
    reg,            \* "new", "live", "removing", "gone"
    global,         \* the global Logger
    replaced,       \* Loggers that ReplaceGlobal has returned, not yet closed
    closed, open,   \* Loggers after Close; Loggers with an open file
    pc, lg,         \* of a log call: where it is, and the Logger it has loaded
    rest,           \* what is left of the list that it walks
    fields,         \* whose fields it has collected
    whole,          \* history: entries that were live during all of the call
    gone            \* history: entries unregistered before the walk came to Head(rest)

vars == <<list, removed, reg, global, replaced, closed, open,
          pc, lg, rest, fields, whole, gone>>
registry == <<list, removed, reg>>
outputs == <<global, replaced, closed, open>>
calls == <<pc, lg, rest, fields, gone>>

All == Loggers \union {First}
Live == {e \in Extractors : reg[e] = "live"}
Unregistered == {e \in Extractors : reg[e] \in {"removing", "gone"}}

Init ==
    /\ list = <<>>
    /\ removed = {}
    /\ reg = [e \in Extractors |-> "new"]
    /\ global = First
    /\ replaced = {} /\ closed = {} /\ open = {}
    /\ pc = [p \in Procs |-> "idle"]
    /\ lg = [p \in Procs |-> First]
    /\ rest = [p \in Procs |-> <<>>]
    /\ fields = [p \in Procs |-> <<>>]
    /\ whole = [p \in Procs |-> {}] /\ gone = [p \in Procs |-> {}]

-----------------------------------------------------------------------------
(* RegisterContextExtractor and the function that it returns. *)

Register(e) ==
    /\ reg[e] = "new"
    /\ list' = Append(list, e)
    /\ reg' = [reg EXCEPT ![e] = "live"]
    /\ UNCHANGED <<removed, whole, outputs, calls>>

\* once.Do: first the flag...
Unregister(e) ==
    /\ reg[e] = "live"
    /\ removed' = removed \union {e}
    /\ reg' = [reg EXCEPT ![e] = "removing"]
    /\ whole' = [p \in Procs |-> whole[p] \ {e}]
    /\ UNCHANGED <<list, outputs, calls>>

\* What a walk over the first n of the list has appended: those that are not flagged.
Remaining ==
    LET live[n \in 0..Len(list)] ==
          IF n = 0 THEN <<>>
          ELSE IF list[n] \in removed THEN live[n - 1]
          ELSE Append(live[n - 1], list[n])
    IN  live[Len(list)]

\* ... then, under the lock, the list becomes a new one of these.
Compact(e) ==
    /\ reg[e] = "removing"
    /\ list' = Remaining
    /\ reg' = [reg EXCEPT ![e] = "gone"]
    /\ UNCHANGED <<removed, whole, outputs, calls>>

-----------------------------------------------------------------------------
(* The package-level log functions with a context, and extractContextFields. *)

Log(p) ==
    /\ pc[p] = "idle"
    /\ lg' = [lg EXCEPT ![p] = global]
    /\ pc' = [pc EXCEPT ![p] = "level"]
    /\ whole' = [whole EXCEPT ![p] = Live]
    /\ gone' = [gone EXCEPT ![p] = Unregistered]
    /\ UNCHANGED <<registry, outputs, rest, fields>>

\* "return immediately when it is disabled".
Disabled(p) ==
    /\ pc[p] = "level" /\ lg[p] \in Quiet
    /\ pc' = [pc EXCEPT ![p] = "idle"]
    /\ UNCHANGED <<registry, outputs, lg, rest, fields, whole, gone>>

\* The list is read under the read lock and walked after it.
Snapshot(p) ==
    /\ pc[p] = "level" /\ lg[p] \notin Quiet
    /\ rest' = [rest EXCEPT ![p] = list]
    /\ fields' = [fields EXCEPT ![p] = <<>>]
    /\ pc' = [pc EXCEPT ![p] = "walk"]
    /\ gone' = [gone EXCEPT ![p] = Unregistered]
    /\ UNCHANGED <<registry, outputs, lg, whole>>

\* e.removed.Load() skips the entry...
Skip(p) ==
    /\ pc[p] = "walk" /\ rest[p] # <<>> /\ Head(rest[p]) \in removed
    /\ rest' = [rest EXCEPT ![p] = Tail(@)]
    /\ gone' = [gone EXCEPT ![p] = Unregistered]
    /\ UNCHANGED <<registry, outputs, pc, lg, fields, whole>>

\* Mutant: the walk does not look at the flag.
PassesUnchecked(p) ==
    /\ pc[p] = "walk" /\ rest[p] # <<>>
    /\ pc' = [pc EXCEPT ![p] = "call"]
    /\ UNCHANGED <<registry, outputs, lg, rest, fields, whole, gone>>

Passes(p) ==
    /\ pc[p] = "walk" /\ rest[p] # <<>> /\ Head(rest[p]) \notin removed
    /\ pc' = [pc EXCEPT ![p] = "call"]
    /\ UNCHANGED <<registry, outputs, lg, rest, fields, whole, gone>>

\* ... or its fn is called, by then perhaps unregistered: unregister() waits for no walk.
CallFn(p) ==
    /\ pc[p] = "call"
    /\ fields' = [fields EXCEPT ![p] = Append(@, Head(rest[p]))]
    /\ rest' = [rest EXCEPT ![p] = Tail(@)]
    /\ pc' = [pc EXCEPT ![p] = "walk"]
    /\ gone' = [gone EXCEPT ![p] = Unregistered]
    /\ UNCHANGED <<registry, outputs, lg, whole>>

\* The entry is written to the outputs of the Logger that was loaded.
Write(p) ==
    /\ pc[p] = "walk" /\ rest[p] = <<>>
    /\ open' = open \union {lg[p]}
    /\ pc' = [pc EXCEPT ![p] = "idle"]
    /\ fields' = [fields EXCEPT ![p] = <<>>]
    /\ UNCHANGED <<registry, global, replaced, closed, lg, rest, whole, gone>>

-----------------------------------------------------------------------------

\* ReplaceGlobal swaps a new Logger in and returns the old one...
ReplaceGlobal(l) ==
    /\ l \notin {global} \union replaced \union closed
    /\ global' = l
    /\ replaced' = replaced \union {global}
    /\ UNCHANGED <<registry, closed, open, calls, whole>>

\* ... which the caller closes: Sync, then its files.
Close(l) ==
    /\ l \in replaced
    /\ replaced' = replaced \ {l}
    /\ closed' = closed \union {l}
    /\ open' = open \ {l}
    /\ UNCHANGED <<registry, global, calls, whole>>

Next ==
    \/ \E e \in Extractors : Register(e) \/ Unregister(e) \/ Compact(e)
    \/ \E p \in Procs :
          \/ Log(p) \/ Disabled(p) \/ Snapshot(p)
          \/ Skip(p) \/ Passes(p) \/ CallFn(p) \/ Write(p)
    \/ \E l \in Loggers : ReplaceGlobal(l)
    \/ \E l \in All : Close(l)

Spec == Init /\ [][Next]_vars

-----------------------------------------------------------------------------

TypeOK ==
    /\ list \in Seq(Extractors) /\ removed \subseteq Extractors
    /\ global \in All
    /\ pc \in [Procs -> {"idle", "level", "walk", "call"}]

\* No registration is lost in the list's replacements, and none stays in it.
RegistryKept ==
    /\ IsInjective(list)
    /\ Live \subseteq ToSet(list)
    /\ \A e \in ToSet(list) : reg[e] \notin {"new", "gone"}

\* An entry has the fields of every extractor that was registered during the
\* whole call, and no fields twice.
FieldsWhole ==
    \A p \in Procs : pc[p] = "walk" /\ rest[p] = <<>> =>
        IsInjective(fields[p]) /\ whole[p] \subseteq ToSet(fields[p])

\* An extractor is called only by a walk that came to it while it was registered
\* ("the element is still skipped through its removed flag"): one whose unregister()
\* has returned is called by nobody who begins to log after that, also over an older
\* list.  Whoever stands between the flag and the call does call it, once.
NoneLate ==
    [][\A p \in Procs : pc[p] = "call" /\ pc'[p] = "walk"
           => Head(rest[p]) \notin gone[p]]_vars

\* Fails, between the flag and the call: who is called is registered ("undo it when no
\* longer needed").
CalledRegistered == \A p \in Procs : pc[p] = "call" => reg[Head(rest[p])] = "live"

\* Close "shuts the logger down, flushing buffers and closing file outputs":
\* once it has returned no file is open, when nothing is being logged.
ClosedStaysClosed == (\A p \in Procs : pc[p] = "idle") => open \intersect closed = {}
=============================================================================
