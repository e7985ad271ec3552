-------------------------- MODULE MiddlewareChain --------------------------
(***************************************************************************)
(* One request on its way through the middleware that an application has   *)
(* stacked with Use: inwards, where a middleware may unwrap the body or    *)
(* refuse; in the handler, whose calls of its ResponseWriter travel        *)
(* outwards through every wrapper; and outwards after the handler returned *)
(* or panicked.  All of it is one goroutine: todo holds the calls that are *)
(* pending, the next one first.                                            *)
(*                                                                         *)
(* net/http is modelled from its use: the first final status or Write      *)
(* commits the header, and a response to HEAD and a 204 have no body.      *)
(***************************************************************************)
EXTENDS Naturals, Sequences, SequencesExt

CONSTANTS
    Orders,         \* the stacks of middleware, outermost first
    MaxUnits,       \* bound: units of body that the handler writes
    MaxBuf,         \* maxResponseBytes, in units
    Careful         \* the handler sets its status once, and before it writes

VARIABLES
    order,          \* the stack
    keyOK,          \* Cryption's key has 16, 24 or 32 bytes
    req,            \* the request as it was sent
    body,           \* r.Body: its encodings, the outermost first
    fails,          \* reading r.Body to the end returns an error
    sized, zip,     \* Content-Length is known; Content-Encoding says gzip
    todo,           \* calls that are pending, the next one first
    inside,         \* the handler is running
    h,              \* history: what the handler has done
    rec,            \* RecorderWriter of each layer that has one
    report,         \* what that layer has logged or told its breaker
    cw,             \* CryptionWriter
    replaced,       \* NotFoundResponseWriter: handled and suppressed
    wire,           \* what net/http has sent
    past            \* history: a call of the ResponseWriter has passed Recovery

vars == <<order, keyOK, req, body, fails, sized, zip, todo, inside, h, rec, report,
          cw, replaced, wire, past>>
setup == <<order, keyOK, req>>
inbound == <<body, fails, sized, zip>>
writers == <<rec, report, cw, replaced>>

Recorders == {"logger", "breaker", "tracing"}
Limiters == {"maxbytes", "gunzip", "contentsec", "cryption"}
Plain == (Limiters \ {"cryption"}) \union {"recovery"}   \* these wrap no ResponseWriter
Has(layer) == layer \in ToSet(order)
Depth(layer) == CHOOSE i \in DOMAIN order : order[i] = layer

\* Calls.  A call at i of the ResponseWriter goes to the writer of layer i; for a
\* return or a panic at i it is what layer i has called that ends.
Header(i, c) == [at |-> i, do |-> "header", code |-> c]
Write(i, us) == [at |-> i, do |-> "write", units |-> us]
Flush(i) == [at |-> i, do |-> "flush"]
Return(i) == [at |-> i, do |-> "return"]
Panic(i) == [at |-> i, do |-> "panic"]
Enter(i) == [at |-> i, do |-> "enter"]

Call == Head(todo)
Layer == (<<"wire">> \o order \o <<"handler">>)[Call.at + 1]
Doing(layer, do) == todo # <<>> /\ Layer = layer /\ Call.do = do

\* The current call is over once these have been made.
Do(calls) == todo' = calls \o Tail(todo)
Outwards == Do(<<[Call EXCEPT !.at = @ - 1]>>)
Inwards == Do(<<Enter(Call.at + 1)>>)

\* writeError on the ResponseWriter that the layer was given, and return.
ErrorBody == <<"error">>
WriteError(c) == <<Header(Call.at - 1, c), Write(Call.at - 1, ErrorBody)>>
Refuse(c) == Do(WriteError(c) \o <<Return(Call.at - 1)>>)

-----------------------------------------------------------------------------

\* What clients send.  They gzip and encrypt in the order in which the stack
\* undoes it, except for what is "junk".  Ciphertext is as long as its plaintext,
\* gzip is never longer; big is more than any limit.
Undone(z) ==
    LET gunzips == z /\ Has("gunzip")
    IN IF gunzips /\ Has("cryption")
       THEN IF Depth("gunzip") < Depth("cryption") THEN <<"gzip", "cipher">>
            ELSE <<"cipher", "gzip">>
       ELSE IF gunzips THEN <<"gzip">>
       ELSE IF Has("cryption") THEN <<"cipher">> ELSE <<>>
Sizes(encs) ==
    {bs \in [1 .. Len(encs) -> BOOLEAN] :
        \A i \in 1 .. Len(encs) - 1 :
            /\ bs[i] => bs[i + 1]
            /\ encs[i] # "gzip" /\ bs[i + 1] => bs[i]}
Forms(z) ==
    {<<>>, Undone(z) \o <<"plain">>}
    \union {SubSeq(Undone(z), 1, i - 1) \o <<"junk">> : i \in DOMAIN Undone(z)}
Encoded(encs, bs) == [i \in DOMAIN encs |-> [enc |-> encs[i], big |-> bs[i]]]

Init ==
    /\ order \in Orders
    /\ keyOK \in {k \in BOOLEAN : ~k => Has("cryption")}
    /\ zip \in {z \in BOOLEAN : z => Has("gunzip")}
    /\ sized \in BOOLEAN
    /\ \E encs \in Forms(zip) : \E bs \in Sizes(encs) : body = Encoded(encs, bs)
    /\ req \in [head : BOOLEAN, body : {body},
                sig : IF Has("contentsec") THEN {"none", "late", "forged", "good"}
                      ELSE {"none"}]
    /\ fails = FALSE
    /\ todo = <<Enter(1)>>
    /\ inside = FALSE
    /\ h = [code |-> 0, sent |-> <<>>, end |-> "none", clean |-> FALSE]
    /\ rec = [i \in DOMAIN order |-> [status |-> 200, wrote |-> FALSE]]
    /\ report = [i \in DOMAIN order |-> 0]
    /\ cw = [code |-> 0, over |-> FALSE, wrote |-> FALSE, buf |-> <<>>]
    /\ replaced = FALSE
    /\ wire = [status |-> 0, body |-> <<>>, done |-> FALSE]
    /\ past = FALSE

-----------------------------------------------------------------------------
(* Inwards. *)

EnterPass ==
    /\ todo # <<>> /\ Call.do = "enter"
    /\ Layer \in {"recovery", "notfound"} \union Recorders
    /\ Inwards
    /\ UNCHANGED <<setup, inbound, inside, h, writers, wire, past>>

\* AllowCtx of the breaker says no.
BreakerRefuses ==
    /\ Doing("breaker", "enter")
    /\ Refuse(503)
    /\ UNCHANGED <<setup, inbound, inside, h, writers, wire, past>>

Big == body # <<>> /\ Head(body).big

MaxBytes ==
    /\ Doing("maxbytes", "enter")
    /\ IF sized /\ Big
       THEN Refuse(413) /\ UNCHANGED fails
       ELSE Inwards /\ fails' = (fails \/ Big)
    /\ UNCHANGED <<setup, body, sized, zip, inside, h, writers, wire, past>>

\* limitedReadCloser fails once more than the limit is decompressed.
Gunzip ==
    /\ Doing("gunzip", "enter")
    /\ IF ~zip THEN Inwards /\ UNCHANGED inbound
       ELSE IF body = <<>> \/ Head(body).enc # "gzip"
       THEN Refuse(400) /\ UNCHANGED inbound
       ELSE /\ Inwards
            /\ body' = Tail(body)
            /\ fails' = (fails \/ Head(Tail(body)).big)
            /\ sized' = FALSE /\ zip' = FALSE
    /\ UNCHANGED <<setup, inside, h, writers, wire, past>>

\* The whole body is read, and given back; the signature is checked last.
ContentSecurity ==
    /\ Doing("contentsec", "enter")
    /\ CASE req.sig \in {"none", "late"} -> Refuse(401)
         [] req.sig \notin {"none", "late"} /\ fails -> Refuse(400)
         [] req.sig \notin {"none", "late"} /\ ~fails /\ Big -> Refuse(413)
         [] req.sig = "forged" /\ ~fails /\ ~Big -> Refuse(401)
         [] OTHER -> Inwards
    /\ UNCHANGED <<setup, inbound, inside, h, writers, wire, past>>

\* Cryption: the whole body is read and decrypted.
Decrypt ==
    /\ Doing("cryption", "enter")
    /\ IF body = <<>> THEN Inwards /\ UNCHANGED inbound
       ELSE IF fails THEN Refuse(400) /\ UNCHANGED inbound
       ELSE IF Big THEN Refuse(413) /\ UNCHANGED inbound
       ELSE IF (Head(body).enc # "cipher" \/ ~keyOK) THEN Refuse(400) /\ UNCHANGED inbound
       ELSE /\ Inwards
            /\ body' = Tail(body)
            /\ sized' = TRUE /\ UNCHANGED <<fails, zip>>
    /\ UNCHANGED <<setup, inside, h, writers, wire, past>>

Arrive ==
    /\ Doing("handler", "enter")
    /\ Do(<<>>)
    /\ inside' = TRUE
    /\ UNCHANGED <<setup, inbound, h, writers, wire, past>>

-----------------------------------------------------------------------------
(* The handler. *)

Codes == {103, 200, 204, 404, 500}
May(call) ==
    /\ inside /\ todo = <<>>
    /\ todo' = <<call>>
    /\ UNCHANGED <<setup, inbound, writers, wire, past>>

HandlerStatus(c) ==
    /\ Careful => c # 103 /\ h.code = 0 /\ h.sent = <<>>
    /\ May(Header(Len(order), c))
    /\ h' = [h EXCEPT !.code = IF @ = 0 THEN c ELSE @]
    /\ UNCHANGED inside

HandlerWrite(n) ==
    /\ Len(h.sent) + n <= MaxUnits
    /\ May(Write(Len(order), [i \in 1 .. n |-> Len(h.sent) + i]))
    /\ h' = [h EXCEPT !.sent = @ \o [i \in 1 .. n |-> Len(h.sent) + i]]
    /\ UNCHANGED inside

HandlerFlush == May(Flush(Len(order))) /\ UNCHANGED <<inside, h>>

HandlerEnds ==
    \/ /\ May(Return(Len(order)))
       /\ inside' = FALSE /\ h' = [h EXCEPT !.end = "return"]
    \/ /\ May(Panic(Len(order)))
       /\ inside' = FALSE
       /\ h' = [h EXCEPT !.end = "panic", !.clean = ~past]

-----------------------------------------------------------------------------
(* Outwards: the calls of the ResponseWriter. *)

IsWrite == Call.do \in {"header", "write", "flush"}
WritePass ==
    /\ todo # <<>> /\ IsWrite /\ Layer \in Plain
    /\ Outwards
    /\ past' = (past \/ Layer = "recovery")
    /\ UNCHANGED <<setup, inbound, inside, h, writers, wire>>

Recorder ==
    /\ todo # <<>> /\ IsWrite /\ Layer \in Recorders
    /\ rec' = IF Call.do = "header" /\ ~rec[Call.at].wrote
              THEN [rec EXCEPT ![Call.at] = [status |-> Call.code, wrote |-> TRUE]]
              ELSE rec
    /\ Outwards
    /\ UNCHANGED <<setup, inbound, inside, h, report, cw, replaced, wire, past>>

CryptionHeader ==
    /\ Doing("cryption", "header")
    /\ IF cw.over /\ ~cw.wrote
       THEN Outwards /\ cw' = [cw EXCEPT !.code = Call.code, !.wrote = TRUE]
       ELSE Do(<<>>) /\ cw' = [cw EXCEPT !.code = Call.code]
    /\ UNCHANGED <<setup, inbound, inside, h, rec, report, replaced, wire, past>>

\* Mutant: what is buffered is not written at the overflow.
CryptionWriteTruncates ==
    /\ Doing("cryption", "write")
    /\ IF cw.over THEN Outwards /\ UNCHANGED cw
       ELSE IF Len(cw.buf \o Call.units) <= MaxBuf
       THEN Do(<<>>) /\ cw' = [cw EXCEPT !.buf = @ \o Call.units]
       ELSE /\ cw' = [cw EXCEPT !.over = TRUE, !.wrote = TRUE, !.buf = <<>>]
            /\ Do(<<Write(Call.at - 1, Call.units)>>)
    /\ UNCHANGED <<setup, inbound, inside, h, rec, report, replaced, wire, past>>

\* Beyond the limit: the status (if one was set), what is buffered, and this.
CryptionWrite ==
    /\ Doing("cryption", "write")
    /\ IF cw.over THEN Outwards /\ UNCHANGED cw
       ELSE IF Len(cw.buf \o Call.units) <= MaxBuf
       THEN Do(<<>>) /\ cw' = [cw EXCEPT !.buf = @ \o Call.units]
       ELSE /\ cw' = [cw EXCEPT !.over = TRUE, !.wrote = TRUE, !.buf = <<>>]
            /\ Do((IF cw.code # 0 THEN <<Header(Call.at - 1, cw.code)>> ELSE <<>>)
                  \o (IF cw.buf # <<>> THEN <<Write(Call.at - 1, cw.buf)>> ELSE <<>>)
                  \o <<Write(Call.at - 1, Call.units)>>)
    /\ UNCHANGED <<setup, inbound, inside, h, rec, report, replaced, wire, past>>

CryptionFlush ==
    /\ Doing("cryption", "flush")
    /\ IF cw.over THEN Outwards ELSE Do(<<>>)
    /\ UNCHANGED <<setup, inbound, inside, h, writers, wire, past>>

\* NotFoundResponseWriter: the custom handler writes the 404 and its own page.
CustomBody == <<"custom">>
NotFound ==
    /\ todo # <<>> /\ IsWrite /\ Layer = "notfound"
    /\ IF Call.do = "header" /\ Call.code = 404 /\ ~replaced
       THEN /\ Do(<<Header(Call.at - 1, 404), Write(Call.at - 1, CustomBody)>>)
            /\ replaced' = TRUE
       ELSE /\ IF Call.do = "write" /\ replaced THEN Do(<<>>) ELSE Outwards
            /\ UNCHANGED replaced
    /\ UNCHANGED <<setup, inbound, inside, h, rec, report, cw, wire, past>>

BodyAllowed(c) == c # 204 /\ ~req.head

\* net/http, at the end of the stack.
Wire ==
    LET final == IF wire.status # 0 THEN wire.status
                 ELSE IF Call.do # "header" THEN 200
                 ELSE IF Call.code >= 200 THEN Call.code ELSE 0
    IN /\ todo # <<>> /\ Layer = "wire" /\ IsWrite
       /\ wire' = [wire EXCEPT
             !.status = final,
             !.body = IF Call.do = "write" /\ BodyAllowed(final) THEN @ \o Call.units ELSE @]
       /\ Do(<<>>)
       /\ UNCHANGED <<setup, inbound, inside, h, writers, past>>

-----------------------------------------------------------------------------
(* Outwards: after the return, or with the panic. *)

ReturnPass ==
    /\ todo # <<>> /\ Call.do = "return"
    /\ Layer \in Plain \union {"notfound"}
    /\ Outwards
    /\ UNCHANGED <<setup, inbound, inside, h, writers, wire, past>>

\* The access log, promise.Accept or Reject, the status of the span.
Report ==
    /\ todo # <<>> /\ Call.do = "return" /\ Layer \in Recorders
    /\ report' = [report EXCEPT ![Call.at] = rec[Call.at].status]
    /\ Outwards
    /\ UNCHANGED <<setup, inbound, inside, h, rec, cw, replaced, wire, past>>

Code == IF cw.code = 0 THEN 200 ELSE cw.code
Encryptable(c) == c \in 200 .. 299 \ {204, 205} /\ ~req.head
Cipher(us) == <<[cipher |-> us]>>

\* What Cryption has called returns: nothing is left to do after an overflow,
\* a response that is not encryptable passes as it is, the others encrypted,
\* which fails with a key of the wrong length.
Encrypt ==
    /\ Doing("cryption", "return")
    /\ IF cw.over THEN Outwards
       ELSE IF ~Encryptable(Code)
       THEN Do(<<Header(Call.at - 1, Code)>>
               \o (IF ~req.head /\ cw.buf # <<>> THEN <<Write(Call.at - 1, cw.buf)>> ELSE <<>>)
               \o <<Return(Call.at - 1)>>)
       ELSE IF keyOK
       THEN Do(<<Header(Call.at - 1, Code), Write(Call.at - 1, Cipher(cw.buf)),
                 Return(Call.at - 1)>>)
       ELSE Refuse(500)
    /\ UNCHANGED <<setup, inbound, inside, h, writers, wire, past>>

\* The deferred recover.
Recover ==
    /\ Doing("recovery", "panic")
    /\ Refuse(500)
    /\ UNCHANGED <<setup, inbound, inside, h, writers, wire, past>>

PanicPass ==
    /\ todo # <<>> /\ Call.do = "panic" /\ Layer \notin {"recovery", "wire"}
    /\ Outwards
    /\ UNCHANGED <<setup, inbound, inside, h, writers, wire, past>>

\* net/http: the end of the response, or a panic that aborts the connection.
Finish ==
    /\ Doing("wire", "return") \/ Doing("wire", "panic")
    /\ wire' = [wire EXCEPT !.done = Call.do = "return",
                            !.status = IF @ = 0 /\ Call.do = "return" THEN 200 ELSE @]
    /\ Do(<<>>)
    /\ UNCHANGED <<setup, inbound, inside, h, writers, past>>

Next ==
    \/ EnterPass \/ BreakerRefuses \/ MaxBytes \/ Gunzip \/ ContentSecurity
    \/ Decrypt \/ Arrive
    \/ (\E c \in Codes : HandlerStatus(c)) \/ (\E n \in 1 .. 2 : HandlerWrite(n))
    \/ HandlerFlush \/ HandlerEnds
    \/ WritePass \/ Recorder \/ CryptionHeader \/ CryptionWrite \/ CryptionFlush
    \/ NotFound \/ Wire
    \/ ReturnPass \/ Report \/ Encrypt \/ Recover \/ PanicPass \/ Finish

Spec == Init /\ [][Next]_vars

-----------------------------------------------------------------------------

TypeOK ==
    /\ order \in Orders
    /\ fails \in BOOLEAN /\ inside \in BOOLEAN /\ past \in BOOLEAN
    /\ \A i \in DOMAIN todo : todo[i].at \in 0 .. Len(order) + 1
    /\ Len(cw.buf) <= MaxBuf

Limited ==
    \/ \E l \in Limiters \ {"gunzip"} : Has(l)
    \/ \E i \in DOMAIN req.body : req.body[i].enc = "gzip"

\* What the handler can read to the end is decoded, signed, and within the limits:
\* also when it was chunked, a small gzip body has become large on its way, or a
\* middleware has put another body into the request.
InboundExact ==
    inside /\ ~fails =>
        /\ body = <<>> \/ Head(body).enc = "plain"
        /\ Limited => ~Big
        /\ Has("contentsec") => req.sig = "good"

Status == IF h.code = 0 THEN 200 ELSE h.code
Allowed(us) == IF BodyAllowed(wire.status) THEN us ELSE <<>>
Fits == Has("cryption") /\ Encryptable(Status) /\ Len(h.sent) <= MaxBuf

\* A handler that returns: its status and its whole body once, encrypted if that
\* is a success that fits into the buffer, and as they are if not.
ReturnedWhole ==
    wire.done /\ h.end = "return" /\ ~replaced =>
        IF Fits /\ ~keyOK
        THEN wire.status = 500 /\ wire.body = ErrorBody
        ELSE /\ wire.status = Status
             /\ wire.body = IF Fits THEN Cipher(h.sent) ELSE Allowed(h.sent)

\* The page of the NotFoundResponseWriter comes instead, and not in addition.
ReplacedWhole ==
    wire.done /\ h.end = "return" /\ replaced =>
        wire.status = 404 /\ wire.body = Allowed(CustomBody)

\* A panic that Recovery catches, or a refusal, is an error response and nothing
\* else, as long as nothing the handler wrote had passed Recovery.
ErrorsWhole ==
    wire.done /\ (h.end = "panic" => h.clean) /\ h.end # "return" =>
        /\ wire.status = IF h.end = "panic" THEN 500 ELSE wire.status
        /\ wire.status >= 400
        /\ wire.body = Allowed(ErrorBody)

\* The access log, the breaker and the span have the status the client got, unless
\* what happened was outside of them: a layer further out refused, caught the
\* panic, or could not encrypt.  (A panic that comes after the handler has written:
\* the status that was set first is reported, the client's is the one sent first.)
ReportsHonest ==
    wire.done => \A i \in DOMAIN order :
        order[i] \in Recorders =>
            \/ report[i] = wire.status
            \/ report[i] = 0 /\ h.end = "none"
            \/ report[i] = 0 /\ h.end = "panic" /\ Depth("recovery") < i
            \/ Has("cryption") /\ ~keyOK /\ Depth("cryption") < i
            \/ /\ h.end = "panic" /\ ~h.clean
               /\ report[i] = IF h.code = 0 THEN 500 ELSE h.code

ResponseExact == TypeOK /\ ReturnedWhole /\ ReplacedWhole /\ ErrorsWhole /\ ReportsHonest
=============================================================================
