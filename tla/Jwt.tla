--------------------------------- MODULE Jwt ---------------------------------
(***************************************************************************)
(* Package jwt: pairs of access and refresh tokens, the refresh that makes *)
(* a new pair of an old one, and the authentication middleware (src/jwt).  *)
(* Several applications may sign with the same secret; time passes while   *)
(* a pair is made.                                                         *)
(*                                                                         *)
(* The clock counts halves of a second, of which a token keeps the whole   *)
(* ones.  Signing and parsing are golang-jwt's: a token is a record, which *)
(* only someone with the secret can make.  The caller's claims are a       *)
(* business claim and any of sub, iss and aud.                             *)
(***************************************************************************)
EXTENDS Integers, FiniteSets

CONSTANTS
    Apps,           \* applications (JWT instances)
    Config,         \* app -> [secret, alg, iss, aud, access, refresh]; "" and {} are unset
    Users,          \* values of the business claim
    Subjects,       \* values of the caller's claim sub; "" is none
    Identities,     \* [iss, aud] that a caller puts into its claims; "" and {} are none
    MaxNow, MaxTokens

VARIABLES
    now,        \* half-seconds
    tokens,     \* signed tokens, each with the application that made it (by), the iss
                \* and aud of its caller (given), the claims of the login it descends
                \* from (root) and when it was made (at)
    call,       \* a GenerateTokenPair in progress, or Idle
    pair,       \* what GenerateTokenPair returned last
    seen        \* the last step, if it was a request to a handler or a refresh that
                \* was granted: the token, the application, what became of it

jvars == <<now, tokens, call, pair, seen>>

Idle == [stage |-> "idle"]

Unix(t) == t \div 2
Seconds(d) == 2 * d

-----------------------------------------------------------------------------
(* Claims: a function from claim keys to values                            *)

standardClaimKeys == {"iss", "aud", "sub", "exp", "iat", "nbf", "token_type", "jti"}

\* As extractBusinessClaims, keeping the issuer.
extractBusinessClaimsAndIssuer(claims) ==
    [k \in (DOMAIN claims \ standardClaimKeys) \cup (DOMAIN claims \cap {"iss"}) |-> claims[k]]

extractBusinessClaims(claims) ==
    [k \in DOMAIN claims \ standardClaimKeys |-> claims[k]]

Claim(claims, k) == IF k \in DOMAIN claims THEN claims[k] ELSE ""

\* claims[k] = v in a copy.
Put(claims, k, v) == [x \in DOMAIN claims \cup {k} |-> IF x = k THEN v ELSE claims[x]]

\* GenerateToken: the standard claims are written over the caller's, the issuer
\* and the audience only when they are configured.
GenerateToken(app, claims, aud, expire, root) ==
    LET cfg == Config[app]
    IN  [secret |-> cfg.secret, alg |-> cfg.alg,
         aud |-> IF cfg.aud # {} THEN cfg.aud ELSE aud,
         claims |-> IF cfg.iss # "" THEN Put(claims, "iss", cfg.iss) ELSE claims,
         nbf |-> Unix(now), exp |-> Unix(now + Seconds(expire)), by |-> app,
         given |-> [iss |-> Claim(claims, "iss"), aud |-> aud], root |-> root, at |-> now]

GenerateAccessToken(app, claims, aud, root) ==
    GenerateToken(app, Put(claims, "token_type", "access"), aud, Config[app].access, root)
GenerateRefreshToken(app, claims, aud, root) ==
    GenerateToken(app, Put(claims, "token_type", "refresh"), aud, Config[app].refresh, root)

-----------------------------------------------------------------------------
(* Parsing: the algorithm and the signature, the times, and the issuer and  *)
(* the audience when they are configured (parserOptions).                   *)

Signed(app, t) == t.secret = Config[app].secret /\ t.alg = Config[app].alg
Expired(t) == now >= Seconds(t.exp)
Early(t) == now < Seconds(t.nbf)
ForUs(app, t) ==
    /\ Config[app].iss # "" => Claim(t.claims, "iss") = Config[app].iss
    /\ Config[app].aud # {} => t.aud \cap Config[app].aud # {}

\* ParseToken: ok, or which error the caller gets.
ParseToken(app, t) ==
    IF ~Signed(app, t) THEN "invalid"
    ELSE IF Expired(t) THEN "expired"
    ELSE IF Early(t) \/ ~ForUs(app, t) THEN "invalid"
    ELSE "ok"

\* ParseAccessToken and ParseRefreshToken.
ParseTyped(app, t, type) ==
    LET r == ParseToken(app, t)
    IN  IF r = "ok" /\ Claim(t.claims, "token_type") # type THEN "invalid" ELSE r

-----------------------------------------------------------------------------
NoRequest == [by |-> "none", result |-> "none"]
NoToken == [by |-> "none", result |-> "missing"]

JInit ==
    /\ now = 0
    /\ tokens = {}
    /\ call = Idle
    /\ pair = <<>>
    /\ seen = NoRequest

Room == Cardinality(tokens) + 2 <= MaxTokens

\* GenerateTokenPair reads the clock three times.
Begin(app, claims, aud, root) ==
    /\ call = Idle /\ Room
    /\ call' = [stage |-> "access", app |-> app, claims |-> claims, aud |-> aud, root |-> root]
    /\ UNCHANGED <<now, tokens, pair>>

Given(claims, k, v) == IF v = "" THEN claims ELSE Put(claims, k, v)

\* A login: the caller's own claims.
Login(app) ==
    \E u \in Users, s \in Subjects, who \in Identities :
        LET claims == Given(Given([user_id |-> u], "sub", s), "iss", who.iss)
        IN  Begin(app, claims, who.aud, extractBusinessClaims(claims)) /\ seen' = NoRequest

\* RefreshToken: the business claims of a valid refresh token start a new pair.
Refresh(app) ==
    \E t \in tokens :
        LET r == ParseTyped(app, t, "refresh")
        IN  IF r = "ok"
            THEN /\ Begin(app, extractBusinessClaims(t.claims), {}, t.root)
                 /\ seen' = [by |-> app, result |-> "refreshed", token |-> t, now |-> now]
            ELSE seen' = NoRequest /\ UNCHANGED <<now, tokens, call, pair>>

MintAccess ==
    /\ call.stage = "access"
    /\ LET t == GenerateAccessToken(call.app, call.claims, call.aud, call.root)
       IN  /\ tokens' = tokens \cup {t}
           /\ call' = [stage |-> "refresh", app |-> call.app, claims |-> call.claims,
                       aud |-> call.aud, root |-> call.root, access |-> t]
    /\ seen' = NoRequest
    /\ UNCHANGED <<now, pair>>

MintRefresh ==
    /\ call.stage = "refresh"
    /\ LET t == GenerateRefreshToken(call.app, call.claims, call.aud, call.root)
       IN  /\ tokens' = tokens \cup {t}
           /\ call' = [stage |-> "return", app |-> call.app, access |-> call.access]
    /\ seen' = NoRequest
    /\ UNCHANGED <<now, pair>>

Return ==
    /\ call.stage = "return"
    /\ pair' = [access |-> call.access, ExpiresAt |-> Unix(now + Seconds(Config[call.app].access))]
    /\ call' = Idle
    /\ seen' = NoRequest
    /\ UNCHANGED <<now, tokens>>

\* AuthMiddleware: 401, or the handler with the business claims in its context.
Request(app) ==
    /\ \/ seen' = NoToken
       \/ \E t \in tokens :
             LET r == ParseTyped(app, t, "access")
             IN  seen' = [by |-> app, token |-> t, now |-> now,
                          result |-> IF r = "ok" THEN "handled" ELSE r,
                          context |-> IF r = "ok" THEN extractBusinessClaims(t.claims) ELSE <<>>]
    /\ UNCHANGED <<now, tokens, call, pair>>

Tick ==
    /\ now < MaxNow
    /\ now' = now + 1
    /\ seen' = NoRequest
    /\ UNCHANGED <<tokens, call, pair>>

JNext ==
    \/ \E app \in Apps : Login(app) \/ Refresh(app) \/ Request(app)
    \/ MintAccess \/ MintRefresh \/ Return \/ Tick

JSpec == JInit /\ [][JNext]_jvars

-----------------------------------------------------------------------------
\* A token that was accepted at the time of the last request.
Accepted == seen.result \in {"handled", "refreshed"}

(* However often a session is refreshed, and by whichever of the            *)
(* applications that share the secret: a handler sees exactly the business  *)
(* claims of the login, of which sub is none; an application with an        *)
(* issuer accepts only what was made by one with the same issuer, or by one *)
(* without any whose own caller wrote that issuer into the claims; likewise *)
(* with audiences; and a refresh carries no caller's issuer or audience     *)
(* over (jwt.go, GenerateToken, ParseToken, RefreshToken).                  *)
SessionKept ==
    LET t == seen.token
        mine == Config[seen.by]
        maker == Config[t.by]
    IN  /\ seen.result = "handled" => seen.context = t.root
        /\ Accepted /\ mine.iss # "" =>
              mine.iss = IF maker.iss # "" THEN maker.iss ELSE t.given.iss
        /\ Accepted /\ mine.aud # {} =>
              mine.aud \cap (IF maker.aud # {} THEN maker.aud ELSE t.given.aud) # {}

(* validation_test.go:183 "a caller cannot disguise its own token as        *)
(* another application's token through claims": it can where the            *)
(* application has no issuer.                                               *)
Undisguised ==
    Accepted /\ Config[seen.by].iss # "" => Config[seen.token.by].iss = Config[seen.by].iss

(* A token is good for its lifetime, short of the second that a Unix time   *)
(* rounds off, and not an instant longer; and an access token opens no      *)
(* refresh, nor a refresh token a handler.                                  *)
LifetimeExact ==
    seen.result \notin {"none", "missing"} =>
        LET t == seen.token
            life == IF seen.result = "refreshed" \/ Claim(t.claims, "token_type") = "refresh"
                    THEN Config[t.by].refresh ELSE Config[t.by].access
            age == seen.now - t.at
        IN  /\ Accepted => age < Seconds(life)
            /\ seen.result = "handled" => t.exp = Unix(t.at + Seconds(Config[t.by].access))
                                          /\ Claim(t.claims, "token_type") = "access"
            /\ seen.result = "expired" => age > Seconds(life) - 2

(* config.go:45 "access token expiry as a Unix timestamp in seconds".       *)
ExpiresAtExact == pair # <<>> => pair.ExpiresAt = pair.access.exp

(* What Jwt promises.                                                       *)
TokensExact == SessionKept /\ LifetimeExact
=============================================================================
