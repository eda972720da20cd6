------------------------------ MODULE WebGate ------------------------------
(***************************************************************************)
(* The way of a request through a web application: what build_app accepts  *)
(* and assembles (adapters/web/_adapter.py), the paths that are public,    *)
(* and the verification of tokens with keys that are addressed by `kid`    *)
(* and rotate (starters/jwt).  The issuer and the application's            *)
(* JwtKeyProvider are external; a path is the sequence of its segments.    *)
(***************************************************************************)
EXTENDS Integers, Sequences, SequencesExt

CONSTANTS
  JwtSetups,     \* what configure_jwt was given: records, see NoJwt
  WebPaths,      \* what is asked for: <<path as its segments, is it a WebSocket>>
  HealthPath,    \* what configure_health names
  IssuerKeys,    \* 1 .. n: the issuer's keys, in the order of their use
  TokenLife,     \* how long a token is valid
  Leeway,        \* JwtMiddlewareConfig.leeway
  MaxTokenClock  \* bound: the issuer's clock

Stranger == 0                        \* a key that nobody trusts
NoToken == [kid |-> FALSE, key |-> Stranger, exp |-> 0, aud |-> FALSE, sub |-> FALSE]
Pattern(s, w) == [segments |-> s, star |-> w]   \* w: "none", "tail", "elsewhere"
NoJwt == [source |-> "off", public |-> {}, health |-> FALSE, dead |-> {}]

ASSUME GateAssumption == IssuerKeys \subseteq Nat \ {Stranger} /\ TokenLife \in Nat /\ Leeway \in Nat

VARIABLES
  jwtSetup,  \* the configuration of this application; `dead` are keys without material
  app,       \* "new", "refused", "serving"
  issuer,    \* the key it signs with, and those it has published
  keyring,   \* what the provider returns, in order, for a token without kid
  issued,    \* history: <<key, expiry>> of the tokens there are
  tokenTime, \* the time of issuer and process
  visit      \* the request that was just let in or turned away, which is one step
             \* without an await

gateVars == <<jwtSetup, app, issuer, keyring, issued, tokenTime, visit>>

NoVisit == [at |-> "none", path |-> <<>>, ws |-> FALSE, token |-> NoToken]

GateInit ==
  /\ jwtSetup \in JwtSetups /\ app = "new"
  /\ issuer = [current |-> 1, published |-> {1}] /\ keyring = <<1>>
  /\ issued = {} /\ tokenTime = 0 /\ visit = NoVisit

Between == visit.at = "none" /\ app = "serving"

----------------------------------------------------------------------------
(* Configuration                                                           *)

(* split_public_paths: one trailing "/*", and not of everything            *)
PatternAllowed(p) == p.star \in {"none", "tail"} /\ (p.star = "tail" => p.segments # <<>>)

(* _add_jwt_middleware: one source of keys, neither none nor two           *)
SetupAllowed ==
  jwtSetup.source # "off" =>
    jwtSetup.source \in {"static", "provider"} /\ \A p \in jwtSetup.public : PatternAllowed(p)

(* public_health_paths: they join the list of the middleware, not the list *)
(* that the WebSocket registrar reads                                      *)
PublicPatterns(ws) ==
  jwtSetup.public \union IF jwtSetup.health /\ ~ws THEN {Pattern(HealthPath, "none")} ELSE {}

(* path_is_public, after normalize_path                                    *)
PathIsPublic(path, ws) ==
  \E p \in PublicPatterns(ws) :
    IF p.star = "tail" THEN IsPrefix(p.segments, path) ELSE path = p.segments

BuildApp ==
  /\ app = "new"
  /\ app' = IF SetupAllowed THEN "serving" ELSE "refused"
  /\ UNCHANGED <<jwtSetup, issuer, keyring, issued, tokenTime, visit>>

----------------------------------------------------------------------------
(* Issuer and provider                                                     *)

IssueToken ==
  /\ Between
  /\ issued' = issued \union {<<issuer.current, tokenTime + TokenLife>>}
  /\ UNCHANGED <<jwtSetup, app, issuer, keyring, tokenTime, visit>>

PublishKey(k) ==
  /\ Between
  /\ k \in IssuerKeys \ issuer.published /\ k = issuer.current + 1
  /\ issuer' = [issuer EXCEPT !.published = @ \union {k}]
  /\ UNCHANGED <<jwtSetup, app, keyring, issued, tokenTime, visit>>

(* The provider reads what is published; the newest key comes first        *)
RefreshKeys ==
  /\ Between
  /\ \E ring \in [1 .. Cardinality(issuer.published) -> issuer.published] :
       /\ ToSet(ring) = issuer.published
       /\ \A i, j \in DOMAIN ring : i < j => ring[i] > ring[j]
       /\ keyring' = ring
  /\ UNCHANGED <<jwtSetup, app, issuer, issued, tokenTime, visit>>

(* A rotation that overlaps: a key is used once the providers have it, and *)
(* withdrawn when the last token that it signed has expired                *)
UseNextKey ==
  /\ Between
  /\ issuer.current + 1 \in ToSet(keyring)
  /\ issuer' = [issuer EXCEPT !.current = @ + 1]
  /\ UNCHANGED <<jwtSetup, app, keyring, issued, tokenTime, visit>>

WithdrawKey(k) ==
  /\ Between
  /\ k \in issuer.published /\ k < issuer.current
  /\ \A t \in issued : t[1] = k => t[2] + Leeway <= tokenTime
  /\ issuer' = [issuer EXCEPT !.published = @ \ {k}]
  /\ UNCHANGED <<jwtSetup, app, keyring, issued, tokenTime, visit>>

TimePasses ==
  /\ Between
  /\ tokenTime < MaxTokenClock /\ tokenTime' = tokenTime + 1
  /\ UNCHANGED <<jwtSetup, app, issuer, keyring, issued, visit>>

----------------------------------------------------------------------------
(* JwtAuthenticator.candidate_keys: a static key is asked without reading  *)
(* the header; a provider answers a kid with that key and nothing else     *)
CandidateKeys(t) ==
  IF jwtSetup.source = "static" THEN <<1>>
  ELSE IF ~t.kid THEN keyring
  ELSE IF t.key \in ToSet(keyring) THEN <<t.key>> ELSE <<>>

(* PyJwtTokenVerifier.verify: one key.  The signature comes first, then    *)
(* the expiry, then the audience; a key without material is a ValueError,  *)
(* which nobody catches                                                    *)
TryKey(t, k) ==
  IF k \in jwtSetup.dead THEN "crash"
  ELSE IF t.key # k THEN "refused"
  ELSE IF t.exp <= tokenTime - Leeway THEN "expired"
  ELSE IF ~t.aud THEN "refused" ELSE "ok"

(* JwtAuthenticator.verify: the first key that fits, or the error that     *)
(* says most                                                               *)
VerifyByFirstError(t) ==                                                  \* mutant
  LET keys == CandidateKeys(t)
      Ends(i) == TryKey(t, keys[i]) \in {"ok", "crash"}
  IN IF \E i \in DOMAIN keys : Ends(i)
     THEN TryKey(t, keys[CHOOSE i \in DOMAIN keys : Ends(i) /\ \A j \in 1 .. i - 1 : ~Ends(j)])
     ELSE IF keys = <<>> THEN "refused" ELSE TryKey(t, keys[1])
VerifyToken(t) ==
  LET keys == CandidateKeys(t)
      Ends(i) == TryKey(t, keys[i]) \in {"ok", "crash"}
  IN IF \E i \in DOMAIN keys : Ends(i)
     THEN TryKey(t, keys[CHOOSE i \in DOMAIN keys : Ends(i) /\ \A j \in 1 .. i - 1 : ~Ends(j)])
     ELSE IF \E i \in DOMAIN keys : TryKey(t, keys[i]) = "expired" THEN "expired" ELSE "refused"

Token(kid, k, e, aud, sub) == [kid |-> kid, key |-> k, exp |-> e, aud |-> aud, sub |-> sub]
LastExpiry == MaxTokenClock + TokenLife
Presentable ==
  {NoToken} \union {Token(kid, Stranger, 1, TRUE, TRUE) : kid \in BOOLEAN}
  \union {Token(kid, k, e, TRUE, TRUE) : kid \in BOOLEAN, k \in IssuerKeys, e \in 1 .. LastExpiry}
  \union {Token(TRUE, k, e, aud, ~aud) : k \in IssuerKeys, e \in 1 .. LastExpiry, aud \in BOOLEAN}

(* A token that exists: the issuer's, or one that somebody else signed     *)
Exists(t) == t = NoToken \/ t.key = Stranger \/ <<t.key, t.exp>> \in issued

(* What the middleware, or the registrar, makes of a request               *)
Admission(path, ws, t) ==
  IF jwtSetup.source = "off" \/ PathIsPublic(path, ws) THEN "anonymous"
  ELSE IF t = NoToken THEN "refused"
  ELSE IF VerifyToken(t) = "ok" /\ ~t.sub THEN "refused" ELSE VerifyToken(t)

Arrives(path, ws, t) ==
  /\ Between /\ Exists(t)
  /\ visit' = [at |-> Admission(path, ws, t), path |-> path, ws |-> ws, token |-> t]
  /\ UNCHANGED <<jwtSetup, app, issuer, keyring, issued, tokenTime>>

RequestArrives(path, t) == Arrives(path, FALSE, t)

(* A handshake does not pass the middleware; the registrar asks the same   *)
(* authenticator before the handler is entered                             *)
HandshakeArrives(path, t) == Arrives(path, TRUE, t)

(* the `finally` of RequestContextMiddleware                               *)
RequestEnds ==
  /\ visit.at # "none" /\ visit' = NoVisit
  /\ UNCHANGED <<jwtSetup, app, issuer, keyring, issued, tokenTime>>

GateNext ==
  \/ BuildApp \/ IssueToken \/ RefreshKeys \/ UseNextKey \/ TimePasses \/ RequestEnds
  \/ \E k \in IssuerKeys : PublishKey(k) \/ WithdrawKey(k)
  \/ \E p \in WebPaths, t \in Presentable :
       IF p[2] THEN HandshakeArrives(p[1], t) ELSE RequestArrives(p[1], t)

GateSpec == GateInit /\ [][GateNext]_gateVars

----------------------------------------------------------------------------
GateTypeOK ==
  /\ app \in {"new", "refused", "serving"} /\ tokenTime \in 0 .. MaxTokenClock
  /\ issuer.current \in IssuerKeys /\ issuer.published \subseteq IssuerKeys
  /\ ToSet(keyring) \subseteq IssuerKeys /\ visit.token \in Presentable

\* A rotation that overlaps is seamless: while keys are published before they are
\* used and withdrawn after their last token, no request with a valid token is
\* turned away, with or without a kid, unless a key without material is tried first
\* ("the framework tries each until a signature verifies, which is what makes an
\* overlapping rotation seamless", starters/jwt/_provider.py:119-121).
ValidTokensPass ==
  LET t == visit.token
  IN visit.at \notin {"none", "anonymous", "crash"} /\ t.key # Stranger /\ t.aud /\ t.sub
       /\ t.exp > tokenTime - Leeway /\ (jwtSetup.source = "provider" \/ t.key = 1)
     => visit.at = "ok"

\* Who is served as somebody presented a token of the issuer for this service, in
\* time; and who presented one too late is told so, not that its signature is wrong,
\* whatever other keys were tried (_authenticator.py:77-108).
OnlyValidTokensPass ==
  LET t == visit.token
  IN /\ visit.at = "ok" => t.key # Stranger /\ t.aud /\ t.sub /\ t.exp > tokenTime - Leeway
     /\ visit.at = "refused" /\ t # NoToken /\ t.exp <= tokenTime - Leeway
          => t.key \notin ToSet(CandidateKeys(t))
     /\ visit.at = "expired" => t.exp <= tokenTime - Leeway /\ t.key \in ToSet(CandidateKeys(t))

\* The probes of the load balancer need no token, on any application that started.
ProbesAreOpen ==
  visit.at # "none" /\ jwtSetup.health /\ visit.path = HealthPath /\ ~visit.ws
    => visit.at = "anonymous"

GateIsSound == ValidTokensPass /\ OnlyValidTokensPass /\ ProbesAreOpen
=============================================================================
