------------------------------ MODULE AuthLogin ------------------------------
(***************************************************************************)
(* The auth service: a user is sent a one-time code, proves to have it,    *)
(* and gets an access and a refresh token for a device; the device renews  *)
(* its access token, logs out, or ends the sessions of other devices.      *)
(* The code, its attempts, the rate limits, the hash of the refresh token  *)
(* and the blacklist are Redis keys, the session of a device is a row of   *)
(* auth_sessions; every request touches them one after the other.          *)
(* A user is a phone number.  Codes are numbered as they are sent and      *)
(* tokens as they are signed: no two are alike.                            *)
(***************************************************************************)
EXTENDS Integers, FiniteSets, FiniteSetsExt, Sequences

CONSTANTS
  Users, Devices, IPs,
  Limit,        \* per layer of the rate limiter: requests in a window
  Slots,        \* requests the service handles at a time
  MaxSends, MaxTokens,   \* bounds on the codes sent and the tokens signed
  MaxEnds,      \* bound on the windows of rate limits that end
  MaxWrong,     \* bound on the wrong guesses per code
  None,
  Scenarios     \* sets of disturbances out of "overlap" (requests side by
                \* side), "expiry" (codes time out), "windows" (rate limits
                \* time out), "redis" and "db"; to bound a behaviour, "sends"
                \* and "guesses" leave it the requests up to those, and
                \* "sessions" leaves out wrong guesses

ASSUME AuthAssumption ==
  /\ Limit \in [1..5 -> Nat \ {0}]
  /\ MaxSends \in Nat /\ MaxTokens \in Nat /\ MaxWrong \in Nat /\ MaxEnds \in Nat
  /\ IsFiniteSet(Slots)

VARIABLES
  faults,     \* the disturbances of this behaviour
  counter,    \* the keys of the rate limiter, 0 when missing
  windows,    \* how many windows of each key have begun
  codes,      \* the codes sent so far: whom to and from which address
  code,       \* otp:{phone}: the code in force, or 0
  attempts,   \* otp_attempts:{phone}, 0 when missing
  stored,     \* refresh:{user}:{device}: the token whose hash it is, or 0
  session,    \* auth_sessions: "none", "active" or "loggedOut"
  blacklist,  \* tokens on the blacklist
  tokens,     \* the tokens handed out
  background, \* sessions a goroutine of Logout is about to mark
  pc,         \* per slot: the next step of its request, or "idle"
  req,        \* per slot: the request
  wrong,      \* history: wrong guesses compared with each code
  logins,     \* history: logins each code was good for
  ended,      \* history: tokens of a device at the time it was signed out
  closed,     \* history: devices that have been signed out
  revoked,    \* history: devices whose row RevokeSession has marked
  revived     \* history: tokens of ended renewed after that, and whether the
              \* request for it came after that, too

otpVars == <<counter, windows, codes, code, attempts, wrong, logins>>
sessionVars == <<stored, session, blacklist, tokens, background,
                 ended, closed, revoked, revived>>
vars == <<faults, otpVars, sessionVars, pc, req>>

Owners == Users \X Devices
Keys == ({1, 2} \X Users) \union ({3, 4} \X IPs) \union {<<5, None>>}
Codes == 1..MaxSends
Labels == {"idle", "limit", "store", "get", "count", "drop", "take", "forget", "spend",
           "upsert", "hash", "row", "active", "listed", "match", "black", "unhash",
           "revoke", "others", "unhashOthers"}
Token == [id : 1..MaxTokens, owner : Owners, use : {"access", "refresh"}]
Revival == [token : Token, late : BOOLEAN]

NoRequest == [kind |-> None]
Requests ==
  [kind : {"send"}, user : Users, ip : IPs]
    \union [kind : {"verify"}, user : Users, device : Devices, guess : 0..MaxSends]
    \union [kind : {"refresh"}, token : Token, late : BOOLEAN]
    \union [kind : {"logout", "revokeAll"}, token : Token]
    \union [kind : {"revoke"}, token : Token, device : Devices]

OtpOK ==
  /\ counter \in [Keys -> Nat] /\ windows \in [Keys -> Nat]
  /\ codes \in Seq(Users \X IPs) /\ Len(codes) <= MaxSends
  /\ code \in [Users -> 0..MaxSends] /\ attempts \in [Users -> Nat]
  /\ wrong \in [Codes -> Nat] /\ logins \in [Codes -> Nat]

HistoryOK ==
  /\ ended \subseteq tokens /\ revived \subseteq Revival
  /\ closed \subseteq Owners /\ revoked \subseteq Owners

SessionsOK ==
  /\ stored \in [Owners -> 0..MaxTokens]
  /\ session \in [Owners -> {"none", "active", "loggedOut"}]
  /\ blacklist \subseteq 1..MaxTokens
  /\ tokens \subseteq Token
  /\ background \subseteq Owners

RequestsOK ==
  /\ pc \in [Slots -> Labels]
  /\ req \in [Slots -> Requests \union {NoRequest}]

(* Type invariant: every variable keeps the shape of the state it models. *)
TypeOK == faults \in Scenarios /\ OtpOK /\ SessionsOK /\ HistoryOK /\ RequestsOK

Init ==
  /\ faults \in Scenarios
  /\ counter = [k \in Keys |-> 0] /\ windows = [k \in Keys |-> 1]
  /\ codes = <<>>
  /\ code = [u \in Users |-> 0] /\ attempts = [u \in Users |-> 0]
  /\ wrong = [c \in Codes |-> 0] /\ logins = [c \in Codes |-> 0]
  /\ stored = [o \in Owners |-> 0] /\ session = [o \in Owners |-> "none"]
  /\ blacklist = {} /\ tokens = {} /\ background = {}
  /\ ended = {} /\ closed = {} /\ revoked = {} /\ revived = {}
  /\ pc = [r \in Slots |-> "idle"] /\ req = [r \in Slots |-> NoRequest]

Goto(r, label) == pc' = [pc EXCEPT ![r] = label] /\ UNCHANGED <<req, faults>>
Done(r) ==
  /\ pc' = [pc EXCEPT ![r] = "idle"]
  /\ req' = [req EXCEPT ![r] = NoRequest]
  /\ UNCHANGED faults

RedisFails == "redis" \in faults
DBFails == "db" \in faults

-----------------------------------------------------------------------------
(* requireAuth: a token that was signed here and is not on the blacklist.  *)
RequireAuth(t) == t \in tokens /\ t.id \notin blacklist

(* What a behaviour of this scenario may ask for.                          *)
Expected(q) ==
  /\ "overlap" \in faults \/ \A s \in Slots : pc[s] = "idle"
  /\ "sends" \in faults => q.kind = "send"
  /\ "guesses" \in faults => q.kind \in {"send", "verify"}
  /\ "sessions" \in faults /\ q.kind = "verify" => q.guess = code[q.user]

Begin(r, q, label) ==
  /\ pc[r] = "idle" /\ Expected(q)
  /\ pc' = [pc EXCEPT ![r] = label]
  /\ req' = [req EXCEPT ![r] = q]
  /\ UNCHANGED <<faults, otpVars, sessionVars>>

(* The handlers. *)
SendOTP(r) ==
  \E u \in Users, ip \in IPs : Begin(r, [kind |-> "send", user |-> u, ip |-> ip], "limit")

(* The user guesses a code that was sent, or something else (0). *)
VerifyOTP(r) ==
  \E u \in Users, d \in Devices, g \in 0..Len(codes) :
    Begin(r, [kind |-> "verify", user |-> u, device |-> d, guess |-> g], "get")

(* The bearer of a refresh request is the refresh token itself; it is late *)
(* when the device has been signed out already.                            *)
Refresh(r) ==
  \E t \in tokens :
    /\ t.use = "refresh" /\ RequireAuth(t)
    /\ Begin(r, [kind |-> "refresh", token |-> t, late |-> t \in ended], "active")

Logout(r) ==
  \E t \in tokens : RequireAuth(t) /\ Begin(r, [kind |-> "logout", token |-> t], "black")

RevokeSession(r) ==
  \E t \in tokens, d \in Devices :
    RequireAuth(t) /\ Begin(r, [kind |-> "revoke", token |-> t, device |-> d], "revoke")

RevokeAllSessions(r) ==
  \E t \in tokens : RequireAuth(t) /\ Begin(r, [kind |-> "revokeAll", token |-> t], "others")

(* The router: the OTP requests are public, the others carry a token. *)
Route(r) ==
  \/ SendOTP(r) \/ VerifyOTP(r)
  \/ Refresh(r) \/ Logout(r) \/ RevokeSession(r) \/ RevokeAllSessions(r)

-----------------------------------------------------------------------------
(* The keys of the five layers.                                            *)
KeysOf(u, ip) == {<<1, u>>, <<2, u>>, <<3, ip>>, <<4, ip>>, <<5, None>>}

(* Mutant of BelowLimits: a window admits one request too many. *)
BelowLimitsOffByOne(u, ip) == \A k \in KeysOf(u, ip) : counter[k] <= Limit[k[1]]

(* The first loop of the Lua script, which runs as one command. *)
BelowLimits(u, ip) == \A k \in KeysOf(u, ip) : counter[k] < Limit[k[1]]

(* CheckRateLimit: refused by a layer, or counted in all five. *)
CheckRateLimit(r) ==
  /\ pc[r] = "limit"
  /\ LET q == req[r]
     IN \/ /\ BelowLimits(q.user, q.ip)
           /\ counter' = [k \in Keys |-> IF k \in KeysOf(q.user, q.ip)
                                           THEN counter[k] + 1 ELSE counter[k]]
           /\ Goto(r, "store")
        \/ /\ ~ BelowLimits(q.user, q.ip) \/ RedisFails
           /\ UNCHANGED counter
           /\ Done(r)
  /\ UNCHANGED <<windows, codes, code, attempts, wrong, logins, sessionVars>>

(* The pipeline: the new code in place of the old one, with no attempts.   *)
StoreCode(r) ==
  /\ pc[r] = "store" /\ Len(codes) < MaxSends
  /\ \/ /\ codes' = Append(codes, <<req[r].user, req[r].ip>>)
        /\ code' = [code EXCEPT ![req[r].user] = Len(codes')]
        /\ attempts' = [attempts EXCEPT ![req[r].user] = 0]
     \/ RedisFails /\ UNCHANGED <<codes, code, attempts>>
  /\ Done(r)
  /\ UNCHANGED <<counter, windows, wrong, logins, sessionVars>>

(* VerifyOTP reads the code in force and compares. *)
GetCode(r) ==
  /\ pc[r] = "get"
  /\ LET u == req[r].user
     IN \/ code[u] # 0 /\ req[r].guess = code[u] /\ Goto(r, "take") /\ UNCHANGED wrong
        \/ /\ code[u] # 0 /\ req[r].guess # code[u] /\ wrong[code[u]] < MaxWrong
           /\ wrong' = [wrong EXCEPT ![code[u]] = @ + 1]
           /\ Goto(r, "count")
        \/ (code[u] = 0 \/ RedisFails) /\ Done(r) /\ UNCHANGED wrong
  /\ UNCHANGED <<counter, windows, codes, code, attempts, logins, sessionVars>>

(* Mutant of CountAttempt: the third wrong guess is let off. *)
CountAttemptLenient(r) ==
  /\ pc[r] = "count"
  /\ attempts' = [attempts EXCEPT ![req[r].user] = @ + 1]
  /\ IF attempts'[req[r].user] > 3 THEN Goto(r, "drop") ELSE Done(r)
  /\ UNCHANGED <<counter, windows, codes, code, wrong, logins, sessionVars>>

(* INCR otp_attempts; the third wrong guess drops the code.  The error of  *)
(* INCR is ignored, its result is then 0.                                  *)
CountAttempt(r) ==
  /\ pc[r] = "count"
  /\ \/ /\ attempts' = [attempts EXCEPT ![req[r].user] = @ + 1]
        /\ IF attempts'[req[r].user] >= 3 THEN Goto(r, "drop") ELSE Done(r)
     \/ RedisFails /\ UNCHANGED attempts /\ Done(r)
  /\ UNCHANGED <<counter, windows, codes, code, wrong, logins, sessionVars>>

(* Mutant of DelCode: a code that was right stays in force. *)
DelCodeKeepsRight(r) ==
  /\ pc[r] \in {"drop", "take"}
  /\ code' = IF pc[r] = "take" THEN code ELSE [code EXCEPT ![req[r].user] = 0]
  /\ Goto(r, IF pc[r] = "take" THEN "spend" ELSE "forget")
  /\ UNCHANGED <<counter, windows, codes, attempts, wrong, logins, sessionVars>>

(* DEL otp, whichever code is in force by now; errors are ignored. *)
DelCode(r) ==
  /\ pc[r] \in {"drop", "take"}
  /\ code' = [code EXCEPT ![req[r].user] = 0] \/ (RedisFails /\ UNCHANGED code)
  /\ Goto(r, IF pc[r] = "take" THEN "spend" ELSE "forget")
  /\ UNCHANGED <<counter, windows, codes, attempts, wrong, logins, sessionVars>>

(* DEL otp_attempts; the handler goes on to CompleteLogin after a right    *)
(* guess.                                                                  *)
DelAttempts(r) ==
  /\ pc[r] \in {"forget", "spend"}
  /\ \/ attempts' = [attempts EXCEPT ![req[r].user] = 0]
     \/ RedisFails /\ UNCHANGED attempts
  /\ IF pc[r] = "spend" THEN Goto(r, "upsert") ELSE Done(r)
  /\ UNCHANGED <<counter, windows, codes, code, wrong, logins, sessionVars>>

-----------------------------------------------------------------------------
(* UpsertByPhone: the row of the user is there afterwards, or the login    *)
(* fails although its code is spent.                                       *)
UpsertUser(r) ==
  /\ pc[r] = "upsert"
  /\ Goto(r, "hash") \/ (DBFails /\ Done(r))
  /\ UNCHANGED <<otpVars, sessionVars>>

Signed == Cardinality(tokens)
NewToken(n, owner, use) == [id |-> n, owner |-> owner, use |-> use]

(* Mutant of StoreRefresh: one refresh token per user, whatever the device. *)
StoreRefreshPerUser(r) ==
  /\ pc[r] = "hash" /\ Signed + 2 <= MaxTokens
  /\ LET owner == <<req[r].user, req[r].device>>
     IN /\ stored' = [o \in Owners |->
                        IF o = owner THEN Signed + 2
                        ELSE IF o[1] = owner[1] THEN 0 ELSE stored[o]]
        /\ tokens' = tokens \union {NewToken(Signed + 1, owner, "access"),
                                   NewToken(Signed + 2, owner, "refresh")}
  /\ logins' = [logins EXCEPT ![req[r].guess] = @ + 1]
  /\ Goto(r, "row")
  /\ UNCHANGED <<counter, windows, codes, code, attempts, wrong, session, blacklist,
                 background, ended, closed, revoked, revived>>

(* Both tokens are signed and the hash of the refresh token is stored; the *)
(* login fails when it is not.                                             *)
StoreRefresh(r) ==
  /\ pc[r] = "hash" /\ Signed + 2 <= MaxTokens
  /\ \/ LET owner == <<req[r].user, req[r].device>>
        IN /\ stored' = [stored EXCEPT ![owner] = Signed + 2]
           /\ tokens' = tokens \union {NewToken(Signed + 1, owner, "access"),
                                      NewToken(Signed + 2, owner, "refresh")}
           /\ logins' = [logins EXCEPT ![req[r].guess] = @ + 1]
           /\ Goto(r, "row")
     \/ RedisFails /\ Done(r) /\ UNCHANGED <<stored, tokens, logins>>
  /\ UNCHANGED <<counter, windows, codes, code, attempts, wrong, session, blacklist,
                 background, ended, closed, revoked, revived>>

(* CreateSession: a row that is there keeps its logged_out_at.  A failure  *)
(* is logged and the tokens are handed out.                                *)
CreateSession(r) ==
  /\ pc[r] = "row"
  /\ LET owner == <<req[r].user, req[r].device>>
     IN \/ session' = [session EXCEPT ![owner] = IF @ = "none" THEN "active" ELSE @]
        \/ DBFails /\ UNCHANGED session
  /\ Done(r)
  /\ UNCHANGED <<otpVars, stored, blacklist, tokens, background,
                 ended, closed, revoked, revived>>

-----------------------------------------------------------------------------
(* RefreshAccessToken: HasActiveSession, *)
HasActiveSession(r) ==
  /\ pc[r] = "active"
  /\ \/ session[req[r].token.owner] = "active" /\ Goto(r, "listed")
     \/ (session[req[r].token.owner] # "active" \/ DBFails) /\ Done(r)
  /\ UNCHANGED <<otpVars, sessionVars>>

(* the blacklist, *)
IsBlacklisted(r) ==
  /\ pc[r] = "listed"
  /\ \/ req[r].token.id \notin blacklist /\ Goto(r, "match")
     \/ (req[r].token.id \in blacklist \/ RedisFails) /\ Done(r)
  /\ UNCHANGED <<otpVars, sessionVars>>

(* Mutant of RefreshAccessToken: the row and the blacklist will do. *)
RefreshUnmatched(r) ==
  /\ pc[r] = "match" /\ Signed < MaxTokens
  /\ LET t == req[r].token
     IN /\ tokens' = tokens \union {NewToken(Signed + 1, t.owner, "access")}
        /\ revived' = revived \union
             {[token |-> v, late |-> req[r].late] : v \in {t} \intersect ended}
  /\ Done(r)
  /\ UNCHANGED <<otpVars, stored, session, blacklist, background, ended, closed, revoked>>

(* and the stored hash, each asked once, then a new access token.          *)
RefreshAccessToken(r) ==
  /\ pc[r] = "match" /\ Signed < MaxTokens
  /\ LET t == req[r].token
     IN \/ /\ stored[t.owner] = t.id
           /\ tokens' = tokens \union {NewToken(Signed + 1, t.owner, "access")}
           /\ revived' = revived \union
                {[token |-> v, late |-> req[r].late] : v \in {t} \intersect ended}
        \/ (stored[t.owner] # t.id \/ RedisFails) /\ UNCHANGED <<tokens, revived>>
  /\ Done(r)
  /\ UNCHANGED <<otpVars, stored, session, blacklist, background, ended, closed, revoked>>

(* Logout: the token presented goes on the blacklist, *)
BlacklistToken(r) ==
  /\ pc[r] = "black"
  /\ \/ blacklist' = blacklist \union {req[r].token.id} /\ Goto(r, "unhash")
     \/ RedisFails /\ UNCHANGED blacklist /\ Done(r)
  /\ UNCHANGED <<otpVars, stored, session, tokens, background,
                 ended, closed, revoked, revived>>

SignOut(owners) ==
  /\ ended' = ended \union {t \in tokens : t.owner \in owners}
  /\ closed' = closed \union owners

(* Mutant of DeleteRefresh: left to the update of the row. *)
DeleteRefreshLater(r) ==
  /\ pc[r] = "unhash"
  /\ background' = background \union {req[r].token.owner}
  /\ SignOut({req[r].token.owner})
  /\ Done(r)
  /\ UNCHANGED <<otpVars, stored, session, blacklist, tokens, revoked, revived>>

(* the hash is deleted, the error ignored, and a goroutine started for the *)
(* row.                                                                    *)
DeleteRefresh(r) ==
  /\ pc[r] = "unhash"
  /\ LET owner == req[r].token.owner
     IN /\ \/ stored' = [stored EXCEPT ![owner] = 0]
           \/ RedisFails /\ UNCHANGED stored
        /\ background' = background \union {owner}
        /\ SignOut({owner})
  /\ Done(r)
  /\ UNCHANGED <<otpVars, session, blacklist, tokens, revoked, revived>>

(* Mutant of LoggedOut: the row is deleted, not marked. *)
LoggedOutByDelete(owners) ==
  session' = [o \in Owners |-> IF o \in owners THEN "deleted" ELSE session[o]]

(* logged_out_at of the active rows among these is set. *)
LoggedOut(owners) ==
  session' = [o \in Owners |-> IF o \in owners /\ session[o] = "active"
                                 THEN "loggedOut" ELSE session[o]]

(* LogoutSession, in the background; it may fail. *)
LogoutSession(o) ==
  /\ o \in background
  /\ background' = background \ {o}
  /\ LoggedOut({o}) \/ (DBFails /\ UNCHANGED session)
  /\ UNCHANGED <<faults, otpVars, stored, blacklist, tokens, ended, closed, revoked, revived,
                 pc, req>>

(* RevokeSession: an active session of the caller's own; the hash stays.   *)
RevokeRow(r) ==
  /\ pc[r] = "revoke"
  /\ LET owner == <<req[r].token.owner[1], req[r].device>>
     IN \/ /\ session[owner] = "active"
           /\ LoggedOut({owner}) /\ SignOut({owner})
           /\ revoked' = revoked \union {owner}
        \/ /\ session[owner] # "active" \/ DBFails
           /\ UNCHANGED <<session, ended, closed, revoked>>
  /\ Done(r)
  /\ UNCHANGED <<otpVars, stored, blacklist, tokens, background, revived>>

Others(owner) == {o \in Owners : o[1] = owner[1] /\ o # owner}

(* RevokeAllSessions: the rows of the caller's other devices, *)
RevokeOtherRows(r) ==
  /\ pc[r] = "others"
  /\ \/ LoggedOut(Others(req[r].token.owner)) /\ Goto(r, "unhashOthers")
     \/ DBFails /\ UNCHANGED session /\ Done(r)
  /\ UNCHANGED <<otpVars, stored, blacklist, tokens, background,
                 ended, closed, revoked, revived>>

(* then SCAN refresh:{user}:* and a DEL per key: a key is found and        *)
(* deleted, or the error is dropped.                                       *)
DeleteOtherRefreshes(r) ==
  /\ pc[r] = "unhashOthers"
  /\ LET others == Others(req[r].token.owner)
     IN /\ \E missed \in IF RedisFails THEN SUBSET others ELSE {{}} :
             stored' = [o \in Owners |-> IF o \in others \ missed THEN 0 ELSE stored[o]]
        /\ SignOut(others)
  /\ Done(r)
  /\ UNCHANGED <<otpVars, session, blacklist, tokens, background, revoked, revived>>

-----------------------------------------------------------------------------
(* Ten minutes later.  The attempts are written after the code and time    *)
(* out after it.                                                           *)
CodeExpires(u) ==
  /\ "expiry" \in faults
  /\ \/ code[u] # 0 /\ code' = [code EXCEPT ![u] = 0] /\ UNCHANGED attempts
     \/ /\ code[u] = 0 /\ attempts[u] # 0
        /\ attempts' = [attempts EXCEPT ![u] = 0] /\ UNCHANGED code
  /\ UNCHANGED <<faults, counter, windows, codes, wrong, logins, sessionVars, pc, req>>

(* The window of a key ends: EXPIRE was set when it was first counted. *)
WindowEnds(k) ==
  /\ "windows" \in faults /\ counter[k] > 0
  /\ MapThenSumSet(LAMBDA j : windows[j] - 1, Keys) < MaxEnds
  /\ counter' = [counter EXCEPT ![k] = 0]
  /\ windows' = [windows EXCEPT ![k] = @ + 1]
  /\ UNCHANGED <<faults, codes, code, attempts, wrong, logins, sessionVars, pc, req>>

Serve(r) ==
  \/ CheckRateLimit(r) \/ StoreCode(r)
  \/ GetCode(r) \/ CountAttempt(r) \/ DelCode(r) \/ DelAttempts(r)
  \/ UpsertUser(r) \/ StoreRefresh(r) \/ CreateSession(r)
  \/ HasActiveSession(r) \/ IsBlacklisted(r) \/ RefreshAccessToken(r)
  \/ BlacklistToken(r) \/ DeleteRefresh(r)
  \/ RevokeRow(r) \/ RevokeOtherRows(r) \/ DeleteOtherRefreshes(r)

Next ==
  \/ \E r \in Slots : Route(r) \/ Serve(r)
  \/ \E o \in Owners : LogoutSession(o)
  \/ \E u \in Users : CodeExpires(u)
  \/ \E k \in Keys : WindowEnds(k)

Spec == Init /\ [][Next]_vars

-----------------------------------------------------------------------------
(* The rate limits: the codes sent under a key never exceed its limit in   *)
(* each of its windows, however requests run side by side.                 *)
SentUnder(k) == {i \in DOMAIN codes : k \in KeysOf(codes[i][1], codes[i][2])}
SendsKeepTheLimits ==
  \A k \in Keys : Cardinality(SentUnder(k)) <= Limit[k[1]] * windows[k]

(* "One-time use": a code is good for one login, unless Redis fails to     *)
(* drop it or two requests compare it before either drops it.              *)
CodeLogsInOnce ==
  faults \intersect {"overlap", "redis"} = {} => \A c \in Codes : logins[c] <= 1

(* "Force re-send": a code survives two wrong guesses and no third one,    *)
(* unless Redis fails to count or guesses overlap.                         *)
WrongGuessesAreLimited ==
  faults \intersect {"overlap", "redis"} = {} => \A c \in Codes : wrong[c] <= 3

(* What RefreshAccessToken asks of a refresh token.                        *)
CanRefresh(t) ==
  /\ session[t.owner] = "active" /\ t.id \notin blacklist /\ stored[t.owner] = t.id

(* Once a device has been signed out, none of the tokens it had then can   *)
(* renew an access token, and no request made with one after that signs    *)
(* any, however requests overlap and also before the row is updated in the *)
(* background.  A request that was under way at the time may still sign    *)
(* one where RevokeSession ended the session, which marks the row and      *)
(* leaves the hash; a logout and RevokeAllSessions stop it, too.           *)
SignedOutCannotRefresh ==
  "redis" \notin faults =>
    /\ \A t \in ended : ~ CanRefresh(t)
    /\ \A v \in revived : ~ v.late /\ v.token.owner \in revoked

(* A device that has never been signed out can renew its access token with *)
(* the refresh token of its latest login, whatever its other devices do.   *)
(* (After a sign-out no login of that device can: its row stays logged     *)
(* out.)                                                                   *)
Latest(o) == {t \in tokens : /\ t.owner = o /\ t.use = "refresh"
                             /\ \A v \in tokens : v.owner = o /\ v.use = "refresh" => v.id <= t.id}
HalfWay(o) ==
  \E r \in Slots :
    \/ pc[r] = "row" /\ <<req[r].user, req[r].device>> = o
    \/ pc[r] = "unhash" /\ req[r].token.owner = o
    \/ pc[r] = "unhashOthers" /\ o \in Others(req[r].token.owner)
LatestLoginCanRefresh ==
  faults \intersect {"redis", "db"} = {} =>
    \A o \in Owners \ closed : ~ HalfWay(o) => \A t \in Latest(o) : CanRefresh(t)

(* A code is sent no more often, guessed no more often and used no more    *)
(* often than its limits say.                                              *)
CodesAreLimited == SendsKeepTheLimits /\ CodeLogsInOnce /\ WrongGuessesAreLimited

(* Signing devices out ends the sessions it names for good and leaves the  *)
(* others alone.                                                           *)
SignOutIsExact == SignedOutCannotRefresh /\ LatestLoginCanRefresh
=============================================================================
