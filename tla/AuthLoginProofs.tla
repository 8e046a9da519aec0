--------------------------- MODULE AuthLoginProofs ---------------------------
(***************************************************************************)
(* The auth service, for any users, devices, addresses and limits: its     *)
(* codes are sent, guessed and used no more often than their limits say,   *)
(* and a device that was signed out stays signed out while the others stay *)
(* signed in.  Last what it computes without state: a list of keys of any  *)
(* length can be rotated without refusing a token, one bare key fits every *)
(* service, a newer app is not asked to update before an older one, and a  *)
(* user is shown the devices signed in.                                    *)
(***************************************************************************)
EXTENDS AuthLogin, AuthViews, FiniteSetTheorems, SequenceTheorems, WellFoundedInduction,
        TLAPS

(* Tokens are numbered in the order they are signed, no two alike.         *)
TokensAreNumbered ==
  /\ IsFiniteSet(tokens)
  /\ \A t \in tokens : t.id <= Signed
  /\ \A t, v \in tokens : t.id = v.id => t = v
  /\ \A i \in blacklist : i <= Signed

(* A request has what its step needs, and a code that was compared and     *)
(* found right is one that was sent to the user.                           *)
Sends == [kind : {"send"}, user : Users, ip : IPs]
Verifies == [kind : {"verify"}, user : Users, device : Devices, guess : 0..MaxSends]
Refreshes == [kind : {"refresh"}, token : Token, late : BOOLEAN]
Refreshing == {"active", "listed", "match"}
Serving(r) ==
  /\ pc[r] \in {"limit", "store"} => req[r] \in Sends
  /\ pc[r] \in {"get", "count", "drop", "forget", "take", "spend", "upsert", "hash", "row"}
       => req[r] \in Verifies
  /\ pc[r] \in {"take", "spend", "upsert", "hash", "row"}
       => /\ req[r].guess \in 1..Len(codes)
          /\ codes[req[r].guess][1] = req[r].user
  /\ pc[r] \in {"active", "listed", "match", "black", "unhash", "revoke", "others",
                 "unhashOthers"} => req[r].token \in tokens
  /\ pc[r] \in Refreshing => req[r] \in Refreshes
  /\ pc[r] = "revoke" => req[r].device \in Devices

(* The code in force was sent to the user; what was not sent is not used.  *)
CodesAreSent ==
  /\ \A u \in Users : code[u] # 0 => code[u] <= Len(codes) /\ codes[code[u]][1] = u
  /\ \A c \in Codes : c > Len(codes) => logins[c] = 0 /\ wrong[c] = 0

(* Types, numbering and what the requests in progress hold: the base of    *)
(* the other invariants.                                                   *)
BInv ==
  /\ TypeOK /\ TokensAreNumbered /\ CodesAreSent
  /\ \A r \in Slots : Serving(r)

(* The rate limits.  A request that the limiter let through and that has   *)
(* not stored its code yet counts as sent; the windows that ended are full *)
(* at most.                                                                *)
Storing(k) == {r \in Slots : pc[r] = "store" /\ k \in KeysOf(req[r].user, req[r].ip)}
Counted(k) ==
  /\ windows[k] >= 1 /\ counter[k] <= Limit[k[1]]
  /\ Cardinality(SentUnder(k)) + Cardinality(Storing(k))
       <= Limit[k[1]] * (windows[k] - 1) + counter[k]
RInv == \A k \in Keys : Counted(k)

(* Without overlap at most one request is served at a time. *)
InTurn == \A r, s \in Slots : pc[r] # "idle" /\ pc[s] # "idle" => r = s

(* One login per code: the code in force has not been used, a code that    *)
(* was found right is out of force before its login is counted.            *)
Fresh(r) ==
  /\ pc[r] \in {"take", "spend", "upsert", "hash"} => logins[req[r].guess] = 0
  /\ pc[r] \in {"spend", "upsert", "hash"} => \A u \in Users : code[u] # req[r].guess
OInv ==
  /\ \A c \in Codes : logins[c] <= 1
  /\ \A u \in Users : code[u] # 0 => logins[code[u]] = 0
  /\ \A r \in Slots : Fresh(r)

(* Three guesses per code: every wrong guess at the code in force has been *)
(* counted, or its request is about to count it or to drop the code.       *)
BeingCounted(u) == \E r \in Slots : pc[r] \in {"count", "drop"} /\ req[r].user = u
Guessed(u) ==
  code[u] # 0 => BeingCounted(u) \/ (wrong[code[u]] <= 2 /\ wrong[code[u]] <= attempts[u])
Counting(r) ==
  /\ pc[r] = "count" /\ code[req[r].user] # 0
       => wrong[code[req[r].user]] <= attempts[req[r].user] + 1
  /\ pc[r] \in {"forget", "spend"} => code[req[r].user] = 0
GInv ==
  /\ \A c \in Codes : wrong[c] <= 3
  /\ \A u \in Users : Guessed(u)
  /\ \A r \in Slots : Counting(r)

(* One login and three guesses, under the conditions of CodesAreLimited. *)
TurnInv ==
  /\ "overlap" \notin faults => InTurn
  /\ faults \intersect {"overlap", "redis"} = {} => OInv /\ GInv

(* A token of a device that was signed out is no longer stored (the hash   *)
(* alone is gone until the goroutine of Logout has run), or RevokeSession  *)
(* has marked the row of the device.                                       *)
Marked(o) == session[o] = "loggedOut" /\ o \in revoked
EndedIsDropped ==
  "redis" \notin faults => \A t \in ended : Marked(t.owner) \/ stored[t.owner] # t.id

(* A late request that got past the row, which was active then, carries a  *)
(* token that is no longer stored and never will be again.                 *)
Stopped(r) ==
  "redis" \notin faults /\ pc[r] \in Refreshing /\ req[r].late =>
    /\ req[r].token \in ended
    /\ pc[r] # "active" => stored[req[r].token.owner] # req[r].token.id
LateInv ==
  /\ \A r \in Slots : Stopped(r)
  /\ "redis" \notin faults => \A v \in revived : ~ v.late /\ v.token.owner \in revoked

(* What LatestLoginCanRefresh rests on.  Everything that takes a session   *)
(* from a device (a hash deleted, a row marked, a token blacklisted) is    *)
(* the work of a sign-out of that device that has happened or is half way; *)
(* everything a login hands out is backed by a hash and a row.             *)
At(label, o) == \E r \in Slots : pc[r] = label /\ req[r].token.owner = o
LatestIsStored == \A o \in Owners \ closed : \A t \in Latest(o) : stored[o] = t.id
BackgroundIsClosed == background \subseteq closed
LoggedOutIsClosed ==
  \A o \in Owners : session[o] = "loggedOut" =>
    o \in closed \/ \E r \in Slots : pc[r] = "unhashOthers" /\ o \in Others(req[r].token.owner)
OwnerHasRow ==
  "db" \notin faults =>
    \A t \in tokens : session[t.owner] = "none" =>
      \E r \in Slots : pc[r] = "row" /\ <<req[r].user, req[r].device>> = t.owner
BlackIsClosed ==
  \A t \in tokens : t.id \in blacklist => t.owner \in closed \/ At("unhash", t.owner)
SInv ==
  /\ LatestIsStored /\ BackgroundIsClosed /\ LoggedOutIsClosed /\ OwnerHasRow /\ BlackIsClosed
ExactInv == EndedIsDropped /\ SInv

-----------------------------------------------------------------------------
(* A request gets its step, or goes on to the next one, or ends. *)
LEMMA Moved ==
  ASSUME TypeOK, NEW r \in Slots, NEW label \in Labels,
         NEW q \in Requests \union {NoRequest},
         pc' = [pc EXCEPT ![r] = label],
         req' = req \/ req' = [req EXCEPT ![r] = q]
  PROVE  pc' \in [Slots -> Labels] /\ req' \in [Slots -> Requests \union {NoRequest}]
BY DEF TypeOK, RequestsOK

LEMMA HistoryStays ==
  ASSUME HistoryOK, tokens \subseteq tokens', UNCHANGED <<ended, closed, revoked, revived>>
  PROVE  HistoryOK'
BY DEF HistoryOK

LEMMA OtpSame == OtpOK /\ UNCHANGED otpVars => OtpOK'
BY DEF OtpOK, otpVars

LEMMA SessionsSame ==
  SessionsOK /\ HistoryOK /\ UNCHANGED sessionVars => SessionsOK' /\ HistoryOK'
BY DEF SessionsOK, HistoryOK, sessionVars

LEMMA OwnerType ==
  ASSUME TypeOK, NEW t \in tokens
  PROVE  /\ t \in Token /\ t.owner \in Owners /\ t.id \in 1..MaxTokens
         /\ t.owner[1] \in Users /\ t.owner[2] \in Devices
BY DEF TypeOK, SessionsOK, Token, Owners

LEMMA SignedIsNat ==
  ASSUME TokensAreNumbered
  PROVE  Signed \in Nat
BY FS_CardinalityType DEF TokensAreNumbered, Signed

(* The two tokens of a login are the next two numbers. *)
LEMMA SignOne ==
  ASSUME TypeOK, TokensAreNumbered, NEW o \in Owners, NEW use \in {"access", "refresh"},
         Signed + 1 <= MaxTokens,
         tokens' = tokens \union {NewToken(Signed + 1, o, use)}
  PROVE  /\ tokens' \subseteq Token /\ IsFiniteSet(tokens')
         /\ Signed' = Signed + 1
         /\ \A t \in tokens' : t.id <= Signed + 1
         /\ \A t, v \in tokens' : t.id = v.id => t = v
<1> DEFINE new == NewToken(Signed + 1, o, use)
<1>1. Signed \in Nat /\ MaxTokens \in Nat
  BY SignedIsNat, AuthAssumption
<1>2. new \in Token /\ new.id = Signed + 1
  BY <1>1 DEF NewToken, Token
<1>3. \A t \in tokens : t.id \in 1..MaxTokens /\ t.id <= Signed
  BY OwnerType DEF TokensAreNumbered
<1>4. new \notin tokens
  BY <1>1, <1>2, <1>3
<1>5. IsFiniteSet(tokens') /\ Signed' = Signed + 1
  BY <1>4, FS_AddElement DEF TokensAreNumbered, Signed
<1> HIDE DEF new
<1>6. tokens' = tokens \union {new}
  BY DEF new
<1>7. tokens' \subseteq Token
  BY <1>2, <1>6 DEF TypeOK, SessionsOK
<1>8. \A t \in tokens' : t.id <= Signed + 1
  BY <1>1, <1>2, <1>3, <1>6
<1>9. \A t, v \in tokens' : t.id = v.id => t = v
  BY <1>1, <1>2, <1>3, <1>6 DEF TokensAreNumbered
<1> QED
  BY <1>5, <1>7, <1>8, <1>9

LEMMA SignTwo ==
  ASSUME TypeOK, TokensAreNumbered, NEW o \in Owners, Signed + 2 <= MaxTokens,
         tokens' = tokens \union {NewToken(Signed + 1, o, "access"),
                                 NewToken(Signed + 2, o, "refresh")}
  PROVE  /\ tokens' \subseteq Token /\ IsFiniteSet(tokens')
         /\ Signed' = Signed + 2
         /\ \A t \in tokens' : t.id <= Signed + 2
         /\ \A t, v \in tokens' : t.id = v.id => t = v
<1> DEFINE a == NewToken(Signed + 1, o, "access")
           b == NewToken(Signed + 2, o, "refresh")
<1>1. Signed \in Nat /\ MaxTokens \in Nat
  BY SignedIsNat, AuthAssumption
<1>2. a \in Token /\ a.id = Signed + 1 /\ b \in Token /\ b.id = Signed + 2
  BY <1>1 DEF NewToken, Token
<1>3. \A t \in tokens : t.id \in 1..MaxTokens /\ t.id <= Signed
  BY OwnerType DEF TokensAreNumbered
<1>4. a \notin tokens /\ b \notin tokens \union {a}
  BY <1>1, <1>2, <1>3
<1>5. tokens' = (tokens \union {a}) \union {b}
  OBVIOUS
<1> HIDE DEF a, b
<1>6. IsFiniteSet(tokens \union {a}) /\ Cardinality(tokens \union {a}) = Signed + 1
  BY <1>4, FS_AddElement DEF TokensAreNumbered, Signed
<1>7. IsFiniteSet(tokens') /\ Signed' = Signed + 1 + 1
  BY <1>4, <1>5, <1>6, FS_AddElement DEF Signed
<1>8. tokens' \subseteq Token
  BY <1>2, <1>5 DEF TypeOK, SessionsOK
<1>9. \A t \in tokens' : t.id <= Signed + 2
  BY <1>1, <1>2, <1>3, <1>5
<1>10. \A t, v \in tokens' : t.id = v.id => t = v
  BY <1>1, <1>2, <1>3, <1>5 DEF TokensAreNumbered
<1> QED
  BY <1>1, <1>7, <1>8, <1>9, <1>10

-----------------------------------------------------------------------------
LEMMA InitBInv == Init => BInv
<1> SUFFICES ASSUME Init PROVE BInv OBVIOUS
<1>1. codes \in Seq(Users \X IPs) /\ Len(codes) = 0
  BY EmptySeq DEF Init
<1>2. TypeOK
  BY <1>1, AuthAssumption
  DEF Init, TypeOK, OtpOK, SessionsOK, RequestsOK, HistoryOK, Labels, NoRequest
<1>3. TokensAreNumbered
  BY FS_EmptySet DEF Init, TokensAreNumbered
<1>4. CodesAreSent
  BY DEF Init, CodesAreSent, Codes
<1>5. \A r \in Slots : Serving(r)
  BY DEF Init, Serving, Refreshing
<1> QED
  BY <1>2, <1>3, <1>4, <1>5 DEF BInv

(* A request that comes in waits for its first step. *)
Begun(r, q, label) ==
  /\ Begin(r, q, label)
  /\ label \in {"limit", "get", "active", "black", "revoke", "others"}
  /\ label = "limit" => q \in Sends
  /\ label = "get" => q \in Verifies
  /\ label \in {"active", "black", "revoke", "others"} => q.token \in tokens
  /\ label = "revoke" => q.device \in Devices
  /\ label = "active" => q \in Refreshes /\ (q.late => q.token \in ended)

LEMMA RouteBegins ==
  ASSUME BInv, NEW r \in Slots, Route(r)
  PROVE  \E q \in Requests, label \in Labels : Begun(r, q, label)
<1> USE DEF BInv, Begun, Labels
<1>0. Len(codes) \in Nat /\ MaxSends \in Nat /\ Len(codes) <= MaxSends
  BY AuthAssumption, LenProperties DEF TypeOK, OtpOK
<1>1. CASE SendOTP(r)
  BY <1>1 DEF SendOTP, Requests, Sends
<1>2. CASE VerifyOTP(r)
  <2>1. 0..Len(codes) \subseteq 0..MaxSends
    BY <1>0
  <2> QED
    BY <1>2, <2>1 DEF VerifyOTP, Requests, Verifies
<1>3. CASE Refresh(r)
  <2>1. PICK t \in tokens :
           Begin(r, [kind |-> "refresh", token |-> t, late |-> t \in ended], "active")
    BY <1>3 DEF Refresh
  <2>2. PICK late \in BOOLEAN : late <=> t \in ended
    OBVIOUS
  <2>3. (t \in ended) = late
    BY <2>2
  <2>4. [kind |-> "refresh", token |-> t, late |-> late] \in Refreshes
    BY OwnerType DEF Refreshes
  <2>5. [kind |-> "refresh", token |-> t, late |-> late] \in Requests
    BY <2>4 DEF Refreshes, Requests
  <2>6. Begin(r, [kind |-> "refresh", token |-> t, late |-> late], "active")
    BY <2>1, <2>3
  <2> QED
    BY <2>2, <2>4, <2>5, <2>6
<1>4. CASE Logout(r)
  BY <1>4 DEF Logout, Requests, TypeOK, SessionsOK
<1>5. CASE RevokeSession(r)
  <2>1. PICK t \in tokens, d \in Devices :
           Begin(r, [kind |-> "revoke", token |-> t, device |-> d], "revoke")
    BY <1>5 DEF RevokeSession
  <2>2. [kind |-> "revoke", token |-> t, device |-> d] \in Requests
    BY OwnerType DEF Requests
  <2> QED
    BY <2>1, <2>2
<1>6. CASE RevokeAllSessions(r)
  BY <1>6 DEF RevokeAllSessions, Requests, TypeOK, SessionsOK
<1> QED
  BY <1>1, <1>2, <1>3, <1>4, <1>5, <1>6 DEF Route

LEMMA RouteBInv ==
  ASSUME BInv, NEW r \in Slots, Route(r)
  PROVE  BInv'
<1> USE DEF BInv
<1>1. PICK q \in Requests, label \in Labels : Begun(r, q, label)
  BY RouteBegins
<1>2. pc' = [pc EXCEPT ![r] = label] /\ req' = [req EXCEPT ![r] = q]
  BY <1>1 DEF Begun, Begin
<1>3. UNCHANGED <<faults, otpVars, sessionVars>>
  BY <1>1 DEF Begun, Begin
<1>4. TypeOK'
  <2>1. RequestsOK'
    BY <1>2, Moved DEF RequestsOK
  <2> QED
    BY <1>3, <2>1, OtpSame, SessionsSame DEF TypeOK
<1>5. TokensAreNumbered' /\ CodesAreSent'
  BY <1>3 DEF TokensAreNumbered, CodesAreSent, Signed, otpVars, sessionVars
<1>6. ASSUME NEW s \in Slots PROVE Serving(s)'
  <2>1. CASE s = r
    BY <1>1, <1>2, <1>3, <2>1
    DEF Begun, Serving, Refreshing, TypeOK, RequestsOK, otpVars, sessionVars
  <2>2. CASE s # r
    BY <1>2, <1>3, <2>2 DEF Serving, TypeOK, RequestsOK, otpVars, sessionVars
  <2> QED
    BY <2>1, <2>2
<1> QED
  BY <1>4, <1>5, <1>6

LEMMA Counts ==
  ASSUME NEW D, NEW f \in [D -> Nat], NEW x \in D
  PROVE  [f EXCEPT ![x] = @ + 1] \in [D -> Nat] /\ [f EXCEPT ![x] = 0] \in [D -> Nat]
OBVIOUS

(* A code that is sent is the next one.  *)
LEMMA Sent ==
  ASSUME TypeOK, NEW e \in Users \X IPs, codes' = Append(codes, e)
  PROVE  /\ codes' \in Seq(Users \X IPs) /\ Len(codes') = Len(codes) + 1
         /\ codes'[Len(codes) + 1] = e
         /\ \A i \in 1..Len(codes) : codes'[i] = codes[i]
BY AppendProperties DEF TypeOK, OtpOK

(* The step of one request leaves the others what they need.  *)
LEMMA OthersServed ==
  ASSUME BInv, NEW r \in Slots, NEW label, NEW q,
         pc' = [pc EXCEPT ![r] = label],
         req' = req \/ req' = [req EXCEPT ![r] = q],
         tokens \subseteq tokens',
         codes' = codes \/ \E e \in Users \X IPs : codes' = Append(codes, e),
         NEW s \in Slots, s # r
  PROVE  Serving(s)'
<1>1. pc'[s] = pc[s] /\ req'[s] = req[s]
  BY DEF BInv, TypeOK, RequestsOK
<1>2. Len(codes) \in Nat
  BY LenProperties DEF BInv, TypeOK, RequestsOK
<1>3. 1..Len(codes) \subseteq 1..Len(codes') /\ \A i \in 1..Len(codes) : codes'[i] = codes[i]
  <2>1. CASE codes' = codes
    BY <2>1
  <2>2. ASSUME NEW e \in Users \X IPs, codes' = Append(codes, e) 
          PROVE  /\ 1..Len(codes) \subseteq 1..Len(codes')
                 /\ \A i \in 1..Len(codes) : codes'[i] = codes[i]
    BY <1>2, <2>2, Sent DEF BInv
  <2> QED
    BY <2>1, <2>2
<1> QED
  BY <1>1, <1>3 DEF BInv, Serving

LEMMA Stepped ==
  ASSUME TypeOK, NEW r \in Slots, Done(r) \/ \E label \in Labels : Goto(r, label)
  PROVE  /\ faults' \in Scenarios
         /\ pc' \in [Slots -> Labels] /\ req' \in [Slots -> Requests \union {NoRequest}]
<1>1. "idle" \in Labels
  BY DEF Labels
<1> QED
  BY <1>1, Moved DEF Goto, Done, TypeOK, RequestsOK

(* The step of a request that keeps the types of what it writes. *)
LEMMA Typed ==
  ASSUME TypeOK, NEW r \in Slots, Done(r) \/ \E label \in Labels : Goto(r, label),
         OtpOK', SessionsOK', HistoryOK'
  PROVE  TypeOK'
<1>1. faults' \in Scenarios /\ RequestsOK'
  BY Stepped DEF RequestsOK
<1> QED
  BY <1>1 DEF TypeOK

LEMMA TypedCodes ==
  ASSUME TypeOK, NEW r \in Slots, Done(r) \/ \E label \in Labels : Goto(r, label),
         OtpOK', UNCHANGED sessionVars
  PROVE  TypeOK'
BY Typed, SessionsSame DEF TypeOK

LEMMA TypedSessions ==
  ASSUME TypeOK, NEW r \in Slots, Done(r) \/ \E label \in Labels : Goto(r, label),
         SessionsOK', HistoryOK', UNCHANGED otpVars
  PROVE  TypeOK'
BY Typed, OtpSame DEF TypeOK

LEMMA TypedAll ==
  ASSUME TypeOK, NEW r \in Slots, Done(r) \/ \E label \in Labels : Goto(r, label),
         UNCHANGED <<otpVars, sessionVars>>
  PROVE  TypeOK'
BY TypedCodes, OtpSame DEF TypeOK

LEMMA SignedOut ==
  ASSUME TypeOK, NEW owners \in SUBSET Owners, SignOut(owners)
  PROVE  ended' \subseteq tokens /\ closed' \subseteq Owners
BY DEF TypeOK, RequestsOK, HistoryOK, SignOut

LEMMA LoggedOutType ==
  ASSUME TypeOK, NEW owners, LoggedOut(owners)
  PROVE  session' \in [Owners -> {"none", "active", "loggedOut"}]
BY DEF TypeOK, SessionsOK, LoggedOut

LEMMA OthersAreOwners == \A o : Others(o) \subseteq Owners
BY DEF Others

(* The steps that sign no token, send no code and blacklist no token.      *)
Quiet == UNCHANGED <<tokens, codes, code, wrong, logins, blacklist>>

LEMMA QuietKeeps ==
  ASSUME BInv, Quiet
  PROVE  TokensAreNumbered' /\ CodesAreSent'
BY DEF BInv, Quiet, TokensAreNumbered, CodesAreSent, Signed

LEMMA ServeBInv ==
  ASSUME BInv, NEW r \in Slots, Serve(r)
  PROVE  BInv'
<1> USE DEF BInv
<1>0. Serving(r)
  OBVIOUS
<1>i. "idle" \in Labels /\ "store" \in Labels /\ "count" \in Labels /\ "drop" \in Labels
      /\ "take" \in Labels /\ "forget" \in Labels /\ "spend" \in Labels /\ "upsert" \in Labels
      /\ "hash" \in Labels /\ "row" \in Labels /\ "match" \in Labels /\ "unhash" \in Labels
      /\ "listed" \in Labels /\ "unhashOthers" \in Labels
  BY DEF Labels
<1>1. CASE CheckRateLimit(r)
  <2>1. Done(r) \/ Goto(r, "store")
    BY <1>1 DEF CheckRateLimit
  <2>2. counter' \in [Keys -> Nat]
    <3>1. counter \in [Keys -> Nat]
      BY DEF TypeOK, OtpOK
    <3>2. \A k \in Keys : counter[k] \in Nat /\ counter[k] + 1 \in Nat
      BY <3>1
    <3> QED
      BY <1>1, <3>1, <3>2 DEF CheckRateLimit
  <2>3. TypeOK'
    <3>1. OtpOK'
      BY <1>1, <2>1, <2>2 DEF CheckRateLimit, TypeOK, OtpOK
    <3> QED
      BY <1>i, <1>1, <2>1, <2>2, <3>1, TypedCodes DEF CheckRateLimit
  <2>4. Quiet
    BY <1>1 DEF CheckRateLimit, Quiet, sessionVars
  <2>5. Serving(r)'
    BY <1>0, <1>1, <2>1
    DEF CheckRateLimit, Goto, Done, Serving, Refreshing, TypeOK, RequestsOK, sessionVars
  <2>6. \A s \in Slots : Serving(s)'
    BY <2>1, <2>4, <2>5, OthersServed DEF Goto, Done, Quiet
  <2> QED
    BY <2>3, <2>4, <2>6, QuietKeeps
<1>2. CASE StoreCode(r)
  <2>1. Done(r) /\ req[r].user \in Users /\ req[r].ip \in IPs
    BY <1>0, <1>2 DEF StoreCode, Serving, Sends
  <2>2. CASE UNCHANGED <<codes, code, attempts>>
    <3>a. UNCHANGED <<otpVars, sessionVars>>
      BY <1>2, <2>2 DEF StoreCode, otpVars
    <3>1. TypeOK' /\ Quiet
      BY <2>1, <3>a, TypedAll DEF Quiet, otpVars, sessionVars
    <3>2. Serving(r)'
      BY <2>1 DEF Done, Serving, Refreshing, TypeOK, RequestsOK
    <3>3. \A s \in Slots : Serving(s)'
      BY <2>1, <3>1, <3>2, OthersServed DEF Done, Quiet
    <3> QED
      BY <3>1, <3>3, QuietKeeps
  <2>3. CASE codes' = Append(codes, <<req[r].user, req[r].ip>>)
    <3>0. Len(codes) \in Nat /\ MaxSends \in Nat /\ Len(codes) < MaxSends
      BY <1>2, AuthAssumption, LenProperties DEF StoreCode, TypeOK, RequestsOK
    <3>1. /\ codes' \in Seq(Users \X IPs) /\ Len(codes') = Len(codes) + 1
          /\ codes'[Len(codes) + 1] = <<req[r].user, req[r].ip>>
          /\ \A i \in 1..Len(codes) : codes'[i] = codes[i]
      BY <2>1, <2>3, Sent
    <3>2. /\ code' = [code EXCEPT ![req[r].user] = Len(codes) + 1]
          /\ attempts' = [attempts EXCEPT ![req[r].user] = 0]
      <4>1. codes' # codes
        BY <3>0, <3>1
      <4> QED
        BY <1>2, <3>1, <4>1 DEF StoreCode
    <3>3. /\ code' \in [Users -> 0..MaxSends] /\ attempts' \in [Users -> Nat]
          /\ Len(codes') <= MaxSends
      BY <2>1, <3>0, <3>1, <3>2 DEF TypeOK, OtpOK
    <3>4. TypeOK'
      <4>1. OtpOK'
        BY <1>2, <2>1, <3>1, <3>3 DEF StoreCode, TypeOK, OtpOK
      <4> QED
        BY <1>i, <1>2, <2>1, <3>1, <3>3, <4>1, TypedCodes DEF StoreCode
    <3>5. TokensAreNumbered'
      BY <1>2 DEF StoreCode, sessionVars, TokensAreNumbered, Signed
    <3>6. ASSUME NEW u \in Users, code'[u] # 0
          PROVE  code'[u] <= Len(codes') /\ codes'[code'[u]][1] = u
      <4>1. CASE u = req[r].user
        BY <3>0, <3>1, <3>2, <4>1 DEF TypeOK, OtpOK
      <4>2. CASE u # req[r].user
        <5>1. code'[u] = code[u] /\ code[u] \in 1..Len(codes) /\ codes[code[u]][1] = u
          BY <3>0, <3>2, <3>6, <4>2 DEF TypeOK, OtpOK, CodesAreSent
        <5> QED
          BY <3>0, <3>1, <5>1
      <4> QED
        BY <4>1, <4>2
    <3>7. ASSUME NEW c \in Codes, c > Len(codes') PROVE logins'[c] = 0 /\ wrong'[c] = 0
      BY <1>2, <3>0, <3>1, <3>7 DEF StoreCode, CodesAreSent, Codes
    <3>8. Serving(r)'
      BY <2>1 DEF Done, Serving, Refreshing, TypeOK, RequestsOK
    <3>9. \A s \in Slots : Serving(s)'
      BY <1>2, <2>1, <2>3, <3>8, OthersServed DEF Done, StoreCode, sessionVars
    <3> QED
      BY <3>4, <3>5, <3>6, <3>7, <3>9 DEF CodesAreSent
  <2> QED
    BY <1>2, <2>2, <2>3 DEF StoreCode
<1>3. CASE GetCode(r)
  <2>0. /\ req[r].user \in Users /\ req[r] \in Verifies
        /\ code[req[r].user] \in 0..MaxSends
        /\ Len(codes) \in Nat /\ MaxSends \in Nat
    BY <1>0, <1>3, AuthAssumption, LenProperties DEF GetCode, Serving, Verifies, TypeOK, OtpOK
  <2>1. Done(r) \/ Goto(r, "take") \/ Goto(r, "count")
    BY <1>3 DEF GetCode
  <2>a. \/ wrong' = wrong
        \/ /\ code[req[r].user] # 0
           /\ wrong' = [wrong EXCEPT ![code[req[r].user]] = @ + 1]
    BY <1>3 DEF GetCode
  <2>2. wrong' \in [Codes -> Nat]
    <3>1. code[req[r].user] # 0 => code[req[r].user] \in Codes
      BY <2>0 DEF Codes
    <3>2. wrong \in [Codes -> Nat]
      BY DEF TypeOK, OtpOK
    <3> QED
      BY <2>a, <3>1, <3>2, Counts
  <2>3. TypeOK'
    <3>1. OtpOK'
      BY <1>3, <2>1, <2>2 DEF GetCode, TypeOK, OtpOK
    <3> QED
      BY <1>i, <1>3, <2>1, <2>2, <3>1, TypedCodes DEF GetCode
  <2>4. TokensAreNumbered'
    BY <1>3 DEF GetCode, sessionVars, TokensAreNumbered, Signed
  <2>5. CodesAreSent'
    <3>1. \A u \in Users : code'[u] # 0 => code'[u] <= Len(codes') /\ codes'[code'[u]][1] = u
      BY <1>3 DEF GetCode, CodesAreSent
    <3>2. ASSUME NEW c \in Codes, c > Len(codes) PROVE wrong'[c] = 0
      <4>1. wrong[c] = 0
        BY <3>2 DEF CodesAreSent
      <4>2. c # code[req[r].user] \/ code[req[r].user] = 0
        BY <2>0, <3>2 DEF CodesAreSent, Codes
      <4> QED
        BY <2>a, <4>1, <4>2 DEF TypeOK, OtpOK
    <3> QED
      BY <1>3, <3>1, <3>2 DEF GetCode, CodesAreSent
  <2>6. Serving(r)'
    <3>1. CASE Goto(r, "take") /\ req[r].guess = code[req[r].user] /\ code[req[r].user] # 0
      BY <1>0, <1>3, <2>0, <3>1
      DEF GetCode, Goto, Serving, Refreshing, TypeOK, OtpOK, RequestsOK, sessionVars,
          CodesAreSent
    <3>2. CASE Goto(r, "count") \/ Done(r)
      BY <1>0, <1>3, <3>2
      DEF GetCode, Goto, Done, Serving, Refreshing, TypeOK, RequestsOK, sessionVars
    <3> QED
      BY <1>3, <3>1, <3>2 DEF GetCode
  <2>7. \A s \in Slots : Serving(s)'
    BY <1>3, <2>1, <2>6, OthersServed DEF Goto, Done, GetCode, sessionVars
  <2> QED
    BY <2>3, <2>4, <2>5, <2>7
<1>4. CASE CountAttempt(r)
  <2>1. Done(r) \/ Goto(r, "drop")
    BY <1>4 DEF CountAttempt
  <2>2. attempts' \in [Users -> Nat]
    <3>1. req[r].user \in Users /\ attempts \in [Users -> Nat]
      BY <1>0, <1>4 DEF CountAttempt, Serving, Verifies, TypeOK, OtpOK
    <3> QED
      BY <1>4, <3>1, Counts DEF CountAttempt
  <2>3. TypeOK'
    <3>1. OtpOK'
      BY <1>4, <2>1, <2>2 DEF CountAttempt, TypeOK, OtpOK
    <3> QED
      BY <1>i, <1>4, <2>1, <2>2, <3>1, TypedCodes DEF CountAttempt
  <2>4. Quiet
    BY <1>4 DEF CountAttempt, Quiet, otpVars, sessionVars
  <2>5. Serving(r)'
    BY <1>0, <1>4, <2>1, <2>4
    DEF CountAttempt, Goto, Done, Serving, Refreshing, Quiet, TypeOK, RequestsOK
  <2>6. \A s \in Slots : Serving(s)'
    BY <2>1, <2>4, <2>5, OthersServed DEF Goto, Done, Quiet
  <2> QED
    BY <2>3, <2>4, <2>6, QuietKeeps
<1>5. CASE DelCode(r)
  <2>1. Goto(r, "spend") \/ Goto(r, "forget")
    BY <1>5 DEF DelCode
  <2>2. MaxSends \in Nat /\ code' \in [Users -> 0..MaxSends]
        /\ \A u \in Users : code'[u] # 0 => code'[u] = code[u]
    <3>0. MaxSends \in Nat /\ 0 \in 0..MaxSends
      BY AuthAssumption
    <3>1. CASE code' = code
      BY <3>0, <3>1 DEF TypeOK, OtpOK
    <3>2. CASE code' = [code EXCEPT ![req[r].user] = 0]
      BY <3>0, <3>2 DEF TypeOK, OtpOK
    <3> QED
      BY <1>5, <3>1, <3>2 DEF DelCode
  <2>3. TypeOK'
    <3>1. OtpOK'
      BY <1>5, <2>1, <2>2 DEF DelCode, TypeOK, OtpOK
    <3> QED
      BY <1>i, <1>5, <2>1, <2>2, <3>1, TypedCodes DEF DelCode
  <2>4. TokensAreNumbered' /\ CodesAreSent'
    BY <1>5, <2>2 DEF DelCode, sessionVars, TokensAreNumbered, Signed, CodesAreSent
  <2>5. Serving(r)'
    BY <1>0, <1>5, <2>1 DEF DelCode, Goto, Serving, Refreshing, TypeOK, RequestsOK, sessionVars
  <2>6. \A s \in Slots : Serving(s)'
    BY <1>5, <2>1, <2>5, OthersServed DEF Goto, DelCode, sessionVars
  <2> QED
    BY <2>3, <2>4, <2>6
<1>6. CASE DelAttempts(r)
  <2>1. Done(r) \/ Goto(r, "upsert")
    BY <1>6 DEF DelAttempts
  <2>2. attempts' \in [Users -> Nat]
    <3>1. req[r].user \in Users /\ attempts \in [Users -> Nat]
      BY <1>0, <1>6 DEF DelAttempts, Serving, Verifies, TypeOK, OtpOK
    <3> QED
      BY <1>6, <3>1, Counts DEF DelAttempts
  <2>3. TypeOK'
    <3>1. OtpOK'
      BY <1>6, <2>1, <2>2 DEF DelAttempts, TypeOK, OtpOK
    <3> QED
      BY <1>i, <1>6, <2>1, <2>2, <3>1, TypedCodes DEF DelAttempts
  <2>4. Quiet
    BY <1>6 DEF DelAttempts, Quiet, otpVars, sessionVars
  <2>5. Serving(r)'
    BY <1>0, <1>6, <2>1, <2>4
    DEF DelAttempts, Goto, Done, Serving, Refreshing, Quiet, TypeOK, RequestsOK
  <2>6. \A s \in Slots : Serving(s)'
    BY <2>1, <2>4, <2>5, OthersServed DEF Goto, Done, Quiet
  <2> QED
    BY <2>3, <2>4, <2>6, QuietKeeps
<1>7. CASE UpsertUser(r)
  <2>1. Done(r) \/ Goto(r, "hash")
    BY <1>7 DEF UpsertUser
  <2>3. TypeOK'
    BY <1>i, <1>7, <2>1, TypedAll DEF UpsertUser
  <2>4. Quiet
    BY <1>7 DEF UpsertUser, Quiet, otpVars, sessionVars
  <2>5. Serving(r)'
    BY <1>0, <1>7, <2>1, <2>4
    DEF UpsertUser, Goto, Done, Serving, Refreshing, Quiet, TypeOK, RequestsOK
  <2>6. \A s \in Slots : Serving(s)'
    BY <2>1, <2>4, <2>5, OthersServed DEF Goto, Done, Quiet
  <2> QED
    BY <2>3, <2>4, <2>6, QuietKeeps
<1>9. CASE CreateSession(r)
  <2>1. Done(r)
    BY <1>9 DEF CreateSession
  <2>2. session' \in [Owners -> {"none", "active", "loggedOut"}]
    BY <1>0, <1>9 DEF CreateSession, TypeOK, SessionsOK, Serving, Verifies, Owners
  <2>3. TypeOK'
    <3>1. SessionsOK'
      BY <1>9, <2>1, <2>2 DEF CreateSession, TypeOK, SessionsOK
    <3>2. HistoryOK'
      BY <1>9, <2>1, <2>2, HistoryStays DEF CreateSession, TypeOK
    <3> QED
      BY <1>i, <1>9, <2>1, <2>2, <3>1, <3>2, TypedSessions DEF CreateSession
  <2>4. Quiet
    BY <1>9 DEF CreateSession, Quiet, otpVars, sessionVars
  <2>5. Serving(r)'
    BY <1>0, <1>9, <2>1, <2>4
    DEF CreateSession, Goto, Done, Serving, Refreshing, Quiet, TypeOK, RequestsOK
  <2>6. \A s \in Slots : Serving(s)'
    BY <2>1, <2>4, <2>5, OthersServed DEF Goto, Done, Quiet
  <2> QED
    BY <2>3, <2>4, <2>6, QuietKeeps
<1>10. CASE HasActiveSession(r)
  <2>1. Done(r) \/ Goto(r, "listed")
    BY <1>10 DEF HasActiveSession
  <2>3. TypeOK'
    BY <1>i, <1>10, <2>1, TypedAll DEF HasActiveSession
  <2>4. Quiet
    BY <1>10 DEF HasActiveSession, Quiet, otpVars, sessionVars
  <2>5. Serving(r)'
    BY <1>0, <1>10, <2>1, <2>4
    DEF HasActiveSession, Goto, Done, Serving, Refreshing, Quiet, TypeOK, RequestsOK
  <2>6. \A s \in Slots : Serving(s)'
    BY <2>1, <2>4, <2>5, OthersServed DEF Goto, Done, Quiet
  <2> QED
    BY <2>3, <2>4, <2>6, QuietKeeps
<1>17. CASE IsBlacklisted(r)
  <2>1. Done(r) \/ Goto(r, "match")
    BY <1>17 DEF IsBlacklisted
  <2>3. TypeOK'
    BY <1>i, <1>17, <2>1, TypedAll DEF IsBlacklisted
  <2>4. Quiet
    BY <1>17 DEF IsBlacklisted, Quiet, otpVars, sessionVars
  <2>5. Serving(r)'
    BY <1>0, <1>17, <2>1, <2>4
    DEF IsBlacklisted, Goto, Done, Serving, Refreshing, Quiet, TypeOK, RequestsOK
  <2>6. \A s \in Slots : Serving(s)'
    BY <2>1, <2>4, <2>5, OthersServed DEF Goto, Done, Quiet
  <2> QED
    BY <2>3, <2>4, <2>6, QuietKeeps
<1>8. CASE StoreRefresh(r)
  <2> DEFINE owner == <<req[r].user, req[r].device>>
  <2>1. Done(r) \/ Goto(r, "row")
    BY <1>8 DEF StoreRefresh
  <2>2. owner \in Owners /\ req[r].guess \in 1..Len(codes) /\ Len(codes) \in Nat
        /\ Signed \in Nat /\ MaxTokens \in Nat /\ MaxSends \in Nat /\ Signed + 2 <= MaxTokens
    BY <1>0, <1>8, SignedIsNat, AuthAssumption, LenProperties
       DEF StoreRefresh, Serving, Verifies, Owners, TypeOK, OtpOK, SessionsOK, RequestsOK
  <2>3. CASE Goto(r, "row") /\ UNCHANGED <<blacklist, codes, code, wrong>>
             /\ stored' = [stored EXCEPT ![owner] = Signed + 2]
             /\ tokens' = tokens \union {NewToken(Signed + 1, owner, "access"),
                                        NewToken(Signed + 2, owner, "refresh")}
             /\ logins' = [logins EXCEPT ![req[r].guess] = @ + 1]
    <3> HIDE DEF owner
    <3>1. /\ tokens' \subseteq Token /\ IsFiniteSet(tokens') /\ Signed' = Signed + 2
          /\ \A t \in tokens' : t.id <= Signed + 2
          /\ \A t, v \in tokens' : t.id = v.id => t = v
      BY <2>2, <2>3, SignTwo
    <3>2. req[r].guess \in Codes /\ logins \in [Codes -> Nat]
      <4>1. Len(codes) <= MaxSends /\ logins \in [Codes -> Nat]
        BY DEF TypeOK, OtpOK
      <4> QED
        BY <2>2, <4>1 DEF Codes
    <3>3. logins' \in [Codes -> Nat]
      BY <2>3, <3>2, Counts
    <3>4. stored' \in [Owners -> 0..MaxTokens]
      BY <2>2, <2>3 DEF TypeOK, SessionsOK
    <3>5. TypeOK'
      <4>1. OtpOK'
        BY <1>8, <3>3 DEF StoreRefresh, TypeOK, OtpOK
      <4>2. SessionsOK'
        BY <1>8, <3>1, <3>4 DEF StoreRefresh, TypeOK, SessionsOK
      <4>3. HistoryOK'
        BY <1>8, <2>3, HistoryStays DEF StoreRefresh, TypeOK
      <4> QED
        BY <1>i, <2>3, <4>1, <4>2, <4>3, Typed
    <3>6. TokensAreNumbered'
      BY <2>2, <2>3, <3>1 DEF TokensAreNumbered, TypeOK, SessionsOK
    <3>7. CodesAreSent'
      BY <2>2, <2>3, <3>2 DEF CodesAreSent, Codes
    <3>8. Serving(r)'
      BY <1>0, <1>8, <2>3 DEF StoreRefresh, Goto, Serving, Refreshing, TypeOK, RequestsOK
    <3>9. \A s \in Slots : Serving(s)'
      BY <2>3, <3>8, OthersServed DEF Goto
    <3> QED
      BY <3>5, <3>6, <3>7, <3>9
  <2>4. CASE Done(r) /\ UNCHANGED <<stored, tokens, logins, blacklist, codes, code, wrong>>
    <3>a. UNCHANGED <<otpVars, sessionVars>>
      BY <1>8, <2>4 DEF StoreRefresh, otpVars, sessionVars
    <3>1. TypeOK' /\ Quiet
      BY <2>4, <3>a, TypedAll DEF Quiet, otpVars, sessionVars
    <3>2. Serving(r)'
      BY <2>4 DEF Done, Serving, Refreshing, TypeOK, RequestsOK
    <3>3. \A s \in Slots : Serving(s)'
      BY <2>4, <3>2, OthersServed DEF Done
    <3> QED
      BY <3>1, <3>3, QuietKeeps
  <2> QED
    BY <1>8, <2>3, <2>4 DEF StoreRefresh
<1>11. CASE RefreshAccessToken(r)
  <2>1. Done(r) /\ UNCHANGED <<codes, code, wrong, logins, blacklist>>
    BY <1>11 DEF RefreshAccessToken, otpVars
  <2>a. revived' \subseteq Revival
    <3>1. req[r].late \in BOOLEAN /\ req[r].token \in Token
      BY <1>0, <1>11 DEF RefreshAccessToken, Serving, Refreshing, Refreshes
    <3>2. \A v \in revived' \ revived : v = [token |-> req[r].token, late |-> req[r].late]
      BY <1>11 DEF RefreshAccessToken
    <3>3. revived \subseteq Revival
      BY DEF TypeOK, RequestsOK, HistoryOK
    <3> QED
      BY <3>1, <3>2, <3>3 DEF Revival
  <2>b. tokens \subseteq tokens' => HistoryOK'
    BY <1>11, <2>a DEF RefreshAccessToken, TypeOK, RequestsOK, HistoryOK
  <2>2. CASE tokens' = tokens
    <3>a. SessionsOK'
      BY <1>11, <2>2 DEF RefreshAccessToken, TypeOK, SessionsOK
    <3>1. TypeOK' /\ Quiet
      BY <1>11, <2>1, <2>2, <2>b, <3>a, TypedSessions DEF RefreshAccessToken, Quiet
    <3>2. Serving(r)'
      BY <2>1 DEF Done, Serving, Refreshing, TypeOK, RequestsOK
    <3>3. \A s \in Slots : Serving(s)'
      BY <2>1, <2>2, <3>2, OthersServed DEF Done
    <3> QED
      BY <3>1, <3>3, QuietKeeps
  <2>3. CASE tokens' = tokens \union {NewToken(Signed + 1, req[r].token.owner, "access")}
    <3>1. req[r].token.owner \in Owners /\ Signed + 1 <= MaxTokens
          /\ Signed \in Nat /\ MaxTokens \in Nat
      BY <1>0, <1>11, OwnerType, SignedIsNat, AuthAssumption DEF RefreshAccessToken, Serving
    <3>2. /\ tokens' \subseteq Token /\ IsFiniteSet(tokens') /\ Signed' = Signed + 1
          /\ \A t \in tokens' : t.id <= Signed + 1
          /\ \A t, v \in tokens' : t.id = v.id => t = v
      BY <2>3, <3>1, SignOne
    <3>3. TypeOK'
      <4>1. SessionsOK'
        BY <1>11, <2>1, <2>3, <2>b, <3>2 DEF RefreshAccessToken, TypeOK, SessionsOK
      <4>2. HistoryOK'
        BY <1>11, <2>1, <2>3, <2>b, <3>2, HistoryStays DEF RefreshAccessToken, TypeOK
      <4> QED
        BY <1>i, <1>11, <2>1, <2>3, <2>b, <3>2, <4>1, <4>2, TypedSessions
        DEF RefreshAccessToken
    <3>4. TokensAreNumbered' /\ CodesAreSent'
      <4>1. \A i \in blacklist : i \in Nat /\ i <= Signed + 1
        <5>1. blacklist \subseteq Nat /\ \A i \in blacklist : i <= Signed
          BY AuthAssumption DEF TypeOK, SessionsOK, TokensAreNumbered
        <5> QED
          BY <3>1, <5>1
      <4>2. TokensAreNumbered'
        BY <2>1, <3>1, <3>2, <4>1 DEF TokensAreNumbered
      <4>3. CodesAreSent'
        BY <2>1 DEF CodesAreSent
      <4> QED
        BY <4>2, <4>3
    <3>5. Serving(r)'
      BY <2>1 DEF Done, Serving, Refreshing, TypeOK, RequestsOK
    <3>6. \A s \in Slots : Serving(s)'
      BY <2>1, <2>3, <3>5, OthersServed DEF Done
    <3> QED
      BY <3>3, <3>4, <3>6
  <2> QED
    BY <1>11, <2>2, <2>3 DEF RefreshAccessToken
<1>12. CASE BlacklistToken(r)
  <2>1. Done(r) \/ Goto(r, "unhash")
    BY <1>12 DEF BlacklistToken
  <2>2. req[r].token \in tokens
    BY <1>0, <1>12 DEF BlacklistToken, Serving
  <2>3. /\ blacklist' = blacklist \/ blacklist' = blacklist \union {req[r].token.id}
        /\ req[r].token.id \in 1..MaxTokens /\ req[r].token.id <= Signed
        /\ UNCHANGED <<tokens, codes, code, wrong, logins>>
    BY <1>12, <2>2, OwnerType DEF BlacklistToken, TokensAreNumbered, otpVars
  <2>4. TypeOK'
    <3>1. SessionsOK'
      BY <1>12, <2>1, <2>3 DEF BlacklistToken, TypeOK, SessionsOK
    <3>2. HistoryOK'
      BY <1>12, <2>1, <2>3, HistoryStays DEF BlacklistToken, TypeOK
    <3> QED
      BY <1>i, <1>12, <2>1, <2>3, <3>1, <3>2, TypedSessions DEF BlacklistToken
  <2>5. TokensAreNumbered' /\ CodesAreSent'
    BY <2>3 DEF TokensAreNumbered, Signed, CodesAreSent
  <2>6. Serving(r)'
    BY <1>0, <2>1, <2>2, <2>3 DEF Goto, Done, Serving, Refreshing, TypeOK, RequestsOK
  <2>7. \A s \in Slots : Serving(s)'
    BY <2>1, <2>3, <2>6, OthersServed DEF Goto, Done
  <2> QED
    BY <2>4, <2>5, <2>7
<1>13. CASE DeleteRefresh(r)
  <2>1. Done(r)
    BY <1>13 DEF DeleteRefresh
  <2>2. /\ req[r].token \in tokens /\ req[r].token.owner \in Owners
        /\ background' \subseteq Owners /\ HistoryOK'
    <3>1. req[r].token \in tokens /\ req[r].token.owner \in Owners
      BY <1>0, <1>13, OwnerType DEF DeleteRefresh, Serving
    <3> QED
      BY <1>13, <3>1, SignedOut DEF DeleteRefresh, TypeOK, SessionsOK, HistoryOK
  <2>a. stored' \in [Owners -> 0..MaxTokens]
    <3>1. MaxTokens \in Nat /\ 0 \in 0..MaxTokens
      BY AuthAssumption
    <3>2. CASE stored' = stored
      BY <3>2 DEF TypeOK, SessionsOK
    <3>3. CASE stored' = [stored EXCEPT ![req[r].token.owner] = 0]
      BY <3>1, <3>3 DEF TypeOK, SessionsOK
    <3> QED
      BY <1>13, <3>2, <3>3 DEF DeleteRefresh
  <2>3. TypeOK'
    <3>1. SessionsOK'
      BY <1>13, <2>1, <2>2, <2>a DEF DeleteRefresh, TypeOK, SessionsOK
    <3>2. HistoryOK'
      BY <1>13, <2>1, <2>2, <2>a, HistoryStays DEF DeleteRefresh, TypeOK
    <3> QED
      BY <1>i, <1>13, <2>1, <2>2, <2>a, <3>1, <3>2, TypedSessions DEF DeleteRefresh
  <2>4. Quiet
    BY <1>13 DEF DeleteRefresh, Quiet, otpVars, sessionVars
  <2>5. Serving(r)'
    BY <1>0, <1>13, <2>1, <2>4
    DEF DeleteRefresh, Goto, Done, Serving, Refreshing, Quiet, TypeOK, RequestsOK
  <2>6. \A s \in Slots : Serving(s)'
    BY <2>1, <2>4, <2>5, OthersServed DEF Goto, Done, Quiet
  <2> QED
    BY <2>3, <2>4, <2>6, QuietKeeps
<1>14. CASE RevokeRow(r)
  <2>1. Done(r)
    BY <1>14 DEF RevokeRow
  <2>2. /\ session' \in [Owners -> {"none", "active", "loggedOut"}]
        /\ HistoryOK'
    <3>1. <<req[r].token.owner[1], req[r].device>> \in Owners
      BY <1>0, <1>14, OwnerType DEF RevokeRow, Serving, Owners
    <3> QED
      BY <1>14, <3>1, SignedOut, LoggedOutType DEF RevokeRow, TypeOK, SessionsOK, HistoryOK
  <2>3. TypeOK'
    <3>1. SessionsOK'
      BY <1>14, <2>1, <2>2 DEF RevokeRow, TypeOK, SessionsOK
    <3>2. HistoryOK'
      BY <1>14, <2>1, <2>2, HistoryStays DEF RevokeRow, TypeOK
    <3> QED
      BY <1>i, <1>14, <2>1, <2>2, <3>1, <3>2, TypedSessions DEF RevokeRow
  <2>4. Quiet
    BY <1>14 DEF RevokeRow, Quiet, otpVars, sessionVars
  <2>5. Serving(r)'
    BY <1>0, <1>14, <2>1, <2>4
    DEF RevokeRow, Goto, Done, Serving, Refreshing, Quiet, TypeOK, RequestsOK
  <2>6. \A s \in Slots : Serving(s)'
    BY <2>1, <2>4, <2>5, OthersServed DEF Goto, Done, Quiet
  <2> QED
    BY <2>3, <2>4, <2>6, QuietKeeps
<1>15. CASE RevokeOtherRows(r)
  <2>1. Done(r) \/ Goto(r, "unhashOthers")
    BY <1>15 DEF RevokeOtherRows
  <2>2. session' \in [Owners -> {"none", "active", "loggedOut"}]
    BY <1>15, LoggedOutType DEF RevokeOtherRows, TypeOK, SessionsOK
  <2>3. TypeOK'
    <3>1. SessionsOK'
      BY <1>15, <2>1, <2>2 DEF RevokeOtherRows, TypeOK, SessionsOK
    <3>2. HistoryOK'
      BY <1>15, <2>1, <2>2, HistoryStays DEF RevokeOtherRows, TypeOK
    <3> QED
      BY <1>i, <1>15, <2>1, <2>2, <3>1, <3>2, TypedSessions DEF RevokeOtherRows
  <2>4. Quiet
    BY <1>15 DEF RevokeOtherRows, Quiet, otpVars, sessionVars
  <2>5. Serving(r)'
    BY <1>0, <1>15, <2>1, <2>4
    DEF RevokeOtherRows, Goto, Done, Serving, Refreshing, Quiet, TypeOK, RequestsOK
  <2>6. \A s \in Slots : Serving(s)'
    BY <2>1, <2>4, <2>5, OthersServed DEF Goto, Done, Quiet
  <2> QED
    BY <2>3, <2>4, <2>6, QuietKeeps
<1>16. CASE DeleteOtherRefreshes(r)
  <2>1. Done(r)
    BY <1>16 DEF DeleteOtherRefreshes
  <2>2. /\ stored' \in [Owners -> 0..MaxTokens]
        /\ HistoryOK'
    <3>1. MaxTokens \in Nat /\ 0 \in 0..MaxTokens
      BY AuthAssumption
    <3> QED
      BY <1>16, <3>1, SignedOut, OthersAreOwners
      DEF DeleteOtherRefreshes, TypeOK, SessionsOK, HistoryOK
  <2>3. TypeOK'
    <3>1. SessionsOK'
      BY <1>16, <2>1, <2>2 DEF DeleteOtherRefreshes, TypeOK, SessionsOK
    <3>2. HistoryOK'
      BY <1>16, <2>1, <2>2, HistoryStays DEF DeleteOtherRefreshes, TypeOK
    <3> QED
      BY <1>i, <1>16, <2>1, <2>2, <3>1, <3>2, TypedSessions DEF DeleteOtherRefreshes
  <2>4. Quiet
    BY <1>16 DEF DeleteOtherRefreshes, Quiet, otpVars, sessionVars
  <2>5. Serving(r)'
    BY <1>0, <1>16, <2>1, <2>4
    DEF DeleteOtherRefreshes, Goto, Done, Serving, Refreshing, Quiet, TypeOK, RequestsOK
  <2>6. \A s \in Slots : Serving(s)'
    BY <2>1, <2>4, <2>5, OthersServed DEF Goto, Done, Quiet
  <2> QED
    BY <2>3, <2>4, <2>6, QuietKeeps
<1> QED
  BY <1>1, <1>2, <1>3, <1>4, <1>5, <1>6, <1>7, <1>8, <1>9, <1>10,
     <1>11, <1>12, <1>13, <1>14, <1>15, <1>16, <1>17 DEF Serve

LEMMA NextBInv == BInv /\ [Next]_vars => BInv'
<1> SUFFICES ASSUME BInv, [Next]_vars PROVE BInv' OBVIOUS
<1> USE DEF BInv
<1>1. ASSUME NEW o \in Owners, LogoutSession(o) PROVE BInv'
  <2>1. session' \in [Owners -> {"none", "active", "loggedOut"}] /\ Quiet
    BY <1>1, LoggedOutType DEF LogoutSession, TypeOK, SessionsOK, Quiet, otpVars
  <2>2. TypeOK'
    <3>1. OtpOK' /\ RequestsOK' /\ faults' = faults
      BY <1>1, OtpSame DEF LogoutSession, TypeOK, RequestsOK
    <3>2. SessionsOK'
      BY <1>1, <2>1 DEF LogoutSession, TypeOK, SessionsOK
    <3>3. HistoryOK'
      BY <1>1, HistoryStays DEF LogoutSession, TypeOK
    <3> QED
      BY <3>1, <3>2, <3>3 DEF TypeOK
  <2>3. \A s \in Slots : Serving(s)'
    BY <1>1 DEF LogoutSession, Serving, otpVars
  <2> QED
    BY <2>1, <2>2, <2>3, QuietKeeps
<1>2. ASSUME NEW u \in Users, CodeExpires(u) PROVE BInv'
  <2>1. MaxSends \in Nat /\ 0 \in 0..MaxSends
    BY AuthAssumption
  <2>2. /\ code' = code \/ code' = [code EXCEPT ![u] = 0]
        /\ attempts' = attempts \/ attempts' = [attempts EXCEPT ![u] = 0]
    BY <1>2 DEF CodeExpires
  <2>3. code' \in [Users -> 0..MaxSends] /\ \A v \in Users : code'[v] # 0 => code'[v] = code[v]
    BY <2>1, <2>2 DEF TypeOK, OtpOK
  <2>4. attempts' \in [Users -> Nat]
    <3>1. attempts \in [Users -> Nat]
      BY DEF TypeOK, OtpOK
    <3>2. [attempts EXCEPT ![u] = 0] \in [Users -> Nat]
      BY <3>1, Counts
    <3> QED
      BY <2>2, <3>1, <3>2
  <2>5. TypeOK'
    <3>1. OtpOK'
      BY <1>2, <2>3, <2>4 DEF CodeExpires, TypeOK, OtpOK
    <3>2. SessionsOK' /\ HistoryOK' /\ RequestsOK' /\ faults' = faults
      BY <1>2, SessionsSame DEF CodeExpires, TypeOK, RequestsOK
    <3> QED
      BY <3>1, <3>2 DEF TypeOK
  <2>6. TokensAreNumbered' /\ CodesAreSent'
    BY <1>2, <2>3 DEF CodeExpires, sessionVars, TokensAreNumbered, Signed, CodesAreSent
  <2>7. \A s \in Slots : Serving(s)'
    BY <1>2 DEF CodeExpires, Serving, sessionVars
  <2> QED
    BY <2>5, <2>6, <2>7
<1>3. ASSUME NEW k \in Keys, WindowEnds(k) PROVE BInv'
  <2>1. counter' \in [Keys -> Nat] /\ windows' \in [Keys -> Nat]
    BY <1>3, Counts DEF WindowEnds, TypeOK, OtpOK
  <2>2. TypeOK' /\ Quiet
    <3>1. OtpOK' /\ Quiet
      BY <1>3, <2>1 DEF WindowEnds, TypeOK, OtpOK, Quiet, sessionVars
    <3>2. SessionsOK' /\ HistoryOK' /\ RequestsOK' /\ faults' = faults
      BY <1>3, SessionsSame DEF WindowEnds, TypeOK, RequestsOK
    <3> QED
      BY <3>1, <3>2 DEF TypeOK
  <2>3. \A s \in Slots : Serving(s)'
    BY <1>3 DEF WindowEnds, Serving, sessionVars
  <2> QED
    BY <2>2, <2>3, QuietKeeps
<1>4. CASE UNCHANGED vars
  BY <1>4, HistoryStays
  DEF vars, otpVars, sessionVars, TypeOK, OtpOK, SessionsOK, RequestsOK,
      TokensAreNumbered, Signed, CodesAreSent, Serving
<1> QED
  BY <1>1, <1>2, <1>3, <1>4, RouteBInv, ServeBInv DEF Next

LEMMA SpecBInv == Spec => []BInv
  BY InitBInv, NextBInv, PTL DEF Spec

(* The state of the auth service keeps its shape. *)
THEOREM TypeCorrect == Spec => []TypeOK
<1>1. BInv => TypeOK
  BY DEF BInv
<1> QED
  BY SpecBInv, <1>1, PTL

-----------------------------------------------------------------------------
(* The layers of a key are those of the limiter. *)
LEMMA KeysAre ==
  /\ \A u \in Users, ip \in IPs : KeysOf(u, ip) \subseteq Keys
  /\ \A k \in Keys : Limit[k[1]] \in Nat \ {0}
<1>1. \A u \in Users, ip \in IPs : KeysOf(u, ip) \subseteq Keys
  BY DEF KeysOf, Keys
<1>2. ASSUME NEW k \in Keys PROVE k[1] \in 1..5
  BY DEF Keys
<1> QED
  BY <1>1, <1>2, AuthAssumption

LEMMA StoringFinite ==
  ASSUME NEW k
  PROVE  IsFiniteSet(Storing(k)) /\ Cardinality(Storing(k)) \in Nat
<1>1. Storing(k) \subseteq Slots
  BY DEF Storing
<1> QED
  BY <1>1, AuthAssumption, FS_Subset, FS_CardinalityType

LEMMA SentFinite ==
  ASSUME TypeOK, NEW k
  PROVE  IsFiniteSet(SentUnder(k)) /\ Cardinality(SentUnder(k)) \in Nat
<1>1. DOMAIN codes = 1..Len(codes) /\ Len(codes) \in Nat
  BY LenProperties DEF TypeOK, RequestsOK
<1>2. IsFiniteSet(1..Len(codes)) /\ SentUnder(k) \subseteq 1..Len(codes)
  BY <1>1, FS_Interval DEF SentUnder
<1> QED
  BY <1>2, FS_Subset, FS_CardinalityType

LEMMA InitRInv == Init => RInv
<1> SUFFICES ASSUME Init, NEW k \in Keys PROVE Counted(k)
  BY DEF RInv
<1>1. SentUnder(k) = {} /\ Storing(k) = {}
  BY DEF Init, SentUnder, Storing
<1>2. Limit[k[1]] \in Nat
  BY KeysAre
<1>3. Cardinality(SentUnder(k)) = 0 /\ Cardinality(Storing(k)) = 0
  BY <1>1, FS_EmptySet
<1>4. windows[k] = 1 /\ counter[k] = 0
  BY DEF Init
<1> QED
  BY <1>2, <1>3, <1>4 DEF Counted

(* A request that is not about to send, before or after, counts nowhere. *)
LEMMA StoringKept ==
  ASSUME TypeOK, NEW r \in Slots, NEW label, NEW q,
         pc[r] # "store", label # "store", pc' = [pc EXCEPT ![r] = label],
         req' = req \/ req' = [req EXCEPT ![r] = q],
         NEW k
  PROVE  Storing(k)' = Storing(k)
<1>1. \A s \in Slots : pc'[s] = "store" <=> pc[s] = "store"
  BY DEF TypeOK, RequestsOK
<1>2. \A s \in Slots : pc[s] = "store" => req'[s] = req[s]
  BY DEF TypeOK, RequestsOK
<1> QED
  BY <1>1, <1>2 DEF Storing

(* So long as nothing is counted, sent or granted, the limits are kept. *)
LEMMA NothingSent ==
  ASSUME TypeOK, NEW k \in Keys, Counted(k), UNCHANGED <<counter, windows, codes>>,
         Storing(k)' \subseteq Storing(k)
  PROVE  Counted(k)'
<1>1. SentUnder(k)' = SentUnder(k)
  BY DEF SentUnder
<1>2. Cardinality(Storing(k)') <= Cardinality(Storing(k)) /\ Cardinality(Storing(k)') \in Nat
  BY StoringFinite, FS_Subset, FS_CardinalityType
<1>3. Limit[k[1]] \in Nat /\ windows[k] \in Nat /\ counter[k] \in Nat
  BY KeysAre DEF TypeOK, OtpOK
<1>4. Limit[k[1]] * (windows[k] - 1) \in Int
  BY <1>3
<1> QED
  BY <1>1, <1>2, <1>3, <1>4, StoringFinite, SentFinite DEF Counted

LEMMA GrantCounts ==
  ASSUME BInv, NEW k \in Keys, Counted(k), NEW r \in Slots, CheckRateLimit(r)
  PROVE  Counted(k)'
<1> USE DEF BInv
<1>0. UNCHANGED <<windows, codes>> /\ pc[r] = "limit"
  BY DEF CheckRateLimit
<1>1. CASE Done(r) /\ UNCHANGED counter
  <2>1. Storing(k)' = Storing(k)
    BY <1>0, <1>1, StoringKept DEF Done
  <2> QED
    BY <1>0, <1>1, <2>1, NothingSent
<1>2. CASE BelowLimits(req[r].user, req[r].ip) /\ Goto(r, "store")
           /\ counter' = [j \in Keys |-> IF j \in KeysOf(req[r].user, req[r].ip)
                                           THEN counter[j] + 1 ELSE counter[j]]
  <2>1. SentUnder(k)' = SentUnder(k)
    BY <1>0 DEF SentUnder
  <2>2. Limit[k[1]] \in Nat /\ windows[k] \in Nat /\ counter[k] \in Nat
        /\ Limit[k[1]] * (windows[k] - 1) \in Int
    BY KeysAre DEF TypeOK, OtpOK
  <2>3. /\ \A s \in Slots : pc'[s] = "store" <=> (pc[s] = "store" \/ s = r)
        /\ req' = req
    BY <1>2 DEF Goto, TypeOK, RequestsOK
  <2>4. CASE k \in KeysOf(req[r].user, req[r].ip)
    <3>1. Storing(k)' = Storing(k) \union {r} /\ r \notin Storing(k)
      BY <1>0, <2>3, <2>4 DEF Storing
    <3>2. Cardinality(Storing(k)') = Cardinality(Storing(k)) + 1
      BY <3>1, StoringFinite, FS_AddElement
    <3>3. counter'[k] = counter[k] + 1 /\ counter[k] < Limit[k[1]]
      BY <1>2, <2>4 DEF BelowLimits
    <3> QED
      BY <1>0, <2>1, <2>2, <3>2, <3>3, StoringFinite, SentFinite DEF Counted
  <2>5. CASE k \notin KeysOf(req[r].user, req[r].ip)
    <3>1. Storing(k)' = Storing(k) /\ counter'[k] = counter[k]
      BY <1>0, <1>2, <2>3, <2>5 DEF Storing
    <3> QED
      BY <1>0, <2>1, <2>2, <3>1, StoringFinite, SentFinite DEF Counted
  <2> QED
    BY <2>4, <2>5
<1> QED
  BY <1>1, <1>2 DEF CheckRateLimit

LEMMA StoreCounts ==
  ASSUME BInv, NEW k \in Keys, Counted(k), NEW r \in Slots, StoreCode(r)
  PROVE  Counted(k)'
<1> USE DEF BInv
<1>0. UNCHANGED <<counter, windows>> /\ pc[r] = "store" /\ Done(r)
  BY DEF StoreCode
<1>1. Storing(k)' = Storing(k) \ {r}
  <2>1. \A s \in Slots : pc'[s] = "store" <=> (pc[s] = "store" /\ s # r)
    BY <1>0 DEF Done, TypeOK, RequestsOK
  <2>2. \A s \in Slots \ {r} : req'[s] = req[s]
    BY <1>0 DEF Done, TypeOK, RequestsOK
  <2> QED
    BY <2>1, <2>2 DEF Storing
<1>2. CASE codes' = codes
  BY <1>0, <1>1, <1>2, NothingSent
<1>3. CASE codes' = Append(codes, <<req[r].user, req[r].ip>>)
  <2>0. req[r].user \in Users /\ req[r].ip \in IPs
    BY <1>0 DEF Serving, Sends
  <2>1. /\ Len(codes') = Len(codes) + 1 /\ Len(codes) \in Nat
        /\ codes'[Len(codes) + 1] = <<req[r].user, req[r].ip>>
        /\ \A i \in 1..Len(codes) : codes'[i] = codes[i]
        /\ DOMAIN codes = 1..Len(codes) /\ DOMAIN codes' = 1..(Len(codes) + 1)
    BY <1>3, <2>0, Sent, LenProperties DEF TypeOK, RequestsOK
  <2>2. 1..(Len(codes) + 1) = 1..Len(codes) \union {Len(codes) + 1}
    BY <2>1
  <2>3. Limit[k[1]] \in Nat /\ windows[k] \in Nat /\ counter[k] \in Nat
        /\ Limit[k[1]] * (windows[k] - 1) \in Int
    BY KeysAre DEF TypeOK, OtpOK
  <2>4. CASE k \in KeysOf(req[r].user, req[r].ip)
    <3>1. r \in Storing(k)
      BY <1>0, <2>4 DEF Storing
    <3>2. Cardinality(Storing(k)') = Cardinality(Storing(k)) - 1
      BY <1>1, <3>1, StoringFinite, FS_RemoveElement
    <3>3. SentUnder(k)' = SentUnder(k) \union {Len(codes) + 1}
          /\ Len(codes) + 1 \notin SentUnder(k)
      BY <2>1, <2>2, <2>4 DEF SentUnder
    <3>4. Cardinality(SentUnder(k)') = Cardinality(SentUnder(k)) + 1
      BY <3>3, SentFinite, FS_AddElement
    <3> QED
      BY <1>0, <2>3, <3>2, <3>4, StoringFinite, SentFinite DEF Counted
  <2>5. CASE k \notin KeysOf(req[r].user, req[r].ip)
    <3>1. r \notin Storing(k)
      BY <2>5 DEF Storing
    <3>2. SentUnder(k)' = SentUnder(k)
      BY <2>1, <2>2, <2>5 DEF SentUnder
    <3> QED
      BY <1>0, <1>1, <2>3, <3>1, <3>2, StoringFinite, SentFinite DEF Counted
  <2> QED
    BY <2>4, <2>5
<1> QED
  BY <1>2, <1>3 DEF StoreCode

LEMMA WindowCounts ==
  ASSUME BInv, NEW k \in Keys, Counted(k), NEW j \in Keys, WindowEnds(j)
  PROVE  Counted(k)'
<1> USE DEF BInv
<1>1. SentUnder(k)' = SentUnder(k) /\ Storing(k)' = Storing(k)
  BY DEF WindowEnds, SentUnder, Storing
<1>2. Limit[k[1]] \in Nat /\ windows[k] \in Nat /\ counter[k] \in Nat
  BY KeysAre DEF TypeOK, OtpOK
<1>3. CASE k # j
  <2>1. windows'[k] = windows[k] /\ counter'[k] = counter[k]
    BY <1>3 DEF WindowEnds, TypeOK, OtpOK
  <2>2. Limit[k[1]] * (windows[k] - 1) \in Int
    BY <1>2
  <2> QED
    BY <1>1, <1>2, <2>1, <2>2, StoringFinite, SentFinite DEF Counted
<1>4. CASE k = j
  <2>1. windows'[k] = windows[k] + 1 /\ counter'[k] = 0
    BY <1>4 DEF WindowEnds, TypeOK, OtpOK
  <2>2. \A l, w \in Nat : w >= 1 => l * (w + 1 - 1) = l * (w - 1) + l /\ l * (w - 1) \in Int
    OBVIOUS
  <2>3. Limit[k[1]] * (windows[k] + 1 - 1) = Limit[k[1]] * (windows[k] - 1) + Limit[k[1]]
        /\ Limit[k[1]] * (windows[k] - 1) \in Int
    BY <1>2, <2>2 DEF Counted
  <2> QED
    BY <1>1, <1>2, <2>1, <2>3, StoringFinite, SentFinite DEF Counted
<1> QED
  BY <1>3, <1>4

(* A step of a request other than the two that count a code and send it. *)
LEMMA OtherStep ==
  ASSUME BInv, NEW r \in Slots,
         Route(r) \/ (Serve(r) /\ ~ CheckRateLimit(r) /\ ~ StoreCode(r))
  PROVE  /\ UNCHANGED <<counter, windows, codes>> /\ pc[r] # "store"
         /\ \E label, q : /\ label # "store" /\ pc' = [pc EXCEPT ![r] = label]
                          /\ req' = req \/ req' = [req EXCEPT ![r] = q]
<1>1. CASE Route(r)
  <2>1. PICK q \in Requests, label \in Labels : Begun(r, q, label)
    BY <1>1, RouteBegins
  <2>2. /\ pc[r] = "idle" /\ label # "store" /\ pc' = [pc EXCEPT ![r] = label]
        /\ req' = [req EXCEPT ![r] = q] /\ UNCHANGED <<counter, windows, codes>>
    BY <2>1 DEF Begun, Begin, otpVars
  <2> QED
    BY <2>2
<1>2. CASE GetCode(r) \/ CountAttempt(r) \/ DelCode(r) \/ DelAttempts(r)
  BY <1>2 DEF GetCode, CountAttempt, DelCode, DelAttempts, Goto, Done
<1>3. CASE UpsertUser(r) \/ StoreRefresh(r) \/ CreateSession(r)
  BY <1>3 DEF UpsertUser, StoreRefresh, CreateSession, Goto, Done, otpVars
<1>4. CASE HasActiveSession(r) \/ IsBlacklisted(r) \/ RefreshAccessToken(r)
  BY <1>4 DEF HasActiveSession, IsBlacklisted, RefreshAccessToken, Goto, Done, otpVars
<1>5. CASE BlacklistToken(r) \/ DeleteRefresh(r) \/ RevokeRow(r)
  BY <1>5 DEF BlacklistToken, DeleteRefresh, RevokeRow, Goto, Done, otpVars
<1>6. CASE RevokeOtherRows(r) \/ DeleteOtherRefreshes(r)
  BY <1>6 DEF RevokeOtherRows, DeleteOtherRefreshes, Goto, Done, otpVars
<1> QED
  BY <1>1, <1>2, <1>3, <1>4, <1>5, <1>6 DEF Serve

LEMMA NextRInv == BInv /\ RInv /\ [Next]_vars => RInv'
<1> SUFFICES ASSUME BInv, RInv, [Next]_vars, NEW k \in Keys PROVE Counted(k)'
  BY DEF RInv
<1>0. Counted(k) /\ TypeOK
  BY DEF RInv, BInv
<1>1. ASSUME NEW r \in Slots, Route(r) \/ Serve(r) PROVE Counted(k)'
  <2>1. CASE CheckRateLimit(r)
    BY <1>0, <2>1, GrantCounts
  <2>2. CASE StoreCode(r)
    BY <1>0, <2>2, StoreCounts
  <2>3. CASE ~ CheckRateLimit(r) /\ ~ StoreCode(r)
    BY <1>0, <1>1, <2>3, OtherStep, StoringKept, NothingSent
  <2> QED
    BY <2>1, <2>2, <2>3
<1>2. ASSUME NEW j \in Keys, WindowEnds(j) PROVE Counted(k)'
  BY <1>0, <1>2, WindowCounts
<1>3. ASSUME UNCHANGED <<counter, windows, codes, pc, req>> PROVE Counted(k)'
  <2>1. Storing(k)' = Storing(k)
    BY <1>3 DEF Storing
  <2> QED
    BY <1>0, <1>3, <2>1, NothingSent
<1>4. ASSUME NEW o \in Owners, LogoutSession(o) PROVE Counted(k)'
  BY <1>3, <1>4 DEF LogoutSession, otpVars
<1>5. ASSUME NEW u \in Users, CodeExpires(u) PROVE Counted(k)'
  BY <1>3, <1>5 DEF CodeExpires
<1>6. CASE UNCHANGED vars
  BY <1>3, <1>6 DEF vars, otpVars
<1> QED
  BY <1>1, <1>2, <1>4, <1>5, <1>6 DEF Next

LEMMA LimitsKept == BInv /\ RInv => SendsKeepTheLimits
<1> SUFFICES ASSUME BInv, RInv, NEW k \in Keys
             PROVE  Cardinality(SentUnder(k)) <= Limit[k[1]] * windows[k]
  BY DEF SendsKeepTheLimits
<1>1. Limit[k[1]] \in Nat /\ windows[k] \in Nat /\ counter[k] \in Nat /\ TypeOK
  BY KeysAre DEF BInv, TypeOK, OtpOK
<1>2. \A l, w \in Nat : l * w = l * (w - 1) + l /\ l * (w - 1) \in Int
  OBVIOUS
<1>3. Limit[k[1]] * windows[k] = Limit[k[1]] * (windows[k] - 1) + Limit[k[1]]
      /\ Limit[k[1]] * (windows[k] - 1) \in Int
  BY <1>1, <1>2
<1>4. Cardinality(SentUnder(k)) \in Nat /\ Cardinality(Storing(k)) \in Nat
  BY <1>1, StoringFinite, SentFinite
<1> QED
  BY <1>1, <1>3, <1>4 DEF RInv, Counted

-----------------------------------------------------------------------------
(* Where requests come one after the other, at most one is at work. *)
LEMMA OnlyOne ==
  ASSUME BInv, InTurn, NEW r \in Slots, NEW label,
         pc[r] # "idle" \/ \A s \in Slots : pc[s] = "idle",
         pc' = [pc EXCEPT ![r] = label]
  PROVE  /\ InTurn'
         /\ \A s \in Slots \ {r} : pc[s] = "idle" /\ pc'[s] = "idle"
         /\ pc'[r] = label
BY DEF BInv, TypeOK, RequestsOK, InTurn

(* A step that compares no guess, counts none and spends no code. *)
LEMMA QuietTurn ==
  ASSUME BInv, OInv, GInv, NEW r \in Slots, NEW label,
         \A s \in Slots \ {r} : pc[s] = "idle" /\ pc'[s] = "idle",
         pc'[r] = label, label \notin {"count", "drop", "forget", "spend"},
         pc[r] \notin {"count", "drop"},
         UNCHANGED <<code, attempts, wrong, logins>>,
         Fresh(r)'
  PROVE  OInv' /\ GInv'
<1>1. \A u \in Users : ~ BeingCounted(u)
  BY DEF BeingCounted
<1>2. ASSUME NEW u \in Users PROVE Guessed(u)'
  BY <1>1 DEF GInv, Guessed
<1>3. ASSUME NEW s \in Slots PROVE Fresh(s)' /\ Counting(s)'
  BY DEF Fresh, Counting
<1> QED
  BY <1>2, <1>3 DEF OInv, GInv

LEMMA StoreCodeTurn ==
  ASSUME BInv, OInv, GInv, NEW r \in Slots, StoreCode(r), "redis" \notin faults,
         \A s \in Slots \ {r} : pc[s] = "idle" /\ pc'[s] = "idle"
  PROVE  OInv' /\ GInv'
<1> USE DEF BInv
<1> DEFINE u0 == req[r].user  n == Len(codes) + 1
<1>1. /\ u0 \in Users /\ req[r].ip \in IPs /\ Len(codes) \in Nat /\ MaxSends \in Nat
      /\ Len(codes) < MaxSends
  BY AuthAssumption, LenProperties DEF StoreCode, Serving, Sends, TypeOK, RequestsOK
<1>2. Len(codes') = n
  BY <1>1, Sent DEF StoreCode, RedisFails
<1>3. /\ code' = [code EXCEPT ![u0] = n] /\ attempts' = [attempts EXCEPT ![u0] = 0]
      /\ UNCHANGED <<wrong, logins>> /\ pc[r] = "store" /\ Done(r)
  BY <1>2 DEF StoreCode, RedisFails
<1>4. n \in Codes /\ n # 0 /\ logins[n] = 0 /\ wrong[n] = 0
  BY <1>1 DEF CodesAreSent, Codes
<1>5. pc'[r] = "idle"
  BY <1>3 DEF Done, TypeOK, RequestsOK
<1>6. \A u \in Users : ~ BeingCounted(u)
  BY <1>3 DEF BeingCounted
<1>7. ASSUME NEW u \in Users, code'[u] # 0
      PROVE  /\ logins'[code'[u]] = 0
             /\ wrong'[code'[u]] <= 2 /\ wrong'[code'[u]] <= attempts'[u]
  <2>1. CASE u = u0
    BY <1>1, <1>3, <1>4, <2>1 DEF TypeOK, OtpOK
  <2>2. CASE u # u0
    BY <1>1, <1>3, <1>6, <1>7, <2>2 DEF TypeOK, RequestsOK, OInv, GInv, Guessed
  <2> QED
    BY <2>1, <2>2
<1>8. ASSUME NEW s \in Slots PROVE Fresh(s)' /\ Counting(s)'
  BY <1>5 DEF Fresh, Counting
<1> QED
  BY <1>3, <1>7, <1>8 DEF OInv, GInv, Guessed

LEMMA GetCodeTurn ==
  ASSUME BInv, OInv, GInv, NEW r \in Slots, GetCode(r),
         \A s \in Slots \ {r} : pc[s] = "idle" /\ pc'[s] = "idle"
  PROVE  OInv' /\ GInv'
<1> USE DEF BInv
<1> DEFINE u0 == req[r].user  c == code[u0]
<1>1. u0 \in Users /\ c \in 0..MaxSends /\ MaxSends \in Nat /\ pc[r] = "get"
  BY AuthAssumption DEF GetCode, Serving, Verifies, TypeOK, OtpOK
<1>2. UNCHANGED <<code, attempts, logins>>
  BY DEF GetCode
<1>3. CASE Done(r) /\ UNCHANGED wrong
  <2>1. pc'[r] = "idle" /\ Fresh(r)'
    BY <1>3 DEF Done, TypeOK, RequestsOK, Fresh
  <2> QED
    BY <1>1, <1>2, <1>3, <2>1, QuietTurn
<1>4. CASE c # 0 /\ req[r].guess = c /\ Goto(r, "take") /\ UNCHANGED wrong
  <2>1. pc'[r] = "take" /\ req' = req
    BY <1>4 DEF Goto, TypeOK, RequestsOK
  <2>2. Fresh(r)'
    BY <1>1, <1>2, <1>4, <2>1 DEF Fresh, OInv
  <2> QED
    BY <1>1, <1>2, <1>4, <2>1, <2>2, QuietTurn
<1>5. CASE c # 0 /\ wrong' = [wrong EXCEPT ![c] = @ + 1] /\ Goto(r, "count")
  <2>0. pc'[r] = "count" /\ req' = req /\ c \in Codes
    BY <1>1, <1>5 DEF Goto, TypeOK, RequestsOK, Codes
  <2>1. wrong[c] <= 2 /\ wrong[c] <= attempts[u0] /\ wrong[c] \in Nat /\ attempts[u0] \in Nat
    <3>1. ~ BeingCounted(u0)
      BY <1>1 DEF BeingCounted
    <3> QED
      BY <1>1, <1>5, <2>0, <3>1 DEF GInv, Guessed, TypeOK, OtpOK
  <2>2. wrong'[c] = wrong[c] + 1 /\ \A d \in Codes \ {c} : wrong'[d] = wrong[d]
    BY <1>5, <2>0 DEF TypeOK, OtpOK
  <2>3. \A d \in Codes : wrong'[d] <= 3
    BY <2>1, <2>2 DEF GInv
  <2>4. pc'[r] \in {"count", "drop"} /\ req'[r].user = u0
    BY <2>0
  <2>5. ASSUME NEW u \in Users PROVE Guessed(u)'
    <3>1. CASE u = u0
      BY <2>4, <3>1 DEF Guessed, BeingCounted
    <3>2. CASE u # u0 /\ code[u] # 0
      <4>1. code[u] \in Codes \ {c}
        <5>1. codes[c][1] = u0 /\ codes[code[u]][1] = u
          BY <1>1, <1>5, <3>2 DEF CodesAreSent
        <5>2. code[u] \in Codes
          BY <1>1, <3>2 DEF TypeOK, OtpOK, Codes
        <5> QED
          BY <3>2, <5>1, <5>2
      <4>2. ~ BeingCounted(u)
        BY <1>1 DEF BeingCounted
      <4> QED
        BY <1>2, <2>2, <3>2, <4>1, <4>2 DEF GInv, Guessed
    <3>3. CASE code[u] = 0
      BY <1>2, <3>3 DEF Guessed
    <3> QED
      BY <3>1, <3>2, <3>3
  <2>6. ASSUME NEW s \in Slots PROVE Counting(s)' /\ Fresh(s)'
    BY <1>2, <2>0, <2>1, <2>2 DEF Counting, Fresh
  <2> QED
    BY <1>2, <2>3, <2>5, <2>6 DEF OInv, GInv
<1> QED
  BY <1>3, <1>4, <1>5 DEF GetCode

LEMMA CountAttemptTurn ==
  ASSUME BInv, OInv, GInv, NEW r \in Slots, CountAttempt(r), "redis" \notin faults,
         \A s \in Slots \ {r} : pc[s] = "idle" /\ pc'[s] = "idle"
  PROVE  OInv' /\ GInv'
<1> USE DEF BInv
<1> DEFINE u0 == req[r].user
<1>1. u0 \in Users /\ attempts[u0] \in Nat /\ pc[r] = "count"
  BY DEF CountAttempt, Serving, Verifies, TypeOK, OtpOK
<1>2. UNCHANGED <<code, wrong, logins>> /\ attempts' = [attempts EXCEPT ![u0] = @ + 1]
  BY DEF CountAttempt, RedisFails
<1>3. attempts'[u0] = attempts[u0] + 1 /\ \A u \in Users \ {u0} : attempts'[u] = attempts[u]
  BY <1>1, <1>2 DEF TypeOK, OtpOK
<1>4. \A u \in Users \ {u0} : ~ BeingCounted(u)
  BY DEF BeingCounted
<1>5. code[u0] # 0 => wrong[code[u0]] <= attempts'[u0] /\ wrong[code[u0]] \in Nat
  <2>1. MaxSends \in Nat /\ code[u0] \in 0..MaxSends
    BY <1>1, AuthAssumption DEF TypeOK, OtpOK
  <2>2. code[u0] # 0 => code[u0] \in Codes
    BY <2>1 DEF Codes
  <2> QED
    BY <1>1, <1>3, <2>2 DEF GInv, Counting, TypeOK, OtpOK
<1>6. \A u \in Users \ {u0} : Guessed(u)'
  BY <1>2, <1>3, <1>4 DEF GInv, Guessed
<1>7. CASE attempts'[u0] >= 3 /\ Goto(r, "drop")
  <2>1. pc'[r] = "drop" /\ req' = req
    BY <1>7 DEF Goto, TypeOK, RequestsOK
  <2>2. \A u \in Users : u = u0 => Guessed(u)'
    BY <2>1 DEF Guessed, BeingCounted
  <2>3. ASSUME NEW s \in Slots PROVE Counting(s)' /\ Fresh(s)'
    BY <2>1 DEF Counting, Fresh
  <2> QED
    BY <1>2, <1>6, <2>2, <2>3 DEF OInv, GInv
<1>8. CASE ~ (attempts'[u0] >= 3) /\ Done(r)
  <2>1. pc'[r] = "idle"
    BY <1>8 DEF Done, TypeOK, RequestsOK
  <2>2. \A u \in Users : u = u0 => Guessed(u)'
    BY <1>1, <1>2, <1>3, <1>5, <1>8 DEF Guessed
  <2>3. ASSUME NEW s \in Slots PROVE Counting(s)' /\ Fresh(s)'
    BY <2>1 DEF Counting, Fresh
  <2> QED
    BY <1>2, <1>6, <2>2, <2>3 DEF OInv, GInv
<1> QED
  BY <1>7, <1>8 DEF CountAttempt, RedisFails

LEMMA DelCodeTurn ==
  ASSUME BInv, OInv, GInv, NEW r \in Slots, DelCode(r), "redis" \notin faults,
         \A s \in Slots \ {r} : pc[s] = "idle" /\ pc'[s] = "idle"
  PROVE  OInv' /\ GInv'
<1> USE DEF BInv
<1> DEFINE u0 == req[r].user
<1>1. u0 \in Users /\ pc[r] \in {"drop", "take"}
  BY DEF DelCode, Serving, Verifies
<1>2. /\ UNCHANGED <<attempts, wrong, logins>> /\ req' = req
      /\ code' = [code EXCEPT ![u0] = 0]
  BY DEF DelCode, RedisFails, Goto
<1>3. code'[u0] = 0 /\ \A u \in Users \ {u0} : code'[u] = code[u]
  BY <1>1, <1>2 DEF TypeOK, OtpOK
<1>4. \A u \in Users \ {u0} : ~ BeingCounted(u)
  BY DEF BeingCounted
<1>5. \A u \in Users : Guessed(u)' /\ (code'[u] # 0 => logins'[code'[u]] = 0)
  BY <1>2, <1>3, <1>4 DEF OInv, GInv, Guessed
<1>6. Counting(r)' /\ Fresh(r)'
  <2>1. CASE pc[r] = "drop"
    <3>1. pc'[r] = "forget"
      BY <2>1 DEF DelCode, Goto, TypeOK, RequestsOK
    <3> QED
      BY <1>2, <1>3, <3>1 DEF Counting, Fresh
  <2>2. CASE pc[r] = "take"
    <3>1. pc'[r] = "spend"
      BY <2>2 DEF DelCode, Goto, TypeOK, RequestsOK
    <3>2. logins[req[r].guess] = 0 /\ codes[req[r].guess][1] = u0 /\ req[r].guess # 0
      BY <2>2 DEF OInv, Fresh, Serving
    <3>3. ASSUME NEW u \in Users PROVE code'[u] # req[r].guess
      BY <1>1, <1>3, <3>2 DEF CodesAreSent
    <3> QED
      BY <1>2, <1>3, <3>1, <3>2, <3>3 DEF Counting, Fresh
  <2> QED
    BY <1>1, <2>1, <2>2
<1>7. ASSUME NEW s \in Slots \ {r} PROVE Counting(s)' /\ Fresh(s)'
  BY DEF Counting, Fresh
<1> QED
  BY <1>2, <1>5, <1>6, <1>7 DEF OInv, GInv

LEMMA DelAttemptsTurn ==
  ASSUME BInv, OInv, GInv, NEW r \in Slots, DelAttempts(r), "redis" \notin faults,
         \A s \in Slots \ {r} : pc[s] = "idle" /\ pc'[s] = "idle"
  PROVE  OInv' /\ GInv'
<1> USE DEF BInv
<1> DEFINE u0 == req[r].user
<1>1. u0 \in Users /\ pc[r] \in {"forget", "spend"} /\ code[u0] = 0
  BY DEF DelAttempts, Serving, Verifies, GInv, Counting
<1>2. UNCHANGED <<code, wrong, logins>> /\ attempts' = [attempts EXCEPT ![u0] = 0]
  BY DEF DelAttempts, RedisFails
<1>3. \A u \in Users : ~ BeingCounted(u)
  BY <1>1 DEF BeingCounted
<1>4. ASSUME NEW u \in Users PROVE Guessed(u)'
  BY <1>1, <1>2, <1>3 DEF GInv, Guessed, TypeOK, RequestsOK
<1>5. Counting(r)' /\ Fresh(r)'
  <2>1. CASE pc[r] = "forget"
    <3>1. pc'[r] = "idle"
      BY <2>1 DEF DelAttempts, Done, TypeOK, RequestsOK
    <3> QED
      BY <3>1 DEF Counting, Fresh
  <2>2. CASE pc[r] = "spend"
    <3>1. pc'[r] = "upsert" /\ req' = req
      BY <2>2 DEF DelAttempts, Goto, TypeOK, RequestsOK
    <3> QED
      BY <1>2, <2>2, <3>1 DEF OInv, Counting, Fresh
  <2> QED
    BY <1>1, <2>1, <2>2
<1>6. ASSUME NEW s \in Slots \ {r} PROVE Counting(s)' /\ Fresh(s)'
  BY DEF Counting, Fresh
<1> QED
  BY <1>2, <1>4, <1>5, <1>6 DEF OInv, GInv

LEMMA StoreRefreshTurn ==
  ASSUME BInv, OInv, GInv, NEW r \in Slots, StoreRefresh(r), "redis" \notin faults,
         \A s \in Slots \ {r} : pc[s] = "idle" /\ pc'[s] = "idle"
  PROVE  OInv' /\ GInv'
<1> USE DEF BInv
<1> DEFINE g == req[r].guess
<1>1. pc[r] = "hash" /\ Goto(r, "row") /\ UNCHANGED <<code, attempts, wrong>>
      /\ logins' = [logins EXCEPT ![g] = @ + 1]
  BY DEF StoreRefresh, RedisFails
<1>2. logins[g] = 0 /\ \A u \in Users : code[u] # g
  BY <1>1 DEF OInv, Fresh
<1>3. pc'[r] = "row"
  BY <1>1 DEF Goto, TypeOK, RequestsOK
<1>4. \A c \in Codes : logins'[c] = IF c = g THEN 1 ELSE logins[c]
  BY <1>1, <1>2 DEF TypeOK, OtpOK
<1>5. \A c \in Codes : logins'[c] <= 1
  BY <1>4 DEF OInv
<1>6. ASSUME NEW u \in Users, code[u] # 0 PROVE logins'[code[u]] = 0
  <2>1. MaxSends \in Nat /\ code[u] \in 0..MaxSends
    BY AuthAssumption DEF TypeOK, OtpOK
  <2>2. code[u] \in Codes
    BY <1>6, <2>1 DEF Codes
  <2> QED
    BY <1>2, <1>4, <1>6, <2>2 DEF OInv
<1>7. \A u \in Users : ~ BeingCounted(u)
  BY <1>1 DEF BeingCounted
<1>8. \A u \in Users : Guessed(u)'
  BY <1>1, <1>7 DEF GInv, Guessed
<1>9. ASSUME NEW s \in Slots PROVE Counting(s)' /\ Fresh(s)'
  BY <1>3 DEF Counting, Fresh
<1> QED
  BY <1>1, <1>5, <1>6, <1>8, <1>9 DEF OInv, GInv

(* The other steps of a request. *)
LEMMA OtherTurn ==
  ASSUME BInv, OInv, GInv, NEW r \in Slots,
         \/ CheckRateLimit(r) \/ UpsertUser(r) \/ CreateSession(r) \/ HasActiveSession(r)
         \/ IsBlacklisted(r) \/ RefreshAccessToken(r) \/ BlacklistToken(r)
         \/ DeleteRefresh(r) \/ RevokeRow(r) \/ RevokeOtherRows(r) \/ DeleteOtherRefreshes(r),
         \A s \in Slots \ {r} : pc[s] = "idle" /\ pc'[s] = "idle"
  PROVE  OInv' /\ GInv'
<1>0. pc \in [Slots -> Labels]
  BY DEF BInv, TypeOK, RequestsOK
<1>1. CASE UpsertUser(r)
  <2>1. UNCHANGED <<code, attempts, wrong, logins>> /\ pc[r] = "upsert"
    BY <1>1 DEF UpsertUser, otpVars
  <2>2. pc'[r] = "idle" \/ (pc'[r] = "hash" /\ req' = req)
    BY <1>0, <1>1 DEF UpsertUser, Goto, Done
  <2>3. Fresh(r)'
    BY <2>1, <2>2 DEF Fresh, OInv
  <2> QED
    BY <2>1, <2>2, <2>3, QuietTurn
<1>2. CASE ~ UpsertUser(r)
  <2>1. /\ UNCHANGED <<code, attempts, wrong, logins>>
        /\ pc[r] \notin {"count", "drop"}
        /\ pc'[r] \in {"idle", "store", "listed", "match", "unhash", "unhashOthers"}
    <3>1. CASE CheckRateLimit(r)
      BY <1>0, <3>1 DEF CheckRateLimit, Goto, Done
    <3>2. CASE CreateSession(r) \/ HasActiveSession(r) \/ IsBlacklisted(r)
               \/ RefreshAccessToken(r)
      BY <1>0, <3>2 DEF CreateSession, HasActiveSession, IsBlacklisted, RefreshAccessToken,
                        Goto, Done, otpVars
    <3>3. CASE BlacklistToken(r) \/ DeleteRefresh(r) \/ RevokeRow(r)
      BY <1>0, <3>3 DEF BlacklistToken, DeleteRefresh, RevokeRow, Goto, Done, otpVars
    <3>4. CASE RevokeOtherRows(r) \/ DeleteOtherRefreshes(r)
      BY <1>0, <3>4 DEF RevokeOtherRows, DeleteOtherRefreshes, Goto, Done, otpVars
    <3> QED
      BY <1>2, <3>1, <3>2, <3>3, <3>4
  <2>2. Fresh(r)'
    BY <2>1 DEF Fresh
  <2> QED
    BY <2>1, <2>2, QuietTurn
<1> QED
  BY <1>1, <1>2

(* A step moves one request, which is at work already unless it comes in.  *)
LEMMA OneMoves ==
  ASSUME BInv, NEW r \in Slots, Route(r) \/ Serve(r)
  PROVE  /\ faults' = faults /\ \E label : pc' = [pc EXCEPT ![r] = label]
         /\ Serve(r) => pc[r] # "idle"
         /\ Route(r) /\ "overlap" \notin faults => \A s \in Slots : pc[s] = "idle"
<1>1. CASE Route(r)
  <2>1. PICK q \in Requests, label \in Labels : Begun(r, q, label)
    BY <1>1, RouteBegins
  <2>2. /\ pc[r] = "idle" /\ pc' = [pc EXCEPT ![r] = label] /\ faults' = faults
        /\ "overlap" \notin faults => \A s \in Slots : pc[s] = "idle"
    BY <2>1 DEF Begun, Begin, Expected
  <2>3. ~ Serve(r)
    BY <2>2 DEF Serve, CheckRateLimit, StoreCode, GetCode, CountAttempt, DelCode,
                DelAttempts, UpsertUser, StoreRefresh, CreateSession, HasActiveSession,
                IsBlacklisted, RefreshAccessToken, BlacklistToken, DeleteRefresh, RevokeRow,
                RevokeOtherRows, DeleteOtherRefreshes
  <2> QED
    BY <2>2, <2>3
<1>2. CASE Serve(r) /\ ~ Route(r)
  <2>1. CASE CheckRateLimit(r) \/ StoreCode(r) \/ GetCode(r) \/ CountAttempt(r)
    BY <2>1, <1>2 DEF CheckRateLimit, StoreCode, GetCode, CountAttempt, Goto, Done
  <2>2. CASE DelCode(r) \/ DelAttempts(r) \/ UpsertUser(r) \/ StoreRefresh(r)
    BY <2>2, <1>2 DEF DelCode, DelAttempts, UpsertUser, StoreRefresh, Goto, Done
  <2>3. CASE CreateSession(r) \/ HasActiveSession(r) \/ IsBlacklisted(r) \/ RefreshAccessToken(r)
    BY <2>3, <1>2 DEF CreateSession, HasActiveSession, IsBlacklisted, RefreshAccessToken,
                      Goto, Done
  <2>4. CASE BlacklistToken(r) \/ DeleteRefresh(r) \/ RevokeRow(r)
    BY <2>4, <1>2 DEF BlacklistToken, DeleteRefresh, RevokeRow, Goto, Done
  <2>5. CASE RevokeOtherRows(r) \/ DeleteOtherRefreshes(r)
    BY <2>5, <1>2 DEF RevokeOtherRows, DeleteOtherRefreshes, Goto, Done
  <2> QED
    BY <1>2, <2>1, <2>2, <2>3, <2>4, <2>5 DEF Serve
<1> QED
  BY <1>1, <1>2

LEMMA InitTurnInv == Init => TurnInv
<1> SUFFICES ASSUME Init PROVE TurnInv OBVIOUS
<1>1. InTurn
  BY DEF Init, InTurn
<1>2. OInv
  BY DEF Init, OInv, Fresh
<1>3. GInv
  BY DEF Init, GInv, Guessed, Counting
<1> QED
  BY <1>1, <1>2, <1>3 DEF TurnInv

LEMMA NextTurnInv == BInv /\ TurnInv /\ [Next]_vars => TurnInv'
<1> SUFFICES ASSUME BInv, TurnInv, [Next]_vars PROVE TurnInv' OBVIOUS
<1>1. ASSUME NEW r \in Slots, Route(r) \/ Serve(r) PROVE TurnInv'
  <2>1. PICK label : pc' = [pc EXCEPT ![r] = label]
    BY <1>1, OneMoves
  <2>2. faults' = faults
    BY <1>1, OneMoves
  <2>3. ASSUME "overlap" \notin faults
        PROVE  InTurn' /\ \A s \in Slots \ {r} : pc[s] = "idle" /\ pc'[s] = "idle"
    BY <1>1, <2>1, <2>3, OneMoves, OnlyOne DEF TurnInv
  <2>4. ASSUME "overlap" \notin faults, "redis" \notin faults
        PROVE  OInv' /\ GInv'
    <3>1. OInv /\ GInv /\ \A s \in Slots \ {r} : pc[s] = "idle" /\ pc'[s] = "idle"
      BY <2>3, <2>4 DEF TurnInv
    <3>2. CASE Route(r)
      <4>1. PICK q \in Requests, first \in Labels : Begun(r, q, first)
        BY <3>2, RouteBegins
      <4>2. /\ pc[r] = "idle" /\ pc'[r] = first
            /\ first \in {"limit", "get", "active", "black", "revoke", "others"}
            /\ UNCHANGED <<code, attempts, wrong, logins>>
        BY <4>1 DEF Begun, Begin, otpVars, BInv, TypeOK, RequestsOK
      <4>3. Fresh(r)'
        BY <4>2 DEF Fresh
      <4> QED
        BY <3>1, <4>2, <4>3, QuietTurn
    <3>3. CASE Serve(r)
      BY <2>4, <3>1, <3>3, StoreCodeTurn, GetCodeTurn, CountAttemptTurn, DelCodeTurn,
         DelAttemptsTurn, StoreRefreshTurn, OtherTurn DEF Serve
    <3> QED
      BY <1>1, <3>2, <3>3
  <2> QED
    BY <2>2, <2>3, <2>4 DEF TurnInv
<1>2. ASSUME NEW u \in Users, CodeExpires(u) PROVE TurnInv'
  <2>1. UNCHANGED <<faults, pc, req, wrong, logins>>
    BY <1>2 DEF CodeExpires
  <2>2. InTurn => InTurn'
    BY <2>1 DEF InTurn
  <2>3. \A v \in Users : /\ code'[v] # 0 => code'[v] = code[v] /\ attempts'[v] = attempts[v]
                         /\ code[v] = 0 => code'[v] = 0
    BY <1>2 DEF CodeExpires, BInv, TypeOK, OtpOK
  <2>4. ASSUME OInv, GInv PROVE OInv' /\ GInv'
    <3>1. \A v \in Users : Guessed(v)' /\ (code'[v] # 0 => logins'[code'[v]] = 0)
      BY <2>1, <2>3, <2>4 DEF OInv, GInv, Guessed, BeingCounted
    <3>2. ASSUME NEW s \in Slots PROVE Fresh(s)'
      BY <2>1, <2>3, <2>4 DEF OInv, Fresh, BInv, Serving
    <3>3. ASSUME NEW s \in Slots PROVE Counting(s)'
      <4>1. pc[s] \in {"count", "forget", "spend"} => req[s].user \in Users
        BY DEF BInv, Serving, Verifies
      <4> QED
        BY <2>1, <2>3, <2>4, <4>1 DEF GInv, Counting
    <3> QED
      BY <2>1, <2>4, <3>1, <3>2, <3>3 DEF OInv, GInv
  <2> QED
    BY <2>1, <2>2, <2>4 DEF TurnInv
<1>3. ASSUME UNCHANGED <<faults, pc, req, code, attempts, wrong, logins>> PROVE TurnInv'
  BY <1>3 DEF TurnInv, InTurn, OInv, GInv, Fresh, Guessed, BeingCounted, Counting
<1>4. ASSUME NEW o \in Owners, LogoutSession(o) PROVE TurnInv'
  BY <1>3, <1>4 DEF LogoutSession, otpVars
<1>5. ASSUME NEW k \in Keys, WindowEnds(k) PROVE TurnInv'
  BY <1>3, <1>5 DEF WindowEnds
<1>6. CASE UNCHANGED vars
  BY <1>3, <1>6 DEF vars, otpVars
<1> QED
  BY <1>1, <1>2, <1>4, <1>5, <1>6 DEF Next

(* However requests and windows follow on each other, no more codes are    *)
(* sent under a key than its limit grants, also where requests overlap and *)
(* calls fail; and where requests come in turn and Redis works, a code is  *)
(* good for one login and three wrong guesses.                             *)
THEOREM LimitedCodes == Spec => []CodesAreLimited
<1>1. BInv /\ RInv /\ TurnInv => CodesAreLimited
  BY LimitsKept
  DEF TurnInv, OInv, GInv, CodesAreLimited, CodeLogsInOnce, WrongGuessesAreLimited
<1> QED
  BY <1>1, SpecBInv, InitRInv, NextRInv, InitTurnInv, NextTurnInv, PTL DEF Spec

-----------------------------------------------------------------------------
(* The requests that wait for this step wait on. *)
Waits(label) == \A s \in Slots : pc[s] = label => pc'[s] = label /\ req'[s] = req[s]

LEMMA Waiting ==
  ASSUME BInv, NEW r \in Slots, Done(r) \/ \E label : Goto(r, label)
  PROVE  /\ faults' = faults
         /\ \A label : pc[r] # label => Waits(label)
<1>1. faults' = faults /\ \A s \in Slots \ {r} : pc'[s] = pc[s] /\ req'[s] = req[s]
  BY DEF Goto, Done, BInv, TypeOK, RequestsOK
<1> QED
  BY <1>1 DEF Waits

(* What was signed out stays so: no sign-out is taken back, and a hash is  *)
(* deleted or that of a token not signed before.                           *)
LEMMA EndedStays ==
  ASSUME BInv, EndedIsDropped, faults' = faults, NEW owners \in SUBSET Owners,
         ended' = ended \union {t \in tokens : t.owner \in owners},
         \A o \in Owners : session[o] = "loggedOut" => session'[o] = "loggedOut",
         \A o \in Owners : stored'[o] \in {stored[o], 0} \/ stored'[o] > Signed,
         revoked \subseteq revoked',
         "redis" \notin faults => \A o \in owners : Marked(o)' \/ stored'[o] = 0
  PROVE  EndedIsDropped'
<1> SUFFICES ASSUME "redis" \notin faults, NEW t \in ended'
             PROVE  Marked(t.owner)' \/ stored'[t.owner] # t.id
  BY DEF EndedIsDropped
<1>1. t \in tokens
  BY DEF BInv, TypeOK, HistoryOK
<1>2. t.owner \in Owners /\ t.id \in 1..MaxTokens /\ t.id <= Signed /\ Signed \in Nat
  BY <1>1, OwnerType, SignedIsNat DEF BInv, TokensAreNumbered
<1>3. MaxTokens \in Nat
  BY AuthAssumption
<1>4. CASE t.owner \in owners
  BY <1>2, <1>3, <1>4
<1>5. CASE t \in ended
  <2>1. Marked(t.owner)' \/ stored[t.owner] # t.id
    BY <1>2, <1>5 DEF EndedIsDropped, Marked
  <2>2. CASE stored'[t.owner] \in {stored[t.owner], 0}
    BY <1>2, <1>3, <2>1, <2>2
  <2>3. CASE stored'[t.owner] > Signed
    BY <1>2, <1>3, <2>3
  <2> QED
    BY <1>2, <2>2, <2>3
<1> QED
  BY <1>4, <1>5

LEMMA LatestStays ==
  ASSUME BInv, LatestIsStored, tokens \subseteq tokens',
         \A t \in tokens' \ tokens : t.use = "access",
         \A o \in Owners \ closed' : o \notin closed /\ stored'[o] = stored[o]
  PROVE  LatestIsStored'
BY DEF LatestIsStored, Latest

LEMMA LoggedOutStays ==
  ASSUME LoggedOutIsClosed, closed \subseteq closed', Waits("unhashOthers"),
         \A o \in Owners : session'[o] = "loggedOut" => session[o] = "loggedOut" \/ o \in closed'
  PROVE  LoggedOutIsClosed'
<1> SUFFICES ASSUME NEW o \in Owners, session'[o] = "loggedOut", o \notin closed'
             PROVE \E r \in Slots : pc'[r] = "unhashOthers" /\ o \in Others(req'[r].token.owner)
  BY DEF LoggedOutIsClosed, Others
<1>1. PICK r \in Slots : pc[r] = "unhashOthers" /\ o \in Others(req[r].token.owner)
  BY DEF LoggedOutIsClosed
<1> QED
  BY <1>1 DEF Waits

LEMMA RowStays ==
  ASSUME OwnerHasRow, faults' = faults, Waits("row"),
         \A t \in tokens' : \E v \in tokens : v.owner = t.owner,
         \A t \in tokens : session'[t.owner] = "none" => session[t.owner] = "none"
  PROVE  OwnerHasRow'
<1> SUFFICES ASSUME "db" \notin faults, NEW t \in tokens', session'[t.owner] = "none"
             PROVE \E r \in Slots : pc'[r] = "row" /\ <<req'[r].user, req'[r].device>> = t.owner
  BY DEF OwnerHasRow
<1>1. PICK v \in tokens : v.owner = t.owner
  OBVIOUS
<1>2. PICK r \in Slots : pc[r] = "row" /\ <<req[r].user, req[r].device>> = v.owner
  BY <1>1 DEF OwnerHasRow
<1> QED
  BY <1>1, <1>2 DEF Waits

LEMMA BlackStays ==
  ASSUME BInv, BlackIsClosed, blacklist' = blacklist, closed \subseteq closed',
         Waits("unhash"), \A t \in tokens' \ tokens : t.id \in Nat /\ t.id > Signed
  PROVE  BlackIsClosed'
<1> SUFFICES ASSUME NEW t \in tokens', t.id \in blacklist, t.owner \notin closed'
             PROVE \E r \in Slots : pc'[r] = "unhash" /\ req'[r].token.owner = t.owner
  BY DEF BlackIsClosed, At
<1>1. t \in tokens
  <2>1. Signed \in Nat /\ t.id <= Signed
    BY SignedIsNat DEF BInv, TokensAreNumbered
  <2> QED
    BY <2>1
<1>2. PICK r \in Slots : pc[r] = "unhash" /\ req[r].token.owner = t.owner
  BY <1>1 DEF BlackIsClosed, At
<1> QED
  BY <1>2 DEF Waits

(* A step that leaves the sessions alone. *)
LEMMA SessionsStay ==
  ASSUME BInv, ExactInv, faults' = faults, UNCHANGED sessionVars,
         Waits("row"), Waits("unhash"), Waits("unhashOthers")
  PROVE  ExactInv'
<1> USE DEF ExactInv, SInv, sessionVars
<1>1. EndedIsDropped'
  BY DEF EndedIsDropped, Marked
<1>2. LatestIsStored'
  BY DEF LatestIsStored, Latest
<1>3. LoggedOutIsClosed' /\ OwnerHasRow' /\ BlackIsClosed'
  BY LoggedOutStays, RowStays, BlackStays
<1>4. BackgroundIsClosed'
  BY DEF BackgroundIsClosed
<1> QED
  BY <1>1, <1>2, <1>3, <1>4

LEMMA StoreRefreshExact ==
  ASSUME BInv, ExactInv, NEW r \in Slots, StoreRefresh(r)
  PROVE  ExactInv'
<1> USE DEF ExactInv, SInv
<1>0. pc[r] = "hash"
      /\ UNCHANGED <<session, blacklist, background, ended, closed, revoked, revived>>
  BY DEF StoreRefresh
<1>1. Done(r) \/ Goto(r, "row")
  BY DEF StoreRefresh
<1>2. faults' = faults /\ Waits("row") /\ Waits("unhash") /\ Waits("unhashOthers")
  BY <1>0, <1>1, Waiting
<1>3. CASE UNCHANGED <<stored, tokens>>
  BY <1>0, <1>2, <1>3, SessionsStay DEF sessionVars
<1>4. CASE ~ UNCHANGED <<stored, tokens>>
  <2> DEFINE owner == <<req[r].user, req[r].device>>
             b == NewToken(Signed + 2, owner, "refresh")
  <2>1. /\ Signed + 2 <= MaxTokens /\ stored' = [stored EXCEPT ![owner] = Signed + 2]
        /\ tokens' = tokens \union {NewToken(Signed + 1, owner, "access"), b}
        /\ Goto(r, "row")
    BY <1>4 DEF StoreRefresh
  <2>2. owner \in Owners /\ Signed \in Nat
    BY <1>0, SignedIsNat DEF BInv, Serving, Verifies, Owners
  <2>3. stored'[owner] = Signed + 2 /\ \A o \in Owners \ {owner} : stored'[o] = stored[o]
    BY <2>1, <2>2 DEF BInv, TypeOK, SessionsOK
  <2>4. pc'[r] = "row" /\ req' = req
    BY <2>1 DEF Goto, BInv, TypeOK, RequestsOK
  <2>5. EndedIsDropped'
    <3>1. ended' = ended \union {t \in tokens : t.owner \in {}}
      BY <1>0
    <3>2. \A o \in Owners : stored'[o] \in {stored[o], 0} \/ stored'[o] > Signed
      BY <2>2, <2>3
    <3> QED
      BY <1>0, <1>2, <3>1, <3>2, EndedStays
  <2>6. LatestIsStored'
    <3> SUFFICES ASSUME NEW o \in Owners \ closed, NEW t \in Latest(o)'
                 PROVE  stored'[o] = t.id
      BY <1>0 DEF LatestIsStored
    <3>0. /\ t \in tokens' /\ t.owner = o /\ t.use = "refresh"
          /\ \A v \in tokens' : v.owner = o /\ v.use = "refresh" => v.id <= t.id
      BY DEF Latest
    <3>1. CASE o = owner
      <4>1. b \in tokens' /\ b.owner = owner /\ b.use = "refresh" /\ b.id = Signed + 2
        BY <2>1 DEF NewToken
      <4>2. t.id <= Signed + 2 /\ t.id \in Nat
        BY <2>1, <2>2, <3>0, SignTwo DEF BInv, Token
      <4>3. t.id = Signed + 2
        BY <2>2, <3>0, <3>1, <4>1, <4>2
      <4> QED
        BY <2>3, <3>1, <4>3
    <3>2. CASE o # owner
      <4>1. t \in tokens
        BY <2>1, <3>0, <3>2 DEF NewToken
      <4>2. t \in Latest(o)
        BY <2>1, <3>0, <4>1 DEF Latest
      <4> QED
        BY <2>3, <3>2, <4>2 DEF LatestIsStored
    <3> QED
      BY <3>1, <3>2
  <2>7. LoggedOutIsClosed'
    BY <1>0, <1>2, LoggedOutStays
  <2>8. OwnerHasRow'
    <3> SUFFICES ASSUME "db" \notin faults, NEW t \in tokens', session[t.owner] = "none"
                 PROVE \E s \in Slots : pc'[s] = "row" /\ <<req'[s].user, req'[s].device>> = t.owner
      BY <1>0, <1>2 DEF OwnerHasRow
    <3>1. CASE t \in tokens
      <4>1. PICK s \in Slots : pc[s] = "row" /\ <<req[s].user, req[s].device>> = t.owner
        BY <3>1 DEF OwnerHasRow
      <4> QED
        BY <1>2, <4>1 DEF Waits
    <3>2. CASE t \notin tokens
      BY <2>1, <2>4, <3>2 DEF NewToken
    <3> QED
      BY <3>1, <3>2
  <2>9. BlackIsClosed'
    <3>1. \A t \in tokens' \ tokens : t.id \in Nat /\ t.id > Signed
      BY <2>1, <2>2 DEF NewToken
    <3> QED
      BY <1>0, <1>2, <3>1, BlackStays
  <2> QED
    BY <1>0, <2>5, <2>6, <2>7, <2>8, <2>9 DEF BackgroundIsClosed
<1> QED
  BY <1>3, <1>4

LEMMA CreateSessionExact ==
  ASSUME BInv, ExactInv, NEW r \in Slots, CreateSession(r)
  PROVE  ExactInv'
<1> USE DEF ExactInv, SInv
<1> DEFINE owner == <<req[r].user, req[r].device>>
<1>0. pc[r] = "row" /\ Done(r)
      /\ UNCHANGED <<stored, blacklist, tokens, background, ended, closed, revoked>>
  BY DEF CreateSession
<1>1. faults' = faults /\ Waits("unhash") /\ Waits("unhashOthers")
  BY <1>0, Waiting
<1>2. \A o \in Owners : session'[o] = session[o] \/ (session[o] = "none" /\ session'[o] = "active")
  BY DEF CreateSession, BInv, TypeOK, SessionsOK
<1>3. EndedIsDropped'
  <2>1. ended' = ended \union {t \in tokens : t.owner \in {}}
    BY <1>0
  <2> QED
    BY <1>0, <1>1, <1>2, <2>1, EndedStays
<1>4. LatestIsStored' /\ LoggedOutIsClosed' /\ BlackIsClosed'
  BY <1>0, <1>1, <1>2, LatestStays, LoggedOutStays, BlackStays
<1>5. OwnerHasRow'
  <2> SUFFICES ASSUME "db" \notin faults, NEW t \in tokens, session'[t.owner] = "none"
               PROVE \E s \in Slots : pc'[s] = "row" /\ <<req'[s].user, req'[s].device>> = t.owner
    BY <1>0, <1>1 DEF OwnerHasRow
  <2>1. t.owner \in Owners
    BY OwnerType DEF BInv
  <2>2. PICK s \in Slots : pc[s] = "row" /\ <<req[s].user, req[s].device>> = t.owner
    BY <1>2, <2>1 DEF OwnerHasRow
  <2>3. s # r
    <3>1. session' = [session EXCEPT ![owner] = IF @ = "none" THEN "active" ELSE @]
      BY DEF CreateSession, DBFails
    <3> QED
      BY <2>1, <2>2, <3>1 DEF BInv, TypeOK, SessionsOK
  <2>4. pc'[s] = "row" /\ req'[s] = req[s]
    BY <1>0, <2>2, <2>3 DEF Done, BInv, TypeOK, RequestsOK
  <2> QED
    BY <2>2, <2>4
<1> QED
  BY <1>0, <1>3, <1>4, <1>5 DEF BackgroundIsClosed

LEMMA RefreshExact ==
  ASSUME BInv, ExactInv, NEW r \in Slots, RefreshAccessToken(r)
  PROVE  ExactInv'
<1> USE DEF ExactInv, SInv
<1> DEFINE t0 == req[r].token
           new == NewToken(Signed + 1, t0.owner, "access")
<1>0. /\ pc[r] = "match" /\ Done(r) /\ t0 \in tokens
      /\ UNCHANGED <<stored, session, blacklist, background, ended, closed, revoked>>
  BY DEF RefreshAccessToken, BInv, Serving
<1>1. faults' = faults /\ Waits("row") /\ Waits("unhash") /\ Waits("unhashOthers")
  BY <1>0, Waiting
<1>2. tokens \subseteq tokens' /\ \A t \in tokens' \ tokens : t = new
  BY DEF RefreshAccessToken
<1>3. Signed \in Nat /\ new.id = Signed + 1 /\ new.owner = t0.owner /\ new.use = "access"
  BY SignedIsNat DEF BInv, NewToken
<1>4. EndedIsDropped'
  BY <1>0, <1>1 DEF EndedIsDropped, Marked
<1>5. LatestIsStored' /\ LoggedOutIsClosed' /\ BlackIsClosed'
  BY <1>0, <1>1, <1>2, <1>3, LatestStays, LoggedOutStays, BlackStays
<1>6. OwnerHasRow'
  <2>1. \A t \in tokens' : \E v \in tokens : v.owner = t.owner
    BY <1>0, <1>2, <1>3
  <2> QED
    BY <1>0, <1>1, <2>1, RowStays
<1> QED
  BY <1>0, <1>4, <1>5, <1>6 DEF BackgroundIsClosed

LEMMA BlacklistTokenExact ==
  ASSUME BInv, ExactInv, NEW r \in Slots, BlacklistToken(r)
  PROVE  ExactInv'
<1> USE DEF ExactInv, SInv
<1> DEFINE t0 == req[r].token
<1>0. /\ pc[r] = "black" /\ t0 \in tokens
      /\ UNCHANGED <<stored, session, tokens, background, ended, closed, revoked, revived>>
  BY DEF BlacklistToken, BInv, Serving
<1>1. faults' = faults /\ Waits("row") /\ Waits("unhash") /\ Waits("unhashOthers")
  BY <1>0, Waiting DEF BlacklistToken
<1>2. CASE blacklist' = blacklist
  BY <1>0, <1>1, <1>2, SessionsStay DEF sessionVars
<1>3. CASE blacklist' = blacklist \union {t0.id} /\ Goto(r, "unhash")
  <2>1. EndedIsDropped'
    BY <1>0, <1>1 DEF EndedIsDropped, Marked
  <2>2. LatestIsStored' /\ LoggedOutIsClosed' /\ OwnerHasRow'
    BY <1>0, <1>1, LatestStays, LoggedOutStays, RowStays
  <2>3. BlackIsClosed'
    <3> SUFFICES ASSUME NEW t \in tokens, t.id \in blacklist', t.owner \notin closed
                 PROVE \E s \in Slots : pc'[s] = "unhash" /\ req'[s].token.owner = t.owner
      BY <1>0 DEF BlackIsClosed, At
    <3>1. CASE t.id \in blacklist
      <4>1. PICK s \in Slots : pc[s] = "unhash" /\ req[s].token.owner = t.owner
        BY <3>1 DEF BlackIsClosed, At
      <4> QED
        BY <1>1, <4>1 DEF Waits
    <3>2. CASE t.id = t0.id
      <4>1. t = t0
        BY <1>0, <3>2 DEF BInv, TokensAreNumbered
      <4>2. pc'[r] = "unhash" /\ req' = req
        BY <1>3 DEF Goto, BInv, TypeOK, RequestsOK
      <4> QED
        BY <4>1, <4>2
    <3> QED
      BY <1>3, <3>1, <3>2
  <2> QED
    BY <1>0, <2>1, <2>2, <2>3 DEF BackgroundIsClosed
<1> QED
  BY <1>2, <1>3 DEF BlacklistToken

LEMMA DeleteRefreshExact ==
  ASSUME BInv, ExactInv, NEW r \in Slots, DeleteRefresh(r)
  PROVE  ExactInv'
<1> USE DEF ExactInv, SInv
<1> DEFINE owner == req[r].token.owner
<1>0. /\ pc[r] = "unhash" /\ Done(r) /\ SignOut({owner}) /\ owner \in Owners
      /\ background' = background \union {owner}
      /\ UNCHANGED <<session, blacklist, tokens, revoked>>
  BY OwnerType DEF DeleteRefresh, BInv, Serving
<1>1. faults' = faults /\ Waits("row") /\ Waits("unhashOthers")
  BY <1>0, Waiting
<1>2. closed' = closed \union {owner} /\ ended' = ended \union {t \in tokens : t.owner \in {owner}}
  BY <1>0 DEF SignOut
<1>3. /\ \A o \in Owners \ {owner} : stored'[o] = stored[o]
      /\ stored'[owner] \in {stored[owner], 0}
      /\ "redis" \notin faults => stored'[owner] = 0
  BY <1>0 DEF DeleteRefresh, RedisFails, BInv, TypeOK, SessionsOK
<1>4. EndedIsDropped'
  <2>1. \A o \in Owners : stored'[o] \in {stored[o], 0}
    BY <1>3
  <2> QED
    BY <1>0, <1>1, <1>2, <1>3, <2>1, EndedStays
<1>5. LatestIsStored' /\ LoggedOutIsClosed' /\ OwnerHasRow'
  BY <1>0, <1>1, <1>2, <1>3, LatestStays, LoggedOutStays, RowStays
<1>6. BlackIsClosed'
  <2> SUFFICES ASSUME NEW t \in tokens, t.id \in blacklist, t.owner \notin closed'
               PROVE \E s \in Slots : pc'[s] = "unhash" /\ req'[s].token.owner = t.owner
    BY <1>0 DEF BlackIsClosed, At
  <2>1. PICK s \in Slots : pc[s] = "unhash" /\ req[s].token.owner = t.owner
    BY <1>2 DEF BlackIsClosed, At
  <2>2. pc'[s] = "unhash" /\ req'[s] = req[s]
    BY <1>0, <1>2, <2>1 DEF Done, BInv, TypeOK, RequestsOK
  <2> QED
    BY <2>1, <2>2
<1> QED
  BY <1>0, <1>2, <1>4, <1>5, <1>6 DEF BackgroundIsClosed

LEMMA RevokeRowExact ==
  ASSUME BInv, ExactInv, NEW r \in Slots, RevokeRow(r)
  PROVE  ExactInv'
<1> USE DEF ExactInv, SInv
<1> DEFINE owner == <<req[r].token.owner[1], req[r].device>>
<1>0. pc[r] = "revoke" /\ Done(r) /\ UNCHANGED <<stored, blacklist, tokens, background, revived>>
  BY DEF RevokeRow
<1>1. faults' = faults /\ Waits("row") /\ Waits("unhash") /\ Waits("unhashOthers")
  BY <1>0, Waiting
<1>2. owner \in Owners
  BY <1>0, OwnerType DEF BInv, Serving, Owners
<1>3. CASE UNCHANGED <<session, ended, closed, revoked>>
  BY <1>0, <1>1, <1>3, SessionsStay DEF sessionVars
<1>4. CASE /\ session[owner] = "active" /\ LoggedOut({owner}) /\ SignOut({owner})
           /\ revoked' = revoked \union {owner}
  <2>1. /\ closed' = closed \union {owner}
        /\ ended' = ended \union {t \in tokens : t.owner \in {owner}}
    BY <1>4 DEF SignOut
  <2>2. session'[owner] = "loggedOut" /\ \A o \in Owners \ {owner} : session'[o] = session[o]
    BY <1>2, <1>4 DEF LoggedOut
  <2>3. EndedIsDropped'
    <3>1. \A o \in Owners : session[o] = "loggedOut" => session'[o] = "loggedOut"
      BY <2>2
    <3>2. \A o \in Owners : stored'[o] \in {stored[o], 0}
      BY <1>0
    <3>3. {owner} \in SUBSET Owners /\ revoked \subseteq revoked'
          /\ \A o \in {owner} : Marked(o)'
      BY <1>2, <1>4, <2>2 DEF Marked
    <3> HIDE DEF owner
    <3> QED
      BY <1>1, <2>1, <3>1, <3>2, <3>3, EndedStays
  <2>4. LatestIsStored' /\ BlackIsClosed'
    BY <1>0, <1>1, <2>1, LatestStays, BlackStays
  <2>5. LoggedOutIsClosed'
    BY <1>1, <2>1, <2>2, LoggedOutStays
  <2>6. OwnerHasRow'
    <3>1. \A t \in tokens : session'[t.owner] = "none" => session[t.owner] = "none"
      BY <2>2, OwnerType DEF BInv
    <3> QED
      BY <1>0, <1>1, <3>1, RowStays
  <2> QED
    BY <1>0, <2>1, <2>3, <2>4, <2>5, <2>6 DEF BackgroundIsClosed
<1> QED
  BY <1>3, <1>4 DEF RevokeRow

LEMMA RevokeOtherRowsExact ==
  ASSUME BInv, ExactInv, NEW r \in Slots, RevokeOtherRows(r)
  PROVE  ExactInv'
<1> USE DEF ExactInv, SInv
<1> DEFINE others == Others(req[r].token.owner)
<1>0. /\ pc[r] = "others"
      /\ UNCHANGED <<stored, blacklist, tokens, background, ended, closed, revoked, revived>>
  BY DEF RevokeOtherRows
<1>1. faults' = faults /\ Waits("row") /\ Waits("unhash") /\ Waits("unhashOthers")
  BY <1>0, Waiting DEF RevokeOtherRows
<1>2. CASE UNCHANGED session
  BY <1>0, <1>1, <1>2, SessionsStay DEF sessionVars
<1>3. CASE LoggedOut(others) /\ Goto(r, "unhashOthers")
  <2>1. \A o \in Owners : /\ session[o] = "loggedOut" => session'[o] = "loggedOut"
                          /\ session'[o] = "none" => session[o] = "none"
                          /\ o \notin others => session'[o] = session[o]
    BY <1>3 DEF LoggedOut
  <2>2. EndedIsDropped'
    <3>1. ended' = ended \union {t \in tokens : t.owner \in {}}
      BY <1>0
    <3> QED
      BY <1>0, <1>1, <2>1, <3>1, EndedStays
  <2>3. LatestIsStored' /\ BlackIsClosed'
    BY <1>0, <1>1, LatestStays, BlackStays
  <2>4. OwnerHasRow'
    <3>1. \A t \in tokens : session'[t.owner] = "none" => session[t.owner] = "none"
      BY <2>1, OwnerType DEF BInv
    <3> QED
      BY <1>0, <1>1, <3>1, RowStays
  <2>5. LoggedOutIsClosed'
    <3> SUFFICES ASSUME NEW o \in Owners, session'[o] = "loggedOut", o \notin closed
                 PROVE \E s \in Slots : pc'[s] = "unhashOthers" /\ o \in Others(req'[s].token.owner)
      BY <1>0 DEF LoggedOutIsClosed, Others
    <3>1. CASE o \in others
      <4>1. pc'[r] = "unhashOthers" /\ req' = req
        BY <1>3 DEF Goto, BInv, TypeOK, RequestsOK
      <4> QED
        BY <3>1, <4>1
    <3>2. CASE o \notin others
      <4>1. PICK s \in Slots : pc[s] = "unhashOthers" /\ o \in Others(req[s].token.owner)
        BY <2>1, <3>2 DEF LoggedOutIsClosed
      <4> QED
        BY <1>1, <4>1 DEF Waits
    <3> QED
      BY <3>1, <3>2
  <2> QED
    BY <1>0, <2>2, <2>3, <2>4, <2>5 DEF BackgroundIsClosed
<1> QED
  BY <1>2, <1>3 DEF RevokeOtherRows

LEMMA DeleteOthersExact ==
  ASSUME BInv, ExactInv, NEW r \in Slots, DeleteOtherRefreshes(r)
  PROVE  ExactInv'
<1> USE DEF ExactInv, SInv
<1> DEFINE others == Others(req[r].token.owner)
<1>0. /\ pc[r] = "unhashOthers" /\ Done(r) /\ SignOut(others) /\ others \subseteq Owners
      /\ UNCHANGED <<session, blacklist, tokens, background, revoked>>
  BY OthersAreOwners DEF DeleteOtherRefreshes
<1>1. faults' = faults /\ Waits("row") /\ Waits("unhash")
  BY <1>0, Waiting
<1>2. /\ closed' = closed \union others
      /\ ended' = ended \union {t \in tokens : t.owner \in others}
  BY <1>0 DEF SignOut
<1>3. PICK missed \in IF RedisFails THEN SUBSET others ELSE {{}} :
        stored' = [o \in Owners |-> IF o \in others \ missed THEN 0 ELSE stored[o]]
  BY DEF DeleteOtherRefreshes
<1>4. /\ \A o \in Owners : stored'[o] \in {stored[o], 0}
      /\ \A o \in Owners \ others : stored'[o] = stored[o]
      /\ "redis" \notin faults => \A o \in others : stored'[o] = 0
  BY <1>0, <1>3 DEF RedisFails
<1>5. EndedIsDropped'
  BY <1>0, <1>1, <1>2, <1>4, EndedStays
<1>6. LatestIsStored' /\ OwnerHasRow' /\ BlackIsClosed'
  BY <1>0, <1>1, <1>2, <1>4, LatestStays, RowStays, BlackStays
<1>7. LoggedOutIsClosed'
  <2> SUFFICES ASSUME NEW o \in Owners, session[o] = "loggedOut", o \notin closed'
               PROVE \E s \in Slots : pc'[s] = "unhashOthers" /\ o \in Others(req'[s].token.owner)
    BY <1>0 DEF LoggedOutIsClosed, Others
  <2>1. PICK s \in Slots : pc[s] = "unhashOthers" /\ o \in Others(req[s].token.owner)
    BY <1>2 DEF LoggedOutIsClosed
  <2>2. pc'[s] = "unhashOthers" /\ req'[s] = req[s]
    BY <1>0, <1>2, <2>1 DEF Done, BInv, TypeOK, RequestsOK
  <2> QED
    BY <2>1, <2>2
<1> QED
  BY <1>0, <1>2, <1>5, <1>6, <1>7 DEF BackgroundIsClosed

(* The goroutine of a logout marks the row of a device signed out before.  *)
LEMMA LogoutSessionExact ==
  ASSUME BInv, ExactInv, NEW o0 \in Owners, LogoutSession(o0)
  PROVE  ExactInv'
<1> USE DEF ExactInv, SInv
<1>0. /\ o0 \in closed /\ background' \subseteq background
      /\ UNCHANGED <<faults, stored, blacklist, tokens, ended, closed, revoked, pc, req>>
  BY DEF LogoutSession, BackgroundIsClosed
<1>1. Waits("row") /\ Waits("unhash") /\ Waits("unhashOthers")
  BY <1>0 DEF Waits
<1>2. \A o \in Owners : /\ session[o] = "loggedOut" => session'[o] = "loggedOut"
                        /\ session'[o] = "none" => session[o] = "none"
                        /\ o # o0 => session'[o] = session[o]
  BY DEF LogoutSession, LoggedOut
<1>3. EndedIsDropped'
  <2>1. ended' = ended \union {t \in tokens : t.owner \in {}}
    BY <1>0
  <2>2. \A o \in Owners : session[o] = "loggedOut" => session'[o] = "loggedOut"
    BY <1>2
  <2>3. \A o \in Owners : stored'[o] \in {stored[o], 0}
    BY <1>0
  <2> QED
    BY <1>0, <2>1, <2>2, <2>3, EndedStays
<1>4. LatestIsStored' /\ LoggedOutIsClosed' /\ BlackIsClosed'
  BY <1>0, <1>1, <1>2, LatestStays, LoggedOutStays, BlackStays
<1>5. OwnerHasRow'
  <2>1. \A t \in tokens : session'[t.owner] = "none" => session[t.owner] = "none"
    BY <1>2, OwnerType DEF BInv
  <2> QED
    BY <1>0, <1>1, <2>1, RowStays
<1> QED
  BY <1>0, <1>3, <1>4, <1>5 DEF BackgroundIsClosed

LEMMA InitExactInv == Init => ExactInv
BY DEF Init, ExactInv, EndedIsDropped, SInv, LatestIsStored, Latest, BackgroundIsClosed,
       LoggedOutIsClosed, OwnerHasRow, BlackIsClosed

LEMMA NextExactInv == BInv /\ ExactInv /\ [Next]_vars => ExactInv'
<1> SUFFICES ASSUME BInv, ExactInv, [Next]_vars PROVE ExactInv' OBVIOUS
<1>1. ASSUME NEW r \in Slots, Route(r) PROVE ExactInv'
  <2>1. PICK q \in Requests, label \in Labels : Begun(r, q, label)
    BY <1>1, RouteBegins
  <2>2. /\ pc[r] = "idle" /\ pc' = [pc EXCEPT ![r] = label]
        /\ req' = [req EXCEPT ![r] = q] /\ UNCHANGED <<faults, sessionVars>>
    BY <2>1 DEF Begun, Begin
  <2>3. Waits("row") /\ Waits("unhash") /\ Waits("unhashOthers")
    BY <2>2 DEF Waits, BInv, TypeOK, RequestsOK
  <2> QED
    BY <2>2, <2>3, SessionsStay
<1>2. ASSUME NEW r \in Slots,
             \/ CheckRateLimit(r) \/ StoreCode(r) \/ GetCode(r) \/ CountAttempt(r)
             \/ DelCode(r) \/ DelAttempts(r) \/ UpsertUser(r) \/ HasActiveSession(r)
             \/ IsBlacklisted(r)
      PROVE  ExactInv'
  <2>1. /\ pc[r] \notin {"row", "unhash", "unhashOthers"} /\ UNCHANGED sessionVars
        /\ Done(r) \/ \E label : Goto(r, label)
    <3>1. CASE CheckRateLimit(r) \/ StoreCode(r) \/ GetCode(r) \/ CountAttempt(r)
      BY <3>1 DEF CheckRateLimit, StoreCode, GetCode, CountAttempt
    <3>2. CASE DelCode(r) \/ DelAttempts(r) \/ UpsertUser(r) \/ HasActiveSession(r)
               \/ IsBlacklisted(r)
      BY <3>2 DEF DelCode, DelAttempts, UpsertUser, HasActiveSession, IsBlacklisted
    <3> QED
      BY <1>2, <3>1, <3>2
  <2> QED
    BY <2>1, Waiting, SessionsStay
<1>3. ASSUME NEW r \in Slots, Serve(r) PROVE ExactInv'
  BY <1>2, <1>3, StoreRefreshExact, CreateSessionExact, RefreshExact, BlacklistTokenExact,
     DeleteRefreshExact, RevokeRowExact, RevokeOtherRowsExact, DeleteOthersExact DEF Serve
<1>4. ASSUME UNCHANGED <<faults, sessionVars, pc, req>> PROVE ExactInv'
  <2>1. Waits("row") /\ Waits("unhash") /\ Waits("unhashOthers")
    BY <1>4 DEF Waits
  <2> QED
    BY <1>4, <2>1, SessionsStay
<1>5. ASSUME NEW u \in Users, CodeExpires(u) PROVE ExactInv'
  BY <1>4, <1>5 DEF CodeExpires
<1>6. ASSUME NEW k \in Keys, WindowEnds(k) PROVE ExactInv'
  BY <1>4, <1>6 DEF WindowEnds
<1>7. CASE UNCHANGED vars
  BY <1>4, <1>7 DEF vars
<1> QED
  BY <1>1, <1>3, <1>5, <1>6, <1>7, LogoutSessionExact DEF Next

-----------------------------------------------------------------------------
(* No step takes a sign-out back or stores the hash of an old token anew.  *)
Keeps ==
  /\ faults' = faults /\ ended \subseteq ended' /\ revoked \subseteq revoked'
  /\ \A o \in Owners : stored'[o] \in {stored[o], 0} \/ stored'[o] > Signed

LEMMA SteadyKeeps == UNCHANGED <<faults, sessionVars>> => Keeps
BY DEF Keeps, sessionVars

LEMMA ServeKeeps ==
  ASSUME BInv, NEW r \in Slots, Serve(r)
  PROVE  Keeps
<1>1. CASE CheckRateLimit(r) \/ StoreCode(r) \/ GetCode(r) \/ CountAttempt(r)
  BY <1>1, SteadyKeeps DEF CheckRateLimit, StoreCode, GetCode, CountAttempt, Goto, Done
<1>2. CASE DelCode(r) \/ DelAttempts(r) \/ UpsertUser(r)
  BY <1>2, SteadyKeeps DEF DelCode, DelAttempts, UpsertUser, Goto, Done
<1>3. CASE HasActiveSession(r) \/ IsBlacklisted(r)
  BY <1>3, SteadyKeeps DEF HasActiveSession, IsBlacklisted, Goto, Done
<1>4. CASE StoreRefresh(r)
  <2>1. faults' = faults /\ ended' = ended /\ revoked' = revoked
    BY <1>4 DEF StoreRefresh, Goto, Done
  <2>2. stored' = stored \/ stored' = [stored EXCEPT ![<<req[r].user, req[r].device>>] = Signed + 2]
    BY <1>4 DEF StoreRefresh
  <2>3. Signed \in Nat /\ stored \in [Owners -> 0..MaxTokens]
    BY SignedIsNat DEF BInv, TypeOK, SessionsOK
  <2> QED
    BY <2>1, <2>2, <2>3 DEF Keeps
<1>5. CASE CreateSession(r) \/ RefreshAccessToken(r) \/ BlacklistToken(r) \/ RevokeOtherRows(r)
  BY <1>5
  DEF Keeps, CreateSession, RefreshAccessToken, BlacklistToken, RevokeOtherRows, Goto,
      Done
<1>6. CASE DeleteRefresh(r)
  <2>1. /\ faults' = faults /\ ended \subseteq ended' /\ revoked' = revoked
        /\ stored' = stored \/ stored' = [stored EXCEPT ![req[r].token.owner] = 0]
    BY <1>6 DEF DeleteRefresh, SignOut, Done
  <2> QED
    BY <2>1 DEF Keeps, BInv, TypeOK, SessionsOK
<1>7. CASE RevokeRow(r)
  <2>1. /\ faults' = faults /\ ended \subseteq ended' /\ revoked \subseteq revoked'
        /\ stored' = stored
    BY <1>7 DEF RevokeRow, SignOut, Done
  <2> QED
    BY <2>1 DEF Keeps
<1>8. CASE DeleteOtherRefreshes(r)
  <2>1. faults' = faults /\ ended \subseteq ended' /\ revoked' = revoked
    BY <1>8 DEF DeleteOtherRefreshes, SignOut, Done
  <2>2. PICK dropped : stored' = [o \in Owners |-> IF o \in dropped THEN 0 ELSE stored[o]]
    BY <1>8 DEF DeleteOtherRefreshes
  <2> QED
    BY <2>1, <2>2 DEF Keeps
<1> QED
  BY <1>1, <1>2, <1>3, <1>4, <1>5, <1>6, <1>7, <1>8 DEF Serve

(* A request that is not served stays stopped.  *)
LEMMA StoppedStays ==
  ASSUME BInv, Keeps, NEW s \in Slots, Stopped(s), pc'[s] = pc[s], req'[s] = req[s]
  PROVE  Stopped(s)'
<1> SUFFICES ASSUME "redis" \notin faults, pc[s] \in Refreshing, req[s].late
             PROVE  /\ req[s].token \in ended'
                    /\ pc[s] # "active" => stored'[req[s].token.owner] # req[s].token.id
  BY DEF Stopped, Keeps
<1>1. PICK t : t = req[s].token
  OBVIOUS
<1>2. t \in ended /\ (pc[s] # "active" => stored[t.owner] # t.id)
  BY <1>1 DEF Stopped
<1>3. /\ t.owner \in Owners /\ t.id \in 1..MaxTokens /\ t.id <= Signed /\ Signed \in Nat
      /\ MaxTokens \in Nat /\ stored[t.owner] \in 0..MaxTokens
  BY <1>2, OwnerType, SignedIsNat, AuthAssumption
  DEF BInv, TypeOK, SessionsOK, HistoryOK, TokensAreNumbered
<1>4. t \in ended' /\ (stored'[t.owner] \in {stored[t.owner], 0} \/ stored'[t.owner] > Signed)
  BY <1>2, <1>3 DEF Keeps
<1> QED
  BY <1>1, <1>2, <1>3, <1>4

LEMMA LateStays ==
  ASSUME BInv, LateInv, Keeps, revived' = revived, NEW r \in Slots, Stopped(r)',
         \A s \in Slots \ {r} : pc'[s] = pc[s] /\ req'[s] = req[s]
  PROVE  LateInv'
<1>1. ASSUME NEW s \in Slots PROVE Stopped(s)'
  BY StoppedStays DEF LateInv
<1> QED
  BY <1>1 DEF LateInv, Keeps

(* The row was active: the token of a late request is not the stored one.  *)
LEMMA ActiveLate ==
  ASSUME BInv, ExactInv, LateInv, NEW r \in Slots, HasActiveSession(r)
  PROVE  LateInv'
<1>1. /\ pc[r] = "active" /\ revived' = revived
      /\ Done(r) \/ (Goto(r, "listed") /\ session[req[r].token.owner] = "active")
  BY DEF HasActiveSession, sessionVars
<1>2. UNCHANGED <<stored, ended>> /\ faults' = faults
  BY DEF HasActiveSession, sessionVars, Goto, Done
<1>3. CASE Done(r)
  <2>1. pc'[r] = "idle" /\ \A s \in Slots \ {r} : pc'[s] = pc[s] /\ req'[s] = req[s]
    BY <1>3 DEF Done, BInv, TypeOK, RequestsOK
  <2>2. Stopped(r)'
    BY <2>1 DEF Stopped, Refreshing
  <2>3. Keeps
    BY ServeKeeps DEF Serve
  <2> QED
    BY <1>1, <2>1, <2>2, <2>3, LateStays
<1>4. CASE Goto(r, "listed") /\ session[req[r].token.owner] = "active"
  <2>1. pc'[r] = "listed" /\ req' = req /\ \A s \in Slots \ {r} : pc'[s] = pc[s]
    BY <1>4 DEF Goto, BInv, TypeOK, RequestsOK
  <2>2. Stopped(r)'
    BY <1>1, <1>2, <1>4, <2>1
    DEF Stopped, Refreshing, LateInv, ExactInv, EndedIsDropped, Marked
  <2>3. Keeps
    BY ServeKeeps DEF Serve
  <2> QED
    BY <1>1, <2>1, <2>2, <2>3, LateStays
<1> QED
  BY <1>1, <1>3, <1>4

LEMMA ListedLate ==
  ASSUME BInv, LateInv, NEW r \in Slots, IsBlacklisted(r)
  PROVE  LateInv'
<1>1. /\ pc[r] = "listed" /\ UNCHANGED <<revived, stored, ended, faults>>
      /\ Done(r) \/ Goto(r, "match")
  BY DEF IsBlacklisted, sessionVars, Goto, Done
<1>2. /\ pc'[r] = "idle" \/ (pc'[r] = "match" /\ req'[r] = req[r])
      /\ \A s \in Slots \ {r} : pc'[s] = pc[s] /\ req'[s] = req[s]
  BY <1>1 DEF Goto, Done, BInv, TypeOK, RequestsOK
<1>3. Stopped(r)'
  BY <1>1, <1>2 DEF Stopped, Refreshing, LateInv
<1>4. Keeps
  BY ServeKeeps DEF Serve
<1> QED
  BY <1>1, <1>2, <1>3, <1>4, LateStays

(* A token signed for one that was signed out: the request is not late and *)
(* the hash was left by RevokeSession.                                     *)
LEMMA RefreshLate ==
  ASSUME BInv, ExactInv, LateInv, NEW r \in Slots, RefreshAccessToken(r)
  PROVE  LateInv'
<1>1. pc[r] = "match" /\ Done(r) /\ revoked' = revoked
  BY DEF RefreshAccessToken
<1>2. pc'[r] = "idle" /\ \A s \in Slots \ {r} : pc'[s] = pc[s] /\ req'[s] = req[s]
  BY <1>1 DEF Done, BInv, TypeOK, RequestsOK
<1>3. Keeps
  BY ServeKeeps DEF Serve
<1>4. ASSUME NEW s \in Slots PROVE Stopped(s)'
  <2>1. CASE s = r
    BY <1>2, <2>1 DEF Stopped, Refreshing
  <2>2. CASE s # r
    BY <1>2, <1>3, <2>2, StoppedStays DEF LateInv
  <2> QED
    BY <2>1, <2>2
<1>5. ASSUME "redis" \notin faults, NEW v \in revived' \ revived
      PROVE  ~ v.late /\ v.token.owner \in revoked
  <2>1. PICK t : t = req[r].token
    OBVIOUS
  <2>2. /\ stored[t.owner] = t.id /\ t \in ended
        /\ v = [token |-> t, late |-> req[r].late]
    BY <1>5, <2>1 DEF RefreshAccessToken
  <2>3. ~ req[r].late
    BY <1>1, <1>5, <2>1, <2>2 DEF LateInv, Stopped, Refreshing
  <2>4. t.owner \in revoked
    BY <1>5, <2>2 DEF ExactInv, EndedIsDropped, Marked
  <2> QED
    BY <2>2, <2>3, <2>4
<1> QED
  BY <1>1, <1>3, <1>4, <1>5 DEF LateInv, Keeps

(* The steps of the other requests. *)
LEMMA OtherLate ==
  ASSUME BInv, LateInv, NEW r \in Slots, Serve(r),
         ~ HasActiveSession(r), ~ IsBlacklisted(r), ~ RefreshAccessToken(r)
  PROVE  LateInv'
<1>1. /\ revived' = revived
      /\ Done(r) \/ \E label \in Labels \ Refreshing : Goto(r, label)
  <2> USE DEF Labels, Refreshing
  <2>1. CASE CheckRateLimit(r) \/ StoreCode(r) \/ GetCode(r) \/ CountAttempt(r)
    BY <2>1 DEF CheckRateLimit, StoreCode, GetCode, CountAttempt, sessionVars
  <2>2. CASE DelCode(r) \/ DelAttempts(r) \/ UpsertUser(r) \/ StoreRefresh(r)
    BY <2>2 DEF DelCode, DelAttempts, UpsertUser, StoreRefresh, sessionVars
  <2>3. CASE CreateSession(r) \/ BlacklistToken(r) \/ DeleteRefresh(r) \/ RevokeRow(r)
    BY <2>3 DEF CreateSession, BlacklistToken, DeleteRefresh, RevokeRow
  <2>4. CASE RevokeOtherRows(r) \/ DeleteOtherRefreshes(r)
    BY <2>4 DEF RevokeOtherRows, DeleteOtherRefreshes
  <2> QED
    BY <2>1, <2>2, <2>3, <2>4 DEF Serve
<1>2. pc'[r] \notin Refreshing /\ \A s \in Slots \ {r} : pc'[s] = pc[s] /\ req'[s] = req[s]
  BY <1>1 DEF Goto, Done, Refreshing, BInv, TypeOK, RequestsOK
<1>3. Stopped(r)'
  BY <1>2 DEF Stopped
<1>4. Keeps
  BY ServeKeeps
<1> QED
  BY <1>1, <1>2, <1>3, <1>4, LateStays

LEMMA RouteLate ==
  ASSUME BInv, LateInv, NEW r \in Slots, Route(r)
  PROVE  LateInv'
<1>1. PICK q \in Requests, label \in Labels : Begun(r, q, label)
  BY RouteBegins
<1>2. /\ pc' = [pc EXCEPT ![r] = label] /\ req' = [req EXCEPT ![r] = q]
      /\ UNCHANGED <<faults, sessionVars>>
      /\ label \in {"limit", "get", "active", "black", "revoke", "others"}
      /\ label = "active" => (q.late => q.token \in ended)
  BY <1>1 DEF Begun, Begin
<1>3. /\ pc'[r] = label /\ req'[r] = q /\ revived' = revived /\ ended' = ended
      /\ \A s \in Slots \ {r} : pc'[s] = pc[s] /\ req'[s] = req[s]
  BY <1>2 DEF BInv, TypeOK, RequestsOK, sessionVars
<1>4. Stopped(r)'
  BY <1>2, <1>3 DEF Stopped, Refreshing
<1> QED
  BY <1>2, <1>3, <1>4, SteadyKeeps, LateStays

LEMMA NextLateInv == BInv /\ ExactInv /\ LateInv /\ [Next]_vars => LateInv'
<1> SUFFICES ASSUME BInv, ExactInv, LateInv, [Next]_vars PROVE LateInv' OBVIOUS
<1>1. ASSUME NEW r \in Slots, Route(r) \/ Serve(r) PROVE LateInv'
  BY <1>1, RouteLate, ActiveLate, ListedLate, RefreshLate, OtherLate
<1>2. ASSUME UNCHANGED <<faults, stored, ended, revoked, revived, pc, req>> PROVE LateInv'
  BY <1>2 DEF LateInv, Stopped
<1>3. ASSUME NEW o \in Owners, LogoutSession(o) PROVE LateInv'
  BY <1>2, <1>3 DEF LogoutSession
<1>4. ASSUME NEW u \in Users, CodeExpires(u) PROVE LateInv'
  BY <1>2, <1>4 DEF CodeExpires, sessionVars
<1>5. ASSUME NEW k \in Keys, WindowEnds(k) PROVE LateInv'
  BY <1>2, <1>5 DEF WindowEnds, sessionVars
<1>6. CASE UNCHANGED vars
  BY <1>2, <1>6 DEF vars, sessionVars
<1> QED
  BY <1>1, <1>3, <1>4, <1>5, <1>6 DEF Next

LEMMA InitLateInv == Init => LateInv
BY DEF Init, LateInv, Stopped, Refreshing

(* While Redis works, no token a device had when it was signed out can     *)
(* renew its access token, no request made with one after that does, and   *)
(* one that was under way does only where RevokeSession left the hash;     *)
(* while the database works too, the latest login of every device that was *)
(* never signed out can renew.                                             *)
THEOREM ExactSignOut == Spec => []SignOutIsExact
<1>1. ExactInv /\ LateInv => SignedOutCannotRefresh
  BY DEF ExactInv, LateInv, EndedIsDropped, Marked, SignedOutCannotRefresh, CanRefresh
<1>2. ASSUME BInv, ExactInv, faults \intersect {"redis", "db"} = {},
             NEW o \in Owners \ closed, ~ HalfWay(o), NEW t \in Latest(o)
      PROVE  CanRefresh(t)
  <2>1. t \in tokens /\ t.owner = o /\ session[o] \in {"none", "active", "loggedOut"}
    BY <1>2 DEF Latest, BInv, TypeOK, SessionsOK
  <2>2. stored[o] = t.id
    BY <1>2 DEF ExactInv, SInv, LatestIsStored
  <2>3. session[o] # "loggedOut"
    BY <1>2 DEF ExactInv, SInv, LoggedOutIsClosed, HalfWay
  <2>4. session[o] # "none"
    BY <1>2, <2>1 DEF ExactInv, SInv, OwnerHasRow, HalfWay
  <2>5. t.id \notin blacklist
    BY <1>2, <2>1 DEF ExactInv, SInv, BlackIsClosed, At, HalfWay
  <2> QED
    BY <2>1, <2>2, <2>3, <2>4, <2>5 DEF CanRefresh
<1>3. BInv /\ ExactInv /\ LateInv => SignOutIsExact
  BY <1>1, <1>2 DEF SignOutIsExact, LatestLoginCanRefresh
<1> QED
  BY <1>3, SpecBInv, InitExactInv, NextExactInv, InitLateInv, NextLateInv, PTL DEF Spec

-----------------------------------------------------------------------------
(* A set of places has a last one. *)
LEMMA LastPlace ==
  ASSUME NEW n \in Nat, NEW S, S \subseteq 1..n, S # {}
  PROVE  \E i \in S : \A j \in S : j <= i
<1> DEFINE Less == OpToRel(<, Nat)
           T == {n - i : i \in S}
<1>1. IsWellFoundedOn(Less, Nat)
  BY NatLessThanWellFounded
<1>2. T \subseteq Nat /\ T # {}
  <2>1. \A i \in S : n - i \in Nat
    OBVIOUS
  <2>2. PICK i \in S : TRUE
    OBVIOUS
  <2>3. n - i \in T
    OBVIOUS
  <2> QED
    BY <2>1, <2>3
<1>3. \E m \in T : \A k \in T : ~ <<k, m>> \in Less
  <2> HIDE DEF Less, T
  <2> QED
    BY <1>1, <1>2, WFMin
<1>4. PICK m \in T : \A k \in T : ~ (k < m)
  BY <1>2, <1>3 DEF OpToRel
<1>5. PICK i \in S : m = n - i
  BY <1>4
<1>6. ASSUME NEW j \in S PROVE j <= i
  <2>1. n - j \in T /\ ~ (n - j < n - i)
    BY <1>4, <1>5
  <2> QED
    BY <2>1
<1> QED
  BY <1>6

(* The key of a kid in a list is that of the last entry that has it. *)
LEMMA LastWithIs ==
  ASSUME NEW S, NEW entries \in Seq(S), NEW i \in DOMAIN entries,
         \A j \in DOMAIN entries : entries[j][1] = entries[i][1] => j <= i
  PROVE  LastWith(entries, entries[i][1]) = entries[i][2]
<1>1. DOMAIN entries \subseteq Nat
  BY LenProperties
<1> DEFINE Fits(k) == /\ entries[k][1] = entries[i][1]
                      /\ \A j \in DOMAIN entries : entries[j][1] = entries[i][1] => j <= k
<1>2. \A k \in DOMAIN entries : Fits(k) => k = i
  BY <1>1
<1>3. (CHOOSE k \in DOMAIN entries : Fits(k)) = i
  BY <1>2
<1> QED
  BY <1>3 DEF LastWith

(* Another entry changes no key but that of its own kid. *)
LEMMA LastWithSame ==
  ASSUME NEW S, NEW ring \in Seq(S), NEW next \in S, NEW kid \in Kids(ring), next[1] # kid
  PROVE  LastWith(Append(ring, next), kid) = LastWith(ring, kid)
<1> DEFINE n == Len(ring)
           new == Append(ring, next)
           Having == {i \in 1..n : ring[i][1] = kid}
<1>1. /\ n \in Nat /\ DOMAIN ring = 1..n /\ new \in Seq(S) /\ DOMAIN new = 1..(n + 1)
      /\ new[n + 1] = next /\ \A i \in 1..n : new[i] = ring[i]
  BY LenProperties, AppendProperties
<1>2. Having \subseteq 1..n /\ Having # {}
  BY <1>1 DEF Kids
<1>3. PICK i \in Having : \A j \in Having : j <= i
  <2> HIDE DEF Having, n
  <2> QED
    BY <1>1, <1>2, LastPlace
<1>4. /\ i \in DOMAIN ring /\ ring[i][1] = kid /\ i \in DOMAIN new /\ new[i] = ring[i]
      /\ \A j \in DOMAIN ring : ring[j][1] = ring[i][1] => j <= i
  BY <1>1, <1>3
<1>5. ASSUME NEW j \in DOMAIN new, new[j][1] = new[i][1] PROVE j <= i
  <2>1. j # n + 1
    BY <1>1, <1>4, <1>5
  <2> QED
    BY <1>1, <1>4, <1>5, <2>1
<1>6. LastWith(ring, kid) = ring[i][2]
  BY <1>4, LastWithIs
<1>7. LastWith(new, kid) = new[i][2]
  <2> HIDE DEF new
  <2> QED
    BY <1>1, <1>4, <1>5, LastWithIs
<1> QED
  BY <1>4, <1>6, <1>7

(* The ring of a list of keys that all have a kid. *)
RingOf(entries) ==
  [k \in Kids(entries) \union {Default} |->
     IF k = Default THEN DefaultKey(entries) ELSE LastWith(entries, k)]

(* It is what a list is parsed to in which no key is unreadable. *)
LEMMA RingIs ==
  ASSUME NEW S, NEW entries \in Seq(S), entries # <<>>, NoKid \notin Kids(entries),
         \A i \in DOMAIN entries : entries[i][2] # Bad
  PROVE  parsePublicKeys(entries) = Ring(RingOf(entries))
<1>1. 1 \in DOMAIN entries
  BY LenProperties, EmptySeq
<1>2. entries[1][1] # NoKid
  BY <1>1 DEF Kids
<1> QED
  BY <1>2 DEF parsePublicKeys, RingOf

(* A new key at the end of the ring, before anything is signed with it,    *)
(* refuses no token that was accepted, whatever keys the ring has          *)
(* (parsePublicKeys and ValidateToken in jwt.go, and the store service's). *)
THEOREM SmoothRotation ==
  ASSUME NEW S, NEW x, x.ring \in Seq(S), x.next \in S
  PROVE  RotationIsSmooth(x)
<1> DEFINE ring == x.ring
           next == x.next
           kid == x.token[1]
           new == Append(ring, next)
           n == Len(ring)
<1> SUFFICES ASSUME ~ parsePublicKeys(ring).error, NoKid \notin Kids(ring),
                    next[1] \notin {NoKid, Default, kid}, next[2] # Bad
             PROVE  ValidateToken(parsePublicKeys(ring), x.token)
                      => ValidateToken(parsePublicKeys(new), x.token)
  BY DEF RotationIsSmooth, StoreValidates, StoreKeys
<1>1. /\ n \in Nat /\ DOMAIN ring = 1..n /\ new \in Seq(S) /\ DOMAIN new = 1..(n + 1)
      /\ new[n + 1] = next /\ \A i \in 1..n : new[i] = ring[i]
  BY LenProperties, AppendProperties
<1>2. ring # <<>> /\ \A i \in DOMAIN ring : ring[i][2] # Bad
  BY DEF parsePublicKeys, Refused
<1>3. n # 0 /\ new # <<>> /\ \A i \in DOMAIN new : new[i][2] # Bad
  <2>1. n # 0
    BY <1>2, EmptySeq
  <2>2. new # <<>>
    BY AppendProperties
  <2>3. ASSUME NEW i \in DOMAIN new PROVE new[i][2] # Bad
    BY <1>1, <1>2
  <2> QED
    BY <2>1, <2>2, <2>3
<1>4. Kids(new) = Kids(ring) \union {next[1]}
  <2>1. \A i \in 1..(n + 1) : i \in 1..n \/ i = n + 1
    BY <1>1
  <2>2. 1..n \subseteq 1..(n + 1) /\ n + 1 \in 1..(n + 1)
    BY <1>1
  <2> HIDE DEF new, n
  <2> QED
    BY <1>1, <2>1, <2>2 DEF Kids
<1>5. parsePublicKeys(ring) = Ring(RingOf(ring)) /\ parsePublicKeys(new) = Ring(RingOf(new))
  <2>1. NoKid \notin Kids(new)
    BY <1>4
  <2> HIDE DEF new
  <2> QED
    BY <1>1, <1>2, <1>3, <2>1, RingIs
<1>6. DefaultKey(new) = DefaultKey(ring)
  <2>1. 1 \in 1..n
    BY <1>1, <1>3
  <2>2. CASE Default \in Kids(ring)
    BY <1>4, <2>2, LastWithSame DEF DefaultKey
  <2>3. CASE Default \notin Kids(ring)
    BY <1>1, <1>4, <2>1, <2>3 DEF DefaultKey
  <2> QED
    BY <2>2, <2>3
<1>7. KeyFor(Ring(RingOf(new)), kid) = KeyFor(Ring(RingOf(ring)), kid)
  <2>1. CASE kid = Default
    BY <1>6, <2>1 DEF KeyFor, Ring, RingOf
  <2>2. CASE kid # Default /\ kid \in Kids(ring)
    <3>1. LastWith(new, kid) = LastWith(ring, kid)
      BY <2>2, LastWithSame
    <3> HIDE DEF new, kid, ring
    <3> QED
      BY <1>4, <2>2, <3>1 DEF KeyFor, Ring, RingOf
  <2>3. CASE kid # Default /\ kid \notin Kids(ring)
    <3>1. kid \notin Kids(new)
      BY <1>4, <2>3
    <3> HIDE DEF new, kid, ring
    <3> QED
      BY <1>6, <2>3, <3>1 DEF KeyFor, Ring, RingOf
  <2> QED
    BY <2>1, <2>2, <2>3
<1> QED
  BY <1>5, <1>7 DEF ValidateToken, Ring

(* With one bare key every service accepts exactly what was signed with    *)
(* it, whatever kid the private key is given (currentKID in jwt.go).       *)
THEOREM OneKeyFits ==
  ASSUME NEW x, x.key # Bad
  PROVE  OneKeyFitsAll(x)
<1> DEFINE entries == <<<<NoKid, x.key>>>>
           token == SignedBy(<<x.kid, x.signer>>)
           ring == Ring([k \in {Default} |-> x.key])
<1>1. Len(entries) = 1 /\ entries # <<>> /\ DOMAIN entries = {1} /\ entries[1] = <<NoKid, x.key>>
  OBVIOUS
<1>2. parsePublicKeys(entries) = ring /\ SharedKeys(entries) = ring
  <2> HIDE DEF entries
  <2> QED
    BY <1>1 DEF parsePublicKeys, SharedKeys
<1>3. token[2] = x.signer
  BY DEF SignedBy, parsePrivateKey
<1>4. KeyFor(ring, token[1]) = x.key /\ ring.keys[Default] = x.key /\ ~ ring.error
  BY DEF KeyFor, Ring
<1> HIDE DEF entries, token, ring
<1>5. /\ ValidateToken(ring, token) <=> x.key = x.signer
      /\ SharedValidates(ring, token) <=> x.key = x.signer
  BY <1>3, <1>4 DEF ValidateToken, SharedValidates
<1> USE DEF entries, token
<1> QED
  BY <1>2, <1>5 DEF OneKeyFitsAll, StoreValidates, StoreKeys

(* A set of the steps from 0 to n that holds 0 and, with each, the next.   *)
LEMMA StepByStep ==
  ASSUME NEW n \in Nat, NEW S, 0 \in S, \A i \in 1..n : i - 1 \in S => i \in S
  PROVE  0..n \subseteq S
<1> DEFINE Left == {i \in 0..n : i \notin S}
<1> SUFFICES ASSUME Left # {}
             PROVE  FALSE
  OBVIOUS
<1>1. PICK k \in Left : \A l \in Left : ~ (<<l, k>> \in OpToRel(<, Nat))
  <2>1. Left \subseteq Nat
    OBVIOUS
  <2> HIDE DEF Left
  <2> QED
    BY <2>1, NatLessThanWellFounded, WFMin
<1>2. k \in 1..n /\ k - 1 \in 0..n /\ k - 1 < k /\ k - 1 \in Nat /\ k \in Nat
  <2>1. k \in 0..n /\ k # 0
    BY <1>1
  <2> QED
    BY <2>1
<1>3. k - 1 \notin Left
  BY <1>1, <1>2 DEF OpToRel
<1> QED
  BY <1>1, <1>2, <1>3

(* Reading another digit gives a number. *)
LEMMA DigitRead ==
  ASSUME NEW n \in Nat, NEW c \in Nat
  PROVE  ReadDigit(n, c) \in Nat
BY DEF ReadDigit

(* The part of a version is read as a number. *)
LEMMA NumberIs ==
  ASSUME NEW part \in Seq(0..10)
  PROVE  Number(part) \in Nat
<1> DEFINE n == Len(part)
           Rec(g, k) == g = [i \in 0..k |-> IF i = 0 THEN 0 ELSE ReadDigit(g[i - 1], part[i])]
           S == {k \in 0..n : \E g : Rec(g, k)}
<1>1. n \in Nat /\ \A i \in 1..n : part[i] \in Nat
  <2>1. n \in Nat /\ \A i \in 1..n : part[i] \in 0..10
    BY LenProperties
  <2> HIDE DEF n
  <2> QED
    BY <2>1
<1> HIDE DEF n
<1>2. 0 \in S
  <2> DEFINE g == [i \in 0..0 |-> 0]
  <2>1. Rec(g, 0)
    <3>1. \A i \in 0..0 : g[i] = IF i = 0 THEN 0 ELSE ReadDigit(g[i - 1], part[i])
      OBVIOUS
    <3>2. g = [i \in 0..0 |-> g[i]]
      OBVIOUS
    <3> HIDE DEF g
    <3> QED
      BY <3>1, <3>2
  <2> HIDE DEF Rec, g
  <2> QED
    BY <1>1, <2>1
<1>3. ASSUME NEW k \in 1..n, k - 1 \in S
      PROVE  k \in S
  <2>1. PICK g : Rec(g, k - 1)
    BY <1>3
  <2> DEFINE h == [i \in 0..k |-> IF i = k THEN ReadDigit(g[k - 1], part[k]) ELSE g[i]]
  <2>2. \A i \in 0..(k - 1) : h[i] = g[i]
    BY <1>1
  <2>3. \A i \in 0..k : i # 0 => i - 1 \in 0..(k - 1)
    BY <1>1
  <2>4. ASSUME NEW i \in 0..k
        PROVE  h[i] = IF i = 0 THEN 0 ELSE ReadDigit(h[i - 1], part[i])
    <3>1. CASE i = k
      <4>1. k # 0 /\ h[k] = ReadDigit(g[k - 1], part[k]) /\ h[k - 1] = g[k - 1]
        BY <1>1, <2>2, <2>3
      <4> QED
        BY <3>1, <4>1
    <3>2. CASE i # k
      <4>1. i \in 0..(k - 1)
        BY <1>1, <3>2
      <4>2. h[i] = g[i] /\ g[i] = IF i = 0 THEN 0 ELSE ReadDigit(g[i - 1], part[i])
        BY <2>1, <2>2, <4>1
      <4>3. i # 0 => h[i - 1] = g[i - 1]
        BY <2>2, <2>3
      <4> QED
        BY <4>2, <4>3
    <3> QED
      BY <3>1, <3>2
  <2>5. h = [i \in 0..k |-> h[i]]
    OBVIOUS
  <2> HIDE DEF h
  <2>6. Rec(h, k)
    BY <2>4, <2>5
  <2> QED
    BY <1>1, <2>6
<1>4. PICK g : Rec(g, n)
  <2>1. n \in 0..n
    BY <1>1
  <2>2. 0..n \subseteq S
    <3> HIDE DEF S
    <3> QED
      BY <1>1, <1>2, <1>3, StepByStep
  <2> QED
    BY <2>1, <2>2
<1> DEFINE f == CHOOSE r : Rec(r, n)
<1>5. Rec(f, n)
  BY <1>4
<1>6. Number(part) = f[n]
  BY DEF Number, n
<1> HIDE DEF f
<1>7. /\ f[0] = 0
      /\ \A i \in 1..n : f[i] = ReadDigit(f[i - 1], part[i])
  BY <1>1, <1>5
<1>8. 0..n \subseteq {i \in 0..n : f[i] \in Nat}
  <2> DEFINE T == {i \in 0..n : f[i] \in Nat}
  <2>1. 0 \in T
    BY <1>1, <1>7
  <2>2. ASSUME NEW i \in 1..n, i - 1 \in T
        PROVE  i \in T
    <3>1. i \in 0..n /\ part[i] \in Nat /\ f[i - 1] \in Nat
      BY <1>1, <2>2
    <3>2. f[i] = ReadDigit(f[i - 1], part[i])
      BY <1>7
    <3> QED
      BY <3>1, <3>2, DigitRead
  <2> HIDE DEF T
  <2>3. 0..n \subseteq T
    BY <1>1, <2>1, <2>2, StepByStep
  <2> QED
    BY <2>3 DEF T
<1> QED
  BY <1>1, <1>6, <1>8

(* So is a part that is missing. *)
LEMMA PartIs ==
  ASSUME NEW parts \in Seq(Part), NEW i \in 1..3
  PROVE  parseVersionPart(parts, i) \in Nat
<1>1. Len(parts) \in Nat /\ \A k \in 1..Len(parts) : parts[k] \in Part
  BY LenProperties
<1>2. CASE i > Len(parts)
  BY <1>2 DEF parseVersionPart
<1>3. CASE ~ (i > Len(parts))
  <2>1. parts[i] \in Part
    BY <1>1, <1>3
  <2>2. parts[i] \in Seq(0..10)
    BY <2>1 DEF Part
  <2> QED
    BY <1>3, <2>2, NumberIs DEF parseVersionPart
<1> QED
  BY <1>2, <1>3

(* Two versions are compared number by number. *)
LEMMA SemverIs ==
  ASSUME NEW a, NEW b
  PROVE  compareSemver(a, b) =
           IF parseVersionPart(a, 1) # parseVersionPart(b, 1)
             THEN IF parseVersionPart(a, 1) < parseVersionPart(b, 1) THEN -1 ELSE 1
           ELSE IF parseVersionPart(a, 2) # parseVersionPart(b, 2)
             THEN IF parseVersionPart(a, 2) < parseVersionPart(b, 2) THEN -1 ELSE 1
           ELSE IF parseVersionPart(a, 3) # parseVersionPart(b, 3)
             THEN IF parseVersionPart(a, 3) < parseVersionPart(b, 3) THEN -1 ELSE 1
           ELSE 0
<1> DEFINE Differs(i) == parseVersionPart(a, i) # parseVersionPart(b, i)
           First(i) == Differs(i) /\ \A j \in 1..(i - 1) : ~ Differs(j)
           first == CHOOSE i \in 1..3 : First(i)
<1>1. 1..3 = {1, 2, 3} /\ 1..0 = {} /\ 1..1 = {1} /\ 1..2 = {1, 2}
  OBVIOUS
<1>2. compareSemver(a, b) =
        IF \A i \in 1..3 : ~ Differs(i) THEN 0
        ELSE IF parseVersionPart(a, first) < parseVersionPart(b, first) THEN -1 ELSE 1
  BY DEF compareSemver
<1>3. First(1) <=> Differs(1)
  BY <1>1
<1>4. First(2) <=> Differs(2) /\ ~ Differs(1)
  BY <1>1
<1>5. First(3) <=> Differs(3) /\ ~ Differs(1) /\ ~ Differs(2)
  BY <1>1
<1> HIDE DEF Differs, First
<1>6. CASE Differs(1)
  <2>1. first = 1
    BY <1>1, <1>3, <1>4, <1>5, <1>6
  <2> HIDE DEF first
  <2> QED
    BY <1>1, <1>2, <1>6, <2>1 DEF Differs
<1>7. CASE ~ Differs(1) /\ Differs(2)
  <2>1. first = 2
    BY <1>1, <1>3, <1>4, <1>5, <1>7
  <2> HIDE DEF first
  <2> QED
    BY <1>1, <1>2, <1>7, <2>1 DEF Differs
<1>8. CASE ~ Differs(1) /\ ~ Differs(2) /\ Differs(3)
  <2>1. first = 3
    BY <1>1, <1>3, <1>4, <1>5, <1>8
  <2> HIDE DEF first
  <2> QED
    BY <1>1, <1>2, <1>8, <2>1 DEF Differs
<1>9. CASE ~ Differs(1) /\ ~ Differs(2) /\ ~ Differs(3)
  BY <1>1, <1>2, <1>9 DEF Differs
<1> QED
  BY <1>6, <1>7, <1>8, <1>9

(* Versions that differ in no part are equal, and no version is below      *)
(* itself; the order is read the same way from both sides.                 *)
LEMMA SemverTurns ==
  ASSUME NEW a \in Seq(Part), NEW b \in Seq(Part)
  PROVE  compareSemver(a, b) = -compareSemver(b, a) /\ ~ (compareSemver(a, a) < 0)
<1> DEFINE a1 == parseVersionPart(a, 1)
           a2 == parseVersionPart(a, 2)
           a3 == parseVersionPart(a, 3)
           b1 == parseVersionPart(b, 1)
           b2 == parseVersionPart(b, 2)
           b3 == parseVersionPart(b, 3)
<1>1. /\ a1 \in Nat /\ a2 \in Nat /\ a3 \in Nat
      /\ b1 \in Nat /\ b2 \in Nat /\ b3 \in Nat
  <2>1. 1 \in 1..3 /\ 2 \in 1..3 /\ 3 \in 1..3
    OBVIOUS
  <2> QED
    BY <2>1, PartIs
<1>2. compareSemver(a, b) =
        IF a1 # b1 THEN IF a1 < b1 THEN -1 ELSE 1
        ELSE IF a2 # b2 THEN IF a2 < b2 THEN -1 ELSE 1
        ELSE IF a3 # b3 THEN IF a3 < b3 THEN -1 ELSE 1 ELSE 0
  BY SemverIs
<1>3. compareSemver(b, a) =
        IF b1 # a1 THEN IF b1 < a1 THEN -1 ELSE 1
        ELSE IF b2 # a2 THEN IF b2 < a2 THEN -1 ELSE 1
        ELSE IF b3 # a3 THEN IF b3 < a3 THEN -1 ELSE 1 ELSE 0
  BY SemverIs
<1>4. compareSemver(a, a) = 0
  BY SemverIs
<1> HIDE DEF a1, a2, a3, b1, b2, b3
<1> QED
  BY <1>1, <1>2, <1>3, <1>4

(* A later version is not below what an earlier one is not below. *)
LEMMA LaterStays ==
  ASSUME NEW v \in Seq(Part), NEW w \in Seq(Part), NEW min \in Seq(Part), NEW i \in 1..3,
         parseVersionPart(w, i) > parseVersionPart(v, i),
         \A j \in 1..(i - 1) : parseVersionPart(w, j) = parseVersionPart(v, j),
         ~ (compareSemver(v, min) < 0)
  PROVE  ~ (compareSemver(w, min) < 0)
<1> DEFINE v1 == parseVersionPart(v, 1)
           v2 == parseVersionPart(v, 2)
           v3 == parseVersionPart(v, 3)
           w1 == parseVersionPart(w, 1)
           w2 == parseVersionPart(w, 2)
           w3 == parseVersionPart(w, 3)
           m1 == parseVersionPart(min, 1)
           m2 == parseVersionPart(min, 2)
           m3 == parseVersionPart(min, 3)
<1>1. /\ v1 \in Nat /\ v2 \in Nat /\ v3 \in Nat
      /\ w1 \in Nat /\ w2 \in Nat /\ w3 \in Nat
      /\ m1 \in Nat /\ m2 \in Nat /\ m3 \in Nat
  <2>1. 1 \in 1..3 /\ 2 \in 1..3 /\ 3 \in 1..3
    OBVIOUS
  <2> QED
    BY <2>1, PartIs
<1>2. \/ w1 > v1
      \/ w1 = v1 /\ w2 > v2
      \/ w1 = v1 /\ w2 = v2 /\ w3 > v3
  <2>1. CASE i = 1
    BY <1>1, <2>1
  <2>2. CASE i = 2
    BY <1>1, <2>2
  <2>3. CASE i = 3
    BY <1>1, <2>3
  <2> QED
    BY <2>1, <2>2, <2>3
<1>3. compareSemver(v, min) =
        IF v1 # m1 THEN IF v1 < m1 THEN -1 ELSE 1
        ELSE IF v2 # m2 THEN IF v2 < m2 THEN -1 ELSE 1
        ELSE IF v3 # m3 THEN IF v3 < m3 THEN -1 ELSE 1 ELSE 0
  BY SemverIs
<1>4. compareSemver(w, min) =
        IF w1 # m1 THEN IF w1 < m1 THEN -1 ELSE 1
        ELSE IF w2 # m2 THEN IF w2 < m2 THEN -1 ELSE 1
        ELSE IF w3 # m3 THEN IF w3 < m3 THEN -1 ELSE 1 ELSE 0
  BY SemverIs
<1> HIDE DEF v1, v2, v3, w1, w2, w3, m1, m2, m3
<1> QED
  BY <1>1, <1>2, <1>3, <1>4

(* An app that need not update need not when it is newer, and the oldest   *)
(* version the newest row names may stay (VersionCheck in version.go).     *)
LEMMA VersionsStay ==
  ASSUME NEW x, x.v \in AppVersion, x.w \in AppVersion, x.rows \in Seq(VersionRow)
  PROVE  LaterVersionsStay(x)
<1> DEFINE rows == x.rows
           own == {i \in DOMAIN rows : rows[i].platform = x.platform}
           Newest(k) == \A j \in own : rows[j].created <= rows[k].created
           newest == {k \in DOMAIN rows :
                        /\ rows[k].platform = x.platform
                        /\ \A j \in DOMAIN rows \ {k} :
                             rows[j].platform = x.platform => rows[j].created < rows[k].created}
<1>1. x.v \in Seq(Part) /\ x.w \in Seq(Part) /\ Len(x.v) = 3 /\ Len(x.w) = 3
  BY DEF AppVersion
<1>2. \A k \in DOMAIN rows : rows[k].created \in Int /\ rows[k].min \in Seq(Part)
  <2>1. \A k \in DOMAIN rows : rows[k] \in VersionRow
    BY LenProperties
  <2> QED
    BY <2>1 DEF VersionRow
<1>3. ASSUME NEW k \in newest
      PROVE  GetLatest(rows, x.platform) = rows[k]
  <2> DEFINE latest == CHOOSE i \in own : Newest(i)
  <2>1. k \in own /\ \A j \in own : j # k => rows[j].created < rows[k].created
    BY <1>3
  <2>2. \A j \in own : rows[j].created \in Int
    BY <1>2
  <2>3. Newest(k)
    BY <2>1, <2>2
  <2>4. ASSUME NEW j \in own, Newest(j) PROVE j = k
    BY <2>1, <2>2, <2>4
  <2>5. latest = k
    <3> HIDE DEF own, Newest
    <3> QED
      BY <2>1, <2>3, <2>4
  <2> QED
    BY <2>5 DEF GetLatest
<1>4. ASSUME NEW k \in newest
      PROVE  ~ VersionCheck(rows, x.platform, rows[k].min)
  <2>1. rows[k].min \in Seq(Part)
    BY <1>2, <1>4
  <2> HIDE DEF newest
  <2> QED
    BY <1>3, <1>4, <2>1, SemverTurns DEF VersionCheck
<1>5. ASSUME NEW i \in 1..3, parseVersionPart(x.w, i) > parseVersionPart(x.v, i),
             \A j \in 1..(i - 1) : x.w[j] = x.v[j],
             newest # {}, ~ VersionCheck(rows, x.platform, x.v)
      PROVE  ~ VersionCheck(rows, x.platform, x.w)
  <2>1. PICK k \in newest : TRUE
    BY <1>5
  <2>2. GetLatest(rows, x.platform) = rows[k] /\ rows[k].min \in Seq(Part)
    BY <1>2, <1>3, <2>1
  <2>3. ~ (compareSemver(x.v, rows[k].min) < 0)
    BY <1>5, <2>2 DEF VersionCheck
  <2>4. \A j \in 1..(i - 1) : parseVersionPart(x.w, j) = parseVersionPart(x.v, j)
    BY <1>1, <1>5 DEF parseVersionPart
  <2>5. ~ (compareSemver(x.w, rows[k].min) < 0)
    BY <1>1, <1>5, <2>2, <2>3, <2>4, LaterStays
  <2> QED
    BY <2>2, <2>5 DEF VersionCheck
<1>6. compareSemver(x.v, x.w) = -compareSemver(x.w, x.v)
  BY <1>1, SemverTurns
<1> QED
  BY <1>4, <1>5, <1>6 DEF LaterVersionsStay

(* Without a limit the database leaves out no row. *)
LEMMA AllAnswered ==
  ASSUME NEW S, IsFiniteSet(S), NEW rank, NEW p \in Ordered(S, rank, Cardinality(S))
  PROVE  /\ DOMAIN p = 1..Cardinality(S)
         /\ {p[i] : i \in DOMAIN p} = S
         /\ \A i, j \in DOMAIN p : i < j => rank[p[i]] <= rank[p[j]]
<1> DEFINE n == Cardinality(S)
<1>1. n \in Nat /\ (IF n < n THEN n ELSE n) = n
  BY FS_CardinalityType
<1>2. /\ p \in [1..n -> S]
      /\ \A i, j \in 1..n : i < j => p[i] # p[j] /\ rank[p[i]] <= rank[p[j]]
  <2> HIDE DEF n
  <2> QED
    BY <1>1 DEF Ordered, n
<1>3. p \in Injection(1..n, S)
  <2>1. \A i, j \in 1..n : i # j => i < j \/ j < i
    BY <1>1
  <2> HIDE DEF n
  <2>2. \A i, j \in 1..n : i # j => p[i] # p[j]
    BY <1>2, <2>1
  <2> QED
    BY <1>2, <2>2 DEF Injection, IsInjective
<1>4. IsFiniteSet(1..n) /\ Cardinality(1..n) = n
  BY <1>1, FS_Interval
<1>5. p \in Surjection(1..n, S)
  BY <1>3, <1>4, FS_Injection
<1> QED
  BY <1>2, <1>5 DEF Surjection

(* A user is shown the devices signed in (ListSessions in session.go). *)
LEMMA SessionsAre ==
  ASSUME NEW x, x.rows \in Seq(SessionRow)
  PROVE  SessionsAreTheSignedIn(x)
<1> DEFINE rows == x.rows
           own == {i \in DOMAIN rows : rows[i].user = x.user /\ ~ rows[i].out}
           rank == [i \in own |-> -rows[i].seen]
           mine == {rows[i].device : i \in own}
           Shown(p) == [i \in DOMAIN p |->
              [device |-> rows[p[i]].device, seen |-> rows[p[i]].seen,
               current |-> rows[p[i]].device = x.device]]
<1>1. IsFiniteSet(own)
  <2>1. Len(rows) \in Nat /\ DOMAIN rows = 1..Len(rows)
    BY LenProperties
  <2>2. IsFiniteSet(DOMAIN rows)
    BY <2>1, FS_Interval
  <2> QED
    BY <2>2, FS_Subset
<1>2. \A i \in own : rows[i].seen \in Int
  <2>1. \A i \in DOMAIN rows : rows[i] \in SessionRow
    BY LenProperties
  <2> QED
    BY <2>1 DEF SessionRow
<1>3. ListSessions(rows, x.user, x.device)
        = {Shown(p) : p \in Ordered(own, rank, Cardinality(own))}
  BY DEF ListSessions, ListRows, LastActiveFirst
<1> SUFFICES ASSUME NEW shown \in ListSessions(rows, x.user, x.device)
             PROVE  /\ {shown[i].device : i \in DOMAIN shown} = mine
                    /\ {shown[i].device : i \in {j \in DOMAIN shown : shown[j].current}}
                         = mine \intersect {x.device}
                    /\ \A i, j \in DOMAIN shown : i < j => shown[i].seen >= shown[j].seen
  BY DEF SessionsAreTheSignedIn
<1>4. PICK p \in Ordered(own, rank, Cardinality(own)) : shown = Shown(p)
  BY <1>3
<1>5. /\ {p[i] : i \in DOMAIN p} = own
      /\ \A i, j \in DOMAIN p : i < j => rank[p[i]] <= rank[p[j]]
  <2> HIDE DEF own, rank
  <2> QED
    BY <1>1, AllAnswered
<1>6. DOMAIN shown = DOMAIN p
  BY <1>4
<1>7. \A i \in DOMAIN p : /\ p[i] \in own
                          /\ shown[i].device = rows[p[i]].device
                          /\ shown[i].seen = rows[p[i]].seen
                          /\ shown[i].current <=> rows[p[i]].device = x.device
  <2> HIDE DEF own
  <2> QED
    BY <1>5, <1>4
<1>8. {shown[i].device : i \in DOMAIN p} = mine
  <2> HIDE DEF own
  <2> QED
    BY <1>5, <1>7
<1>9. {shown[i].device : i \in {j \in DOMAIN p : shown[j].current}}
        = mine \intersect {x.device}
  <2> HIDE DEF own
  <2> QED
    BY <1>5, <1>7
<1>10. ASSUME NEW i \in DOMAIN p, NEW j \in DOMAIN p, i < j
      PROVE  shown[i].seen >= shown[j].seen
  <2>1. rank[p[i]] <= rank[p[j]]
    BY <1>5, <1>10
  <2>2. -rows[p[i]].seen <= -rows[p[j]].seen
    <3> HIDE DEF own
    <3> QED
      BY <1>7, <2>1
  <2>3. rows[p[i]].seen \in Int /\ rows[p[j]].seen \in Int
    BY <1>2, <1>7
  <2> QED
    BY <1>7, <2>2, <2>3
<1> QED
  BY <1>6, <1>8, <1>9, <1>10

(* What the auth service computes without state is right for every input:  *)
(* rings, versions, tables of sessions.                                    *)
THEOREM ViewsRight == AskedSpec => []AuthViewsRight
<1>1. ASSUME NEW x \in AskedInputs
      PROVE  /\ RotationIsSmooth(x) /\ OneKeyFitsAll(x)
             /\ LaterVersionsStay(x) /\ SessionsAreTheSignedIn(x)
  <2>1. CASE x \in [kind : {"rotation"}, ring : Seq(Entry), next : Entry, token : Entry]
    <3>1. x.kind = "rotation" /\ x.ring \in Seq(Entry) /\ x.next \in Entry
      BY <2>1
    <3> QED
      BY <3>1, SmoothRotation DEF OneKeyFitsAll, LaterVersionsStay, SessionsAreTheSignedIn
  <2>2. CASE x \in [kind : {"keys"}, key : Key \ {Bad}, kid : Kid, signer : Key]
    <3>1. x.kind = "keys" /\ x.key # Bad
      BY <2>2
    <3> QED
      BY <3>1, OneKeyFits DEF RotationIsSmooth, LaterVersionsStay, SessionsAreTheSignedIn
  <2>3. CASE x \in [kind : {"version"}, v : AppVersion, w : AppVersion,
                    platform : {"android", "ios"}, rows : Seq(VersionRow)]
    <3>1. /\ x.kind = "version" /\ x.v \in AppVersion /\ x.w \in AppVersion
          /\ x.rows \in Seq(VersionRow)
      BY <2>3
    <3> QED
      BY <3>1, VersionsStay DEF RotationIsSmooth, OneKeyFitsAll, SessionsAreTheSignedIn
  <2>4. CASE x \in [kind : {"sessions"}, user : Nat, device : Nat, rows : Seq(SessionRow)]
    <3>1. x.kind = "sessions" /\ x.rows \in Seq(SessionRow)
      BY <2>4
    <3> QED
      BY <3>1, SessionsAre DEF RotationIsSmooth, OneKeyFitsAll, LaterVersionsStay
  <2>5. CASE x \in [kind : {"none"}]
    BY <2>5 DEF RotationIsSmooth, OneKeyFitsAll, LaterVersionsStay, SessionsAreTheSignedIn
  <2> QED
    BY <2>1, <2>2, <2>3, <2>4, <2>5 DEF AskedInputs
<1>2. sample \in Samples => AuthViewsRight
  BY <1>1, SamplesAssumption DEF AuthViewsRight
<1>3. sample \in Samples /\ [UNCHANGED sample]_sample => (sample \in Samples)'
  OBVIOUS
<1> QED
  BY <1>2, <1>3, PTL DEF AskedSpec
=============================================================================
