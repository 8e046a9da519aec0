------------------------------ MODULE AuthViews ------------------------------
(***************************************************************************)
(* What the auth service computes without state of its own: which keys a   *)
(* token is checked with, in this service and in those that take its       *)
(* tokens, whether an app is too old, which sessions a user is shown.      *)
(***************************************************************************)
EXTENDS Integers, Sequences, FiniteSets, Queries

(* The inputs the properties are asked of, and the one asked about now.    *)
CONSTANT Samples
VARIABLE sample

(* JWT_PUBLIC_KEY is a sequence of entries <<kid, key>>: a kid and a key,  *)
(* or NoKid and a bare key.  Bad stands for a text that is not base64.     *)
CONSTANTS Kid, Key, NoKid, Default, Bad

Kids(entries) == {entries[i][1] : i \in DOMAIN entries}
LastWith(entries, kid) ==
  entries[CHOOSE i \in DOMAIN entries :
            /\ entries[i][1] = kid
            /\ \A j \in DOMAIN entries : entries[j][1] = kid => j <= i][2]

(* Mutant of DefaultKey: the key added last. *)
DefaultKeyNewest(entries) ==
  IF Default \in Kids(entries) THEN LastWith(entries, Default)
  ELSE entries[Len(entries)][2]

(* keys["default"]: the entry of that name, else the first one. *)
DefaultKey(entries) ==
  IF Default \in Kids(entries) THEN LastWith(entries, Default) ELSE entries[1][2]

Refused == [error |-> TRUE]
Ring(keys) == [error |-> FALSE, keys |-> keys]

(* parsePublicKeys: one bare key, or a list in which every key has a kid.  *)
parsePublicKeys(entries) ==
  IF \/ entries = <<>> \/ \E i \in DOMAIN entries : entries[i][2] = Bad
     \/ Len(entries) > 1 /\ NoKid \in Kids(entries)
    THEN Refused
  ELSE IF entries[1][1] = NoKid THEN Ring([k \in {Default} |-> entries[1][2]])
  ELSE Ring([k \in Kids(entries) \union {Default} |->
               IF k = Default THEN DefaultKey(entries) ELSE LastWith(entries, k)])

(* The store service's copy of it. *)
StoreKeys(entries) == parsePublicKeys(entries)

(* The shared library decodes the whole text as one key and panics if that *)
(* fails.                                                                  *)
SharedKeys(entries) ==
  IF Len(entries) = 1 /\ entries[1][1] = NoKid /\ entries[1][2] # Bad
    THEN Ring([k \in {Default} |-> entries[1][2]]) ELSE Refused

(* JWT_PRIVATE_KEY: a key with or without a kid. *)
parsePrivateKey(entry) == [kid |-> entry[1], key |-> entry[2], error |-> entry[2] = Bad]

(* NewJWTMiddlewareE: the kid the tokens are signed under. *)
currentKID(entry) ==
  IF parsePrivateKey(entry).kid = NoKid THEN Default ELSE parsePrivateKey(entry).kid

(* Mutant of KeyFor: a kid the ring does not list is refused. *)
KeyForListed(ring, kid) == IF kid \in DOMAIN ring.keys THEN ring.keys[kid] ELSE Bad

(* The key a token is checked with: that of its kid, or the default one.   *)
KeyFor(ring, kid) ==
  IF kid \in DOMAIN ring.keys THEN ring.keys[kid]
  ELSE IF Default \in DOMAIN ring.keys THEN ring.keys[Default] ELSE Bad

(* ValidateToken, for a token <<kid, key it was signed with>>.             *)
ValidateToken(ring, token) == ~ ring.error /\ KeyFor(ring, token[1]) = token[2]

(* ValidateToken of the store service, and of the shared library, which    *)
(* does not look at the kid.                                               *)
StoreValidates(ring, token) == ValidateToken(ring, token)
SharedValidates(ring, token) == ~ ring.error /\ ring.keys[Default] = token[2]

(* GenerateAccessToken and GenerateRefreshToken. *)
SignedBy(entry) == <<currentKID(entry), parsePrivateKey(entry).key>>

-----------------------------------------------------------------------------
(* A version is the sequence of its parts between dots, a part a sequence  *)
(* of digits; other characters are 10.                                     *)
ReadDigit(n, c) == IF c < 10 THEN n * 10 + c ELSE n
Number(part) ==
  LET n[i \in 0..Len(part)] == IF i = 0 THEN 0 ELSE ReadDigit(n[i - 1], part[i])
  IN n[Len(part)]
parseVersionPart(parts, i) == IF i > Len(parts) THEN 0 ELSE Number(parts[i])

(* Mutant of compareSemver: the first part that is larger decides. *)
compareSemverLarger(a, b) ==
  IF \E i \in 1..3 : parseVersionPart(a, i) > parseVersionPart(b, i) THEN 1
  ELSE IF \E i \in 1..3 : parseVersionPart(a, i) < parseVersionPart(b, i) THEN -1 ELSE 0

(* -1, 0 or 1 by the first of three parts in which two versions differ.    *)
compareSemver(a, b) ==
  LET Differs(i) == parseVersionPart(a, i) # parseVersionPart(b, i)
  IN IF \A i \in 1..3 : ~ Differs(i) THEN 0
     ELSE LET first == CHOOSE i \in 1..3 : Differs(i) /\ \A j \in 1..(i - 1) : ~ Differs(j)
          IN IF parseVersionPart(a, first) < parseVersionPart(b, first) THEN -1 ELSE 1

(* GetLatest: the row of the platform that was created last. *)
GetLatest(rows, platform) ==
  LET own == {i \in DOMAIN rows : rows[i].platform = platform}
  IN rows[CHOOSE i \in own : \A j \in own : rows[j].created <= rows[i].created]

(* VersionCheck: an app below the smallest version of the latest row must  *)
(* update.                                                                 *)
VersionCheck(rows, platform, version) ==
  compareSemver(version, GetLatest(rows, platform).min) < 0

-----------------------------------------------------------------------------
LastActiveFirst(rows, own) ==
  Ordered(own, [i \in own |-> -rows[i].seen], Cardinality(own))

(* Mutant of ListRows: devices that are logged out too. *)
ListRowsAll(rows, user) ==
  LastActiveFirst(rows, {i \in DOMAIN rows : rows[i].user = user})

(* The rows of a user that are not logged out, last active first; every    *)
(* answer the query may give, as the places of its rows in the table.      *)
ListRows(rows, user) ==
  LastActiveFirst(rows, {i \in DOMAIN rows : rows[i].user = user /\ ~ rows[i].out})

(* ListSessions, marking the session of the device that asks. *)
ListSessions(rows, user, device) ==
  {[i \in DOMAIN found |->
      [device |-> rows[found[i]].device, seen |-> rows[found[i]].seen,
       current |-> rows[found[i]].device = device]] : found \in ListRows(rows, user)}

-----------------------------------------------------------------------------
(* Adding the next key at the end of the list, before anything is signed   *)
(* with it, refuses no token that was accepted, in either service.         *)
RotationIsSmooth(x) ==
  x.kind = "rotation" =>
    LET old == parsePublicKeys(x.ring)
        new == parsePublicKeys(Append(x.ring, x.next))
        sensible == /\ ~ old.error /\ NoKid \notin Kids(x.ring)
                    /\ x.next[1] \notin {NoKid, Default, x.token[1]} /\ x.next[2] # Bad
    IN sensible =>
         /\ ValidateToken(old, x.token) => ValidateToken(new, x.token)
         /\ StoreValidates(StoreKeys(x.ring), x.token)
              => StoreValidates(StoreKeys(Append(x.ring, x.next)), x.token)

(* With one bare key every service accepts what the auth service signs,    *)
(* whatever kid the private key is given, and nothing signed otherwise.    *)
OneKeyFitsAll(x) ==
  x.kind = "keys" =>
    LET entries == <<<<NoKid, x.key>>>>
        token == SignedBy(<<x.kid, x.signer>>)
    IN /\ ValidateToken(parsePublicKeys(entries), token) <=> x.key = x.signer
       /\ StoreValidates(StoreKeys(entries), token) <=> x.key = x.signer
       /\ SharedValidates(SharedKeys(entries), token) <=> x.key = x.signer

(* An app that may stay keeps that right when it is updated: if a version  *)
(* is not forced to update, no later one is, later being read number by    *)
(* number; and the oldest version that is let in is the one the newest row *)
(* of the platform names.                                                  *)
LaterVersionsStay(x) ==
  x.kind = "version" =>
    LET newest == {k \in DOMAIN x.rows :
                     /\ x.rows[k].platform = x.platform
                     /\ \A j \in DOMAIN x.rows \ {k} :
                          x.rows[j].platform = x.platform
                            => x.rows[j].created < x.rows[k].created}
        later == \E i \in 1..3 : /\ parseVersionPart(x.w, i) > parseVersionPart(x.v, i)
                                 /\ \A j \in 1..(i - 1) : x.w[j] = x.v[j]
        MustUpdate(v) == VersionCheck(x.rows, x.platform, v)
    IN /\ later /\ newest # {} /\ ~ MustUpdate(x.v) => ~ MustUpdate(x.w)
       /\ \A k \in newest : ~ MustUpdate(x.rows[k].min)
       /\ compareSemver(x.v, x.w) = -compareSemver(x.w, x.v)

(* A user sees every device signed in and no other, the one used last      *)
(* first, and the device asking is the only one marked as current, in      *)
(* whatever order the database gives rows used at the same time.           *)
SessionsAreTheSignedIn(x) ==
  x.kind = "sessions" =>
    LET mine == {x.rows[i].device : i \in {j \in DOMAIN x.rows :
                   x.rows[j].user = x.user /\ ~ x.rows[j].out}}
    IN \A shown \in ListSessions(x.rows, x.user, x.device) :
         /\ {shown[i].device : i \in DOMAIN shown} = mine
         /\ {shown[i].device : i \in {j \in DOMAIN shown : shown[j].current}}
              = mine \intersect {x.device}
         /\ \A i, j \in DOMAIN shown : i < j => shown[i].seen >= shown[j].seen

-----------------------------------------------------------------------------
(* Every input the service may compute with.  A part of a version fits an  *)
(* integer of 64 bits; the version of an app has three parts, that of a    *)
(* row any number.                                                         *)
Entry == Kid \X Key
Part == {p \in Seq(0..10) : Len(p) <= 18}
AppVersion == {v \in Seq(Part) : Len(v) = 3}
VersionRow == [platform : {"android", "ios"}, created : Int, min : Seq(Part)]
SessionRow == [device : Nat, user : Nat, out : BOOLEAN, seen : Int]
AskedInputs ==
  [kind : {"rotation"}, ring : Seq(Entry), next : Entry, token : Entry]
  \union [kind : {"keys"}, key : Key \ {Bad}, kid : Kid, signer : Key]
  \union [kind : {"version"}, v : AppVersion, w : AppVersion,
          platform : {"android", "ios"}, rows : Seq(VersionRow)]
  \union [kind : {"sessions"}, user : Nat, device : Nat, rows : Seq(SessionRow)]
  \union [kind : {"none"}]
ASSUME SamplesAssumption == Samples \subseteq AskedInputs

(* One input after another is asked about on its own. *)
AskedSpec == sample \in Samples /\ [][UNCHANGED sample]_sample

(* Adding a key to the ring refuses no token that was accepted; one bare   *)
(* key fits all services; a later version of the app is never asked to     *)
(* update when an earlier one is not; users are shown their own devices.   *)
AuthViewsRight ==
  /\ RotationIsSmooth(sample)
  /\ OneKeyFitsAll(sample)
  /\ LaterVersionsStay(sample)
  /\ SessionsAreTheSignedIn(sample)
=============================================================================
