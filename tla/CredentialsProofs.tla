-------------------------- MODULE CredentialsProofs --------------------------
(***************************************************************************)
(* Proofs about Credentials.  The invariant is a predicate on one command's *)
(* record: what it knows of the keyring at each of its calls.  A command    *)
(* that changes an item keeps its own record sound by what it has just      *)
(* done, and every other record because Seen notes the change.              *)
(***************************************************************************)
EXTENDS Credentials, TLAPS

(* Which command can be at which call.                                      *)
InLogin == {"launch", "readUsername", "readPassword", "login", "truncate", "save"}
Place(r) ==
  /\ r.pc \in {"putUsername", "putPassword"} => r.kind = "authenticate"
  /\ r.pc \in {"checkUsername", "checkPassword"} => r.kind = "refresh_token"
  /\ r.pc \in InLogin => r.kind \in {"authenticate", "refresh_token", "supervisor"}
  /\ r.pc \in {"deleteUsername", "deletePassword", "removeCookie", "removeProfile"}
       => r.kind = "deauthenticate"
  /\ r.pc \in {"validate", "probe"} => r.kind = "validate"
  /\ r.kind = "deauthenticate" => r.goal = NoAccount
  /\ r.kind = "authenticate" => r.goal # NoAccount

(* An entry nobody changed after the command holds what it put there.       *)
Own(r, k) == \A e \in Entry : r.mark[e] = "mine" => k[e] = r.goal

(* What a command has behind it.                                            *)
Progress(r) ==
  /\ r.pc \in {"putPassword", "deletePassword"} => r.mark["username"] # "untouched"
  /\ r.kind = "authenticate" /\ r.pc \in InLogin
       => \A e \in Entry : r.mark[e] # "untouched"
  /\ r.pc = "save" => r.mark["cookie"] # "untouched"
  /\ r.pc \in {"removeCookie", "removeProfile"}
       => \A e \in Entry : r.mark[e] # "untouched" \/ e \in r.failed
  /\ r.pc = "removeProfile"
       => r.mark["cookie"] # "untouched" \/ "cookie" \in r.failed

(* What vpn_credentials has found so far.                                   *)
Looked(r, s) ==
  /\ r.pc \in {"checkPassword", "readPassword"} => r.name # NoAccount /\ ~Whole(r.env)
  /\ r.pc = "login" =>
       /\ r.login.source = "env" => Whole(r.env) /\ r.login.pair = r.env
       /\ r.login.source # "env" => ~Whole(r.env)
       /\ r.login.source = "files" => Whole(s) /\ r.login.pair = s
       /\ r.login.source = "none" => ~Whole(s)

(* What is still true of the keyring if nobody else has changed it.         *)
Undisturbed(r, k, s) ==
  Quiet(r) /\ r.pc \notin {"truncate", "save"} =>
    /\ \A e \in Entry : r.mark[e] # "others"
    /\ r.pc \in {"checkPassword", "readPassword"} => k["username"] = r.name
    /\ r.kind = "refresh_token" /\ r.pc \notin {"checkUsername", "checkPassword"}
         => Whole(r.env) \/ Whole(s) \/ Whole(k)
    /\ r.pc = "login" /\ r.login.source = "keyring" => r.login.pair = k
    /\ r.pc = "login" /\ r.login.source \in {"files", "none"} => ~Whole(k)

Sound(r, k, s) ==
  Place(r) /\ Own(r, k) /\ Progress(r) /\ Looked(r, s) /\ Undisturbed(r, k, s)

(* The cookie file, for a command whose open file has lost its name or not. *)
Kept(r, c, lost) ==
  /\ r.kind = "deauthenticate" /\ r.mark["cookie"] = "mine" => c = "absent"
  /\ lost => r.pc = "save" /\ r.mark["cookie"] = "others"

Good(p) ==
  Active(p) => Sound(cmd[p], keyring, secret) /\ Kept(cmd[p], cookie, p \in unlinked)

CInv == TypeOK /\ KeyringPaired /\ \A p \in Proc : Good(p)
-----------------------------------------------------------------------------
(* Seen keeps a record sound when the item it notes is the one that changed. *)
LEMMA MarkedFacts ==
  ASSUME NEW r \in Commands, NEW i \in Item
  PROVE  /\ Marked(r, i) \in [Item -> {"untouched", "mine", "others"}]
         /\ \A j \in Item : Marked(r, i)[j] =
              IF j = i /\ r.mark[j] = "mine" THEN "others" ELSE r.mark[j]
BY DEF Marked, Commands

LEMMA SeenFacts ==
  ASSUME NEW r \in Commands, NEW i \in Item
  PROVE  /\ Seen(r, i) \in Commands
         /\ Seen(r, i).pc = r.pc /\ Seen(r, i).kind = r.kind
         /\ Seen(r, i).goal = r.goal /\ Seen(r, i).failed = r.failed
         /\ Seen(r, i).env = r.env /\ Seen(r, i).name = r.name
         /\ Seen(r, i).login = r.login
         /\ Seen(r, i).mark = Marked(r, i)
         /\ Quiet(Seen(r, i)) <=> Quiet(r) /\ i \notin Entry
<1>1. CASE i \in Entry
  BY <1>1, MarkedFacts DEF Seen, Commands, Quiet
<1>2. CASE i \notin Entry
  BY <1>2, MarkedFacts DEF Seen, Commands, Quiet
<1> QED BY <1>1, <1>2

LEMMA SeenKeepsSound ==
  ASSUME NEW r \in Commands, NEW i \in Item, NEW k \in Pairs, NEW k2 \in Pairs,
         NEW s \in Pairs, Sound(r, k, s), \A e \in Entry : e # i => k2[e] = k[e]
  PROVE  Sound(Seen(r, i), k2, s)
<1> DEFINE t == Seen(r, i)
<1> Entry \subseteq Item /\ "cookie" \in Item BY DEF Item
<1>1. /\ t.pc = r.pc /\ t.kind = r.kind /\ t.goal = r.goal /\ t.failed = r.failed
      /\ t.env = r.env /\ t.name = r.name /\ t.login = r.login
      /\ Quiet(t) <=> Quiet(r) /\ i \notin Entry
  BY SeenFacts
<1>0. \A j \in Item : t.mark[j] = IF j = i /\ r.mark[j] = "mine" THEN "others" ELSE r.mark[j]
  <2>1. t.mark = Marked(r, i) BY SeenFacts
  <2> QED BY <2>1, MarkedFacts
<1> HIDE DEF t
<1>2. Place(t) BY <1>1 DEF Sound, Place
<1>3. Own(t, k2) BY <1>1, <1>0 DEF Sound, Own
<1>4. Progress(t) BY <1>1, <1>0 DEF Sound, Progress, Entry
<1>5. Looked(t, s) BY <1>1 DEF Sound, Looked
<1>6. Undisturbed(t, k2, s)
  <2> SUFFICES ASSUME Quiet(t) PROVE Undisturbed(t, k2, s)
    BY DEF Undisturbed
  <2>1. i \notin Entry /\ Quiet(r) BY <1>1
  <2>2. k2 = k BY <2>1 DEF Pairs
  <2> QED BY <1>0, <1>1, <2>1, <2>2 DEF Sound, Undisturbed
<1> QED BY <1>2, <1>3, <1>4, <1>5, <1>6 DEF Sound, t

LEMMA SeenKeepsCookie ==
  ASSUME NEW r \in Commands, NEW i \in Item, NEW c, NEW c2,
         NEW lost, NEW lost2, Kept(r, c, lost),
         i # "cookie" => c2 = c, lost2 => lost \/ (i = "cookie" /\ r.pc = "save"),
         r.pc = "save" => r.mark["cookie"] # "untouched"
  PROVE  Kept(Seen(r, i), c2, lost2)
<1> DEFINE t == Seen(r, i)
<1>1. t.pc = r.pc /\ t.kind = r.kind BY SeenFacts
<1>0. \A j \in Item : t.mark[j] = IF j = i /\ r.mark[j] = "mine" THEN "others" ELSE r.mark[j]
  <2>1. t.mark = Marked(r, i) BY SeenFacts
  <2> QED BY <2>1, MarkedFacts
<1>2. r.mark["cookie"] \in {"untouched", "mine", "others"} BY DEF Commands, Item
<1> "cookie" \in Item BY DEF Item
<1> HIDE DEF t
<1>3. CASE i = "cookie" BY <1>0, <1>1, <1>2, <1>3 DEF Kept, t
<1>4. CASE i # "cookie" BY <1>0, <1>1, <1>4 DEF Kept, t
<1> QED BY <1>3, <1>4

-----------------------------------------------------------------------------
(* A step that moves one command and changes nothing shared.                *)
LEMMA OneMoves ==
  ASSUME CInv, NEW p \in Proc, NEW t \in Commands, Becomes(p, t),
         UNCHANGED <<keyring, secret, cookie>>,
         \A q \in Proc \ {p} : q \in unlinked' <=> q \in unlinked,
         t.pc \notin Ended =>
           Sound(t, keyring, secret) /\ Kept(t, cookie, p \in unlinked')
  PROVE  /\ cmd' \in [Proc -> Commands] /\ cmd'[p] = t
         /\ \A q \in Proc : Good(q)'
         /\ \A q \in Proc \ {p} : Midway(q)' <=> Midway(q)
<1>1. /\ cmd' \in [Proc -> Commands] /\ cmd'[p] = t
      /\ \A q \in Proc \ {p} : cmd'[q] = cmd[q]
  BY DEF CInv, TypeOK, Becomes
<1>2. Good(p)' BY <1>1 DEF Good, Active
<1>3. ASSUME NEW q \in Proc \ {p} PROVE Good(q)' /\ (Midway(q)' <=> Midway(q))
  BY <1>1 DEF Good, Active, Midway, CInv
<1> QED BY <1>1, <1>2, <1>3

(* A step by which command p changes item i.                                *)
Mine(t, i) == [t EXCEPT !.mark[i] = "mine"]

LEMMA OneChanges ==
  ASSUME CInv, NEW p \in Proc, NEW i \in Item, NEW t, Changes(p, i, t),
         Mine(t, i) \in Commands,
         keyring' \in Pairs, \A e \in Entry : e # i => keyring'[e] = keyring[e],
         secret' = secret, i # "cookie" => cookie' = cookie,
         \A q \in Proc \ {p} :
           q \in unlinked' => q \in unlinked \/ (i = "cookie" /\ cmd[q].pc = "save"),
         Mine(t, i).pc \notin Ended =>
           /\ Sound(Mine(t, i), keyring', secret)
           /\ Kept(Mine(t, i), cookie', p \in unlinked')
  PROVE  /\ cmd' \in [Proc -> Commands] /\ cmd'[p] = Mine(t, i)
         /\ \A q \in Proc : Good(q)'
         /\ \A q \in Proc \ {p} : Midway(q)' <=> Midway(q)
<1>1. /\ cmd'[p] = Mine(t, i)
      /\ \A q \in Proc \ {p} : cmd'[q] = IF Active(q) THEN Seen(cmd[q], i) ELSE cmd[q]
  BY DEF Changes, Mine
<1>2. \A q \in Proc : cmd[q] \in Commands BY DEF CInv, TypeOK
<1>3. \A q \in Proc : Active(q) => Seen(cmd[q], i) \in Commands /\ Seen(cmd[q], i).pc = cmd[q].pc
  BY <1>2, SeenFacts
<1>4. cmd' \in [Proc -> Commands]
  <2>1. \A q \in Proc : cmd'[q] \in Commands BY <1>1, <1>2, <1>3
  <2> QED BY <2>1 DEF Changes
<1>5. Good(p)' BY <1>1 DEF Good, Active
<1>6. ASSUME NEW q \in Proc \ {p} PROVE Good(q)' /\ (Midway(q)' <=> Midway(q))
  <2>1. CASE ~Active(q)
    BY <1>1, <2>1 DEF Good, Active, Midway
  <2>2. CASE Active(q)
    <3>1. cmd'[q] = Seen(cmd[q], i) /\ cmd'[q].pc = cmd[q].pc BY <1>1, <1>3, <2>2
    <3>2. Sound(cmd[q], keyring, secret) /\ Kept(cmd[q], cookie, q \in unlinked)
      BY <2>2 DEF CInv, Good
    <3>3. Sound(Seen(cmd[q], i), keyring', secret)
      BY <1>2, <3>2, SeenKeepsSound DEF CInv, TypeOK
    <3>4. cmd[q].pc = "save" => cmd[q].mark["cookie"] # "untouched"
      BY <3>2 DEF Sound, Progress
    <3>5. Kept(Seen(cmd[q], i), cookie', q \in unlinked')
      <4>1. /\ i # "cookie" => cookie' = cookie
            /\ q \in unlinked' => q \in unlinked \/ (i = "cookie" /\ cmd[q].pc = "save")
        OBVIOUS
      <4> HIDE DEF Item
      <4> QED BY <1>2, <3>2, <3>4, <4>1, SeenKeepsCookie
    <3> QED BY <3>1, <3>3, <3>5 DEF Good, Midway
  <2> QED BY <2>1, <2>2
<1> QED BY <1>1, <1>4, <1>5, <1>6

-----------------------------------------------------------------------------
(* The keyring stays paired, or explained, when no entry changes.           *)
LEMMA PairedStays ==
  ASSUME CInv, NEW p \in Proc, keyring' = keyring,
         \A q \in Proc \ {p} : Midway(q)' <=> Midway(q),
         torn => torn', Midway(p) => torn' \/ Midway(p)'
  PROVE  KeyringPaired'
BY DEF CInv, KeyringPaired

LEMMA ActorFacts ==
  ASSUME CInv, NEW p \in Proc
  PROVE  /\ cmd[p] \in Commands
         /\ Active(p) => Sound(cmd[p], keyring, secret) /\ Kept(cmd[p], cookie, p \in unlinked)
         /\ keyring \in Pairs /\ secret \in Pairs
BY DEF CInv, TypeOK, Good

LEMMA OverType ==
  ASSUME NEW outcome \in Ended
  PROVE  Over(outcome) \in Commands /\ Over(outcome).pc = outcome
BY DEF Over, Fresh, Commands, Found, NoPair, Nobody, Pairs, Pc, Kinds, Item

(* A command that only moves on, or ends.                                   *)
LEMMA MoveKeeps ==
  ASSUME CInv, NEW p \in Proc, NEW t \in Commands, Becomes(p, t),
         UNCHANGED <<keyring, secret, cookie>>, profile' \in BOOLEAN,
         unlinked' \in {unlinked, unlinked \ {p}},
         browsers' \subseteq Proc, torn' \in BOOLEAN,
         torn => torn', Midway(p) => torn',
         t.pc \notin Ended =>
           Sound(t, keyring, secret) /\ Kept(t, cookie, p \in unlinked')
  PROVE  CInv'
<1>1. /\ cmd' \in [Proc -> Commands] /\ \A q \in Proc : Good(q)'
      /\ \A q \in Proc \ {p} : Midway(q)' <=> Midway(q)
  BY OneMoves
<1>2. KeyringPaired' BY <1>1, PairedStays
<1>3. TypeOK' BY <1>1 DEF CInv, TypeOK
<1> QED BY <1>1, <1>2, <1>3 DEF CInv

LEMMA CommandKeeps ==
  ASSUME CInv, NEW p \in Proc, Command(p)
  PROVE  CInv'
<1>1. ASSUME NEW t \in Commands, Starts(p, t), ~Midway(p),
             Sound(t, keyring, secret), t.pc # "save", t.mark["cookie"] = "untouched"
      PROVE  CInv'
  <2>1. Kept(t, cookie, p \in unlinked') BY <1>1 DEF Kept, Starts
  <2>2. torn' = torn /\ torn \in BOOLEAN /\ browsers' \subseteq Proc /\ profile' \in BOOLEAN
    BY <1>1 DEF Starts, CInv, TypeOK
  <2> QED BY <1>1, <2>1, <2>2, MoveKeeps DEF Starts
<1>2. ASSUME NEW where \in Pc, NEW kind \in Kinds, NEW env \in Pairs, NEW goal \in Account \cup {NoAccount}
      PROVE  LET t == Fresh(where, kind, env, goal) IN
             /\ t \in Commands /\ t.pc = where /\ t.kind = kind /\ t.goal = goal /\ t.env = env
             /\ \A i \in Item : t.mark[i] = "untouched"
  BY DEF Fresh, Commands, Found, NoPair, Nobody, Pairs, Item
<1>3. ASSUME NEW where \in {"putUsername", "checkUsername", "launch", "deleteUsername", "validate"},
             NEW kind \in Kinds, NEW env \in Pairs, NEW goal \in Account \cup {NoAccount},
             Starts(p, Fresh(where, kind, env, goal)),
             \/ where = "putUsername" /\ kind = "authenticate" /\ goal # NoAccount
             \/ where = "checkUsername" /\ kind = "refresh_token"
             \/ where = "launch" /\ kind = "supervisor"
             \/ where = "deleteUsername" /\ kind = "deauthenticate" /\ goal = NoAccount
             \/ where = "validate" /\ kind = "validate"
      PROVE  CInv'
  <2> DEFINE t == Fresh(where, kind, env, goal)
  <2>0. where \in Pc BY DEF Pc
  <2>1. /\ t \in Commands /\ t.pc = where /\ t.kind = kind /\ t.goal = goal
        /\ \A i \in Item : t.mark[i] = "untouched"
    BY <1>2, <2>0
  <2>2. Entry \subseteq Item /\ "cookie" \in Item BY DEF Item
  <2>3. Starts(p, t) /\ ~Midway(p) BY <1>3 DEF Starts, Active, Midway, Ended
  <2> HIDE DEF t
  <2>4. Place(t) BY <1>3, <2>1 DEF Place, InLogin
  <2>5. Own(t, keyring) /\ Looked(t, secret) BY <2>1, <2>2 DEF Own, Looked
  <2>6. Progress(t) BY <1>3, <2>1, <2>2 DEF Progress, InLogin
  <2>7. Undisturbed(t, keyring, secret) BY <1>3, <2>1, <2>2 DEF Undisturbed
  <2>8. Sound(t, keyring, secret) BY <2>4, <2>5, <2>6, <2>7 DEF Sound
  <2>9. t.pc # "save" /\ t.mark["cookie"] = "untouched" BY <2>1, <2>2
  <2> QED BY <1>1, <2>1, <2>3, <2>8, <2>9
<1>4. Nobody \in Pairs /\ NoAccount \in Account \cup {NoAccount} BY DEF Nobody, Pairs
<1>5. ASSUME NEW env \in Pairs, NEW a \in Account, Authenticate(p, env, a) PROVE CInv'
  BY <1>3, <1>5, AccountAssumption DEF Authenticate, Kinds
<1>6. ASSUME NEW env \in EnvPairs, AuthenticateFromEnv(p, env) PROVE CInv'
  <2>1. env["username"] \in Account /\ env \in Pairs
    BY <1>6, SourceAssumption DEF AuthenticateFromEnv, Whole, Entry, Pairs
  <2> QED BY <1>5, <1>6, <2>1 DEF AuthenticateFromEnv
<1>7. ASSUME NEW env \in Pairs, RefreshToken(p, env) \/ SupervisorLogin(p, env) PROVE CInv'
  BY <1>3, <1>4, <1>7 DEF RefreshToken, SupervisorLogin, Kinds
<1>8. ASSUME Deauthenticate(p) \/ ValidateCookie(p) PROVE CInv'
  BY <1>3, <1>4, <1>8 DEF Deauthenticate, ValidateCookie, Kinds
<1> QED BY <1>5, <1>6, <1>7, <1>8, SourceAssumption DEF Command

(* A command that ends.                                                     *)
LEMMA EndKeeps ==
  ASSUME CInv, NEW p \in Proc, NEW outcome \in Ended, Becomes(p, Over(outcome)),
         UNCHANGED <<keyring, secret, cookie>>, profile' \in BOOLEAN,
         unlinked' \in {unlinked, unlinked \ {p}},
         browsers' \subseteq Proc, torn' \in BOOLEAN,
         torn => torn', Midway(p) => torn'
  PROVE  CInv'
BY OverType, MoveKeeps

(* What the record becomes when its command changes item i.                 *)
LEMMA MineFacts ==
  ASSUME NEW t \in Commands, NEW i \in Item
  PROVE  /\ Mine(t, i) \in Commands
         /\ Mine(t, i).pc = t.pc /\ Mine(t, i).kind = t.kind
         /\ Mine(t, i).goal = t.goal /\ Mine(t, i).failed = t.failed
         /\ Mine(t, i).env = t.env /\ Mine(t, i).name = t.name
         /\ Mine(t, i).login = t.login /\ (Quiet(Mine(t, i)) <=> Quiet(t))
         /\ \A j \in Item : Mine(t, i).mark[j] = IF j = i THEN "mine" ELSE t.mark[j]
BY DEF Mine, Commands, Quiet

LEMMA PcFacts ==
  ASSUME NEW r \in Commands, NEW where \in Pc
  PROVE  LET t == [r EXCEPT !.pc = where] IN
         /\ t \in Commands
         /\ t.pc = where /\ t.kind = r.kind /\ t.goal = r.goal
         /\ t.failed = r.failed /\ t.env = r.env /\ t.name = r.name
         /\ t.login = r.login /\ t.mark = r.mark /\ (Quiet(t) <=> Quiet(r))
BY DEF Commands, Quiet

LEMMA PutUsernameKeeps ==
  ASSUME CInv, NEW p \in Proc, PutUsername(p) \/ DeleteUsername(p)
  PROVE  CInv'
<1> DEFINE where == IF At(p, "putUsername") THEN "putPassword" ELSE "deletePassword"
           t == [cmd[p] EXCEPT !.pc = where]
           u == Mine(t, "username")
           value == IF At(p, "putUsername") THEN cmd[p].goal ELSE NoAccount
<1>1. /\ keyring' = [keyring EXCEPT !["username"] = value]
      /\ Changes(p, "username", t)
      /\ UNCHANGED <<secret, cookie, unlinked, profile, browsers, torn>>
      /\ cmd[p].pc \in {"putUsername", "deleteUsername"}
  BY DEF PutUsername, DeleteUsername, At
<1>2. /\ cmd[p] \in Commands /\ Sound(cmd[p], keyring, secret)
      /\ Kept(cmd[p], cookie, p \in unlinked) /\ keyring \in Pairs /\ secret \in Pairs
  BY <1>1, ActorFacts DEF Active, Ended
<1>3. "username" \in Item /\ "password" \in Item /\ where \in Pc BY DEF Item, Entry, Pc
<1>4. /\ u \in Commands /\ u.pc = where /\ u.kind = cmd[p].kind
      /\ u.goal = cmd[p].goal /\ u.failed = cmd[p].failed
      /\ \A j \in Item : u.mark[j] = IF j = "username" THEN "mine" ELSE cmd[p].mark[j]
      /\ Quiet(u) <=> Quiet(cmd[p])
  <2>1. /\ t \in Commands /\ t.pc = where /\ t.kind = cmd[p].kind
        /\ t.goal = cmd[p].goal /\ t.failed = cmd[p].failed /\ t.mark = cmd[p].mark
        /\ Quiet(t) <=> Quiet(cmd[p])
    BY <1>2, <1>3, PcFacts
  <2> HIDE DEF t, where
  <2> QED BY <1>3, <2>1, MineFacts
<1>5. value \in Account \cup {NoAccount} /\ value = cmd[p].goal
  BY <1>1, <1>2 DEF Commands, Sound, Place, At
<1>6. /\ keyring' \in Pairs /\ keyring'["username"] = value
      /\ keyring'["password"] = keyring["password"]
  BY <1>1, <1>2, <1>5 DEF Pairs, Entry
<1>7. where \in {"putPassword", "deletePassword"} OBVIOUS
<1>8. Sound(u, keyring', secret)
  <2> HIDE DEF u, value, where
  <2>1. Place(u)
    BY <1>1, <1>2, <1>4 DEF Sound, Place, InLogin, where, At
  <2>2. Own(u, keyring')
    BY <1>2, <1>3, <1>4, <1>5, <1>6 DEF Sound, Own, Entry
  <2>3. Progress(u)
    BY <1>2, <1>3, <1>4, <1>7 DEF Sound, Progress, InLogin
  <2>4. Looked(u, secret) BY <1>4, <1>7 DEF Looked
  <2>5. Undisturbed(u, keyring', secret)
    <3>1. u.kind # "refresh_token" BY <1>1, <1>2, <1>4 DEF Sound, Place
    <3>2. Quiet(u) => \A e \in Entry : u.mark[e] # "others"
      BY <1>1, <1>2, <1>3, <1>4 DEF Sound, Undisturbed, Entry
    <3> QED BY <1>4, <1>7, <3>1, <3>2 DEF Undisturbed
  <2> QED BY <2>1, <2>2, <2>3, <2>4, <2>5 DEF Sound
<1>9. Kept(u, cookie', p \in unlinked')
  <2> HIDE DEF u, value, where
  <2>1. "cookie" \in Item BY DEF Item
  <2> QED BY <1>1, <1>2, <1>4, <1>7, <2>1 DEF Kept
<1>10. /\ cmd' \in [Proc -> Commands] /\ cmd'[p] = u
       /\ \A q \in Proc : Good(q)'
  <2>1. \A e \in Entry : e # "username" => keyring'[e] = keyring[e]
    BY <1>6 DEF Entry
  <2>2. secret' = secret /\ cookie' = cookie /\ unlinked' = unlinked BY <1>1
  <2> HIDE DEF u, t, where, value
  <2> QED BY <1>1, <1>3, <1>4, <1>6, <1>8, <1>9, <2>1, <2>2, OneChanges DEF u
<1>11. KeyringPaired' BY <1>4, <1>7, <1>10 DEF KeyringPaired, Midway
<1>12. TypeOK' BY <1>1, <1>6, <1>10 DEF CInv, TypeOK
<1> QED BY <1>10, <1>11, <1>12 DEF CInv

LEMMA PutPasswordKeeps ==
  ASSUME CInv, NEW p \in Proc, PutPassword(p) \/ DeletePassword(p)
  PROVE  CInv'
<1> DEFINE where == IF At(p, "putPassword") THEN "launch" ELSE "removeCookie"
           t == [cmd[p] EXCEPT !.pc = where]
           u == Mine(t, "password")
           value == IF At(p, "putPassword") THEN cmd[p].goal ELSE NoAccount
<1>1. /\ keyring' = [keyring EXCEPT !["password"] = value]
      /\ Changes(p, "password", t)
      /\ torn' = (cmd[p].mark["username"] # "mine")
      /\ UNCHANGED <<secret, cookie, unlinked, profile, browsers>>
      /\ cmd[p].pc \in {"putPassword", "deletePassword"}
  BY DEF PutPassword, DeletePassword, At
<1>2. /\ cmd[p] \in Commands /\ Sound(cmd[p], keyring, secret)
      /\ Kept(cmd[p], cookie, p \in unlinked) /\ keyring \in Pairs /\ secret \in Pairs
  BY <1>1, ActorFacts DEF Active, Ended
<1>3. "username" \in Item /\ "password" \in Item /\ where \in Pc BY DEF Item, Entry, Pc
<1>4. /\ u \in Commands /\ u.pc = where /\ u.kind = cmd[p].kind
      /\ u.goal = cmd[p].goal /\ u.failed = cmd[p].failed
      /\ \A j \in Item : u.mark[j] = IF j = "password" THEN "mine" ELSE cmd[p].mark[j]
      /\ Quiet(u) <=> Quiet(cmd[p])
  <2>1. /\ t \in Commands /\ t.pc = where /\ t.kind = cmd[p].kind
        /\ t.goal = cmd[p].goal /\ t.failed = cmd[p].failed /\ t.mark = cmd[p].mark
        /\ Quiet(t) <=> Quiet(cmd[p])
    BY <1>2, <1>3, PcFacts
  <2> HIDE DEF t, where
  <2> QED BY <1>3, <2>1, MineFacts
<1>5. value \in Account \cup {NoAccount} /\ value = cmd[p].goal
  BY <1>1, <1>2 DEF Commands, Sound, Place, At
<1>6. /\ keyring' \in Pairs /\ keyring'["password"] = value
      /\ keyring'["username"] = keyring["username"]
  BY <1>1, <1>2, <1>5 DEF Pairs, Entry
<1>7. where \in {"launch", "removeCookie"} OBVIOUS
<1>8. Sound(u, keyring', secret)
  <2> HIDE DEF u, value, where
  <2>1. Place(u)
    BY <1>1, <1>2, <1>4 DEF Sound, Place, InLogin, where, At
  <2>2. Own(u, keyring')
    BY <1>2, <1>3, <1>4, <1>5, <1>6 DEF Sound, Own, Entry
  <2>3. Progress(u)
    BY <1>1, <1>2, <1>3, <1>4, <1>7 DEF Sound, Progress, InLogin, Entry
  <2>4. Looked(u, secret) BY <1>4, <1>7 DEF Looked
  <2>5. Undisturbed(u, keyring', secret)
    <3>1. u.kind # "refresh_token" BY <1>1, <1>2, <1>4 DEF Sound, Place
    <3>2. Quiet(u) => \A e \in Entry : u.mark[e] # "others"
      BY <1>1, <1>2, <1>3, <1>4 DEF Sound, Undisturbed, Entry
    <3> QED BY <1>4, <1>7, <3>1, <3>2 DEF Undisturbed
  <2> QED BY <2>1, <2>2, <2>3, <2>4, <2>5 DEF Sound
<1>9. Kept(u, cookie', p \in unlinked')
  <2> HIDE DEF u, value, where
  <2>1. "cookie" \in Item BY DEF Item
  <2> QED BY <1>1, <1>2, <1>4, <1>7, <2>1 DEF Kept
<1>10. /\ cmd' \in [Proc -> Commands] /\ cmd'[p] = u
       /\ \A q \in Proc : Good(q)'
  <2>1. \A e \in Entry : e # "password" => keyring'[e] = keyring[e]
    BY <1>6 DEF Entry
  <2>2. secret' = secret /\ cookie' = cookie /\ unlinked' = unlinked BY <1>1
  <2> HIDE DEF u, t, where, value
  <2> QED BY <1>1, <1>3, <1>4, <1>6, <1>8, <1>9, <2>1, <2>2, OneChanges DEF u
\* The pair is whole if the username is still this command's, torn if not.
<1>11. KeyringPaired'
  <2>1. CASE cmd[p].mark["username"] = "mine"
    <3>1. keyring["username"] = cmd[p].goal BY <1>2, <2>1 DEF Sound, Own, Entry
    <3> QED BY <1>5, <1>6, <3>1 DEF KeyringPaired
  <2>2. CASE cmd[p].mark["username"] # "mine"
    BY <1>1, <2>2 DEF KeyringPaired
  <2> QED BY <2>1, <2>2
<1>12. TypeOK'
  <2>1. torn' \in BOOLEAN BY <1>1
  <2> QED BY <1>1, <1>6, <1>10, <2>1 DEF CInv, TypeOK
<1> QED BY <1>10, <1>11, <1>12 DEF CInv

LEMMA StoreFailsKeeps ==
  ASSUME CInv, NEW p \in Proc, PutFails(p)
  PROVE  CInv'
<1>1. "failure" \in Ended /\ (torn \/ Midway(p)) \in BOOLEAN /\ browsers' \subseteq Proc
      /\ profile' \in BOOLEAN
  BY DEF Ended, PutFails, CInv, TypeOK
<1> QED BY <1>1, EndKeeps DEF PutFails

-----------------------------------------------------------------------------
(* vpn_credentials: reading changes nothing, so only the reader's record has
   to be followed.                                                          *)
Reading == {"checkUsername", "checkPassword", "readUsername", "readPassword"}

(* What may be returned, and where the caller goes on with it.              *)
Honest(r, found, k, s) ==
  /\ found \in Found
  /\ found.source = "env" => Whole(r.env) /\ found.pair = r.env
  /\ found.source # "env" => ~Whole(r.env)
  /\ found.source = "files" => Whole(s) /\ found.pair = s
  /\ found.source = "none" => ~Whole(s)
  /\ Quiet(r) /\ found.source = "keyring" => found.pair = k /\ Whole(k)
  /\ Quiet(r) /\ found.source \in {"files", "none"} => ~Whole(k)

LEMMA ResolvedKeeps ==
  ASSUME NEW r \in Commands, NEW k \in Pairs, NEW s \in Pairs, NEW found,
         r.pc \in Reading, Place(r), Own(r, k), Progress(r),
         Quiet(r) => \A e \in Entry : r.mark[e] # "others",
         r.kind = "refresh_token" /\ Quiet(r) /\ r.pc \in {"readUsername", "readPassword"}
           => Whole(r.env) \/ Whole(s) \/ Whole(k),
         Honest(r, found, k, s), found # NoPair => found.source # "none"
  PROVE  LET t == Resolved(r, found) IN
         /\ t \in Commands /\ t.pc # "save" /\ t.pc \notin {"putPassword", "deletePassword"}
         /\ t.pc \notin Ended => Sound(t, k, s) /\ t.mark = r.mark /\ t.kind = r.kind
<1>1. CASE r.pc \in {"readUsername", "readPassword"}
  <2> DEFINE t == [r EXCEPT !.pc = "login", !.login = found, !.name = NoAccount]
  <2>1. Resolved(r, found) = t BY <1>1 DEF Resolved
  <2>2. /\ t \in Commands
        /\ t.pc = "login" /\ t.kind = r.kind /\ t.goal = r.goal /\ t.failed = r.failed
        /\ t.env = r.env /\ t.login = found /\ t.mark = r.mark /\ (Quiet(t) <=> Quiet(r))
    BY DEF Honest, Commands, Quiet, Pc
  <2> HIDE DEF t
  <2>3. Place(t) /\ Own(t, k) /\ Progress(t)
    BY <1>1, <2>2 DEF Place, Own, Progress, InLogin
  <2>4. Looked(t, s) BY <2>2 DEF Looked, Honest
  <2>5. Undisturbed(t, k, s) BY <1>1, <2>2 DEF Undisturbed, Honest
  <2> QED BY <2>1, <2>2, <2>3, <2>4, <2>5 DEF Sound
<1>2. CASE r.pc \in {"checkUsername", "checkPassword"} /\ found = NoPair
  <2>1. Resolved(r, found) = Over("failure") BY <1>2 DEF Resolved
  <2> QED BY <2>1, OverType DEF Ended
<1>3. CASE r.pc \in {"checkUsername", "checkPassword"} /\ found # NoPair
  <2> DEFINE t == [r EXCEPT !.pc = "launch", !.name = NoAccount]
  <2>1. Resolved(r, found) = t BY <1>3 DEF Resolved
  <2>2. /\ t \in Commands
        /\ t.pc = "launch" /\ t.kind = r.kind /\ t.goal = r.goal /\ t.failed = r.failed
        /\ t.env = r.env /\ t.mark = r.mark /\ (Quiet(t) <=> Quiet(r))
    BY DEF Commands, Quiet, Pc
  <2> HIDE DEF t
  <2>3. Place(t) /\ Own(t, k) /\ Progress(t)
    BY <1>3, <2>2 DEF Place, Own, Progress, InLogin
  <2>4. Looked(t, s) BY <2>2 DEF Looked
  <2>5. Quiet(r) => Whole(r.env) \/ Whole(s) \/ Whole(k)
    BY <1>3 DEF Honest, Found
  <2>6. Undisturbed(t, k, s) BY <2>2, <2>5 DEF Undisturbed
  <2> QED BY <2>1, <2>2, <2>3, <2>4, <2>6 DEF Sound
<1> QED BY <1>1, <1>2, <1>3 DEF Reading

LEMMA FilesHonest ==
  ASSUME NEW r, NEW k, secret \in Pairs, ~Whole(r.env), Quiet(r) => ~Whole(k)
  PROVE  Honest(r, FromFiles, k, secret) /\ (FromFiles # NoPair => FromFiles.source # "none")
<1>1. CASE Whole(secret)
  BY <1>1 DEF FromFiles, Honest, Found
<1>2. CASE ~Whole(secret)
  <2>1. FromFiles = NoPair BY <1>2 DEF FromFiles
  <2>2. NoPair \in Found /\ NoPair.source = "none" BY DEF NoPair, Found, Nobody, Pairs
  <2> QED BY <1>2, <2>1, <2>2 DEF Honest
<1> QED BY <1>1, <1>2

(* A reader that moves on with what it has been told.                       *)
LEMMA ToldKeeps ==
  ASSUME CInv, NEW p \in Proc, NEW r \in Commands, NEW found,
         Becomes(p, Resolved(r, found)), cmd[p].pc \in Reading,
         UNCHANGED <<keyring, secret, cookie, unlinked, profile, browsers, torn>>,
         r.pc = cmd[p].pc, r.kind = cmd[p].kind, r.goal = cmd[p].goal,
         r.mark = cmd[p].mark, r.failed = cmd[p].failed, r.env = cmd[p].env,
         Quiet(r) => Quiet(cmd[p]),
         Honest(r, found, keyring, secret), found # NoPair => found.source # "none"
  PROVE  CInv'
<1>1. /\ cmd[p] \in Commands /\ Sound(cmd[p], keyring, secret)
      /\ Kept(cmd[p], cookie, p \in unlinked) /\ keyring \in Pairs /\ secret \in Pairs
  BY ActorFacts DEF Active, Ended, Reading
<1>2. Place(r) /\ Own(r, keyring) /\ Progress(r)
  BY <1>1 DEF Sound, Place, Own, Progress
<1>3. /\ Quiet(r) => \A e \in Entry : r.mark[e] # "others"
      /\ r.kind = "refresh_token" /\ Quiet(r) /\ r.pc \in {"readUsername", "readPassword"}
           => Whole(r.env) \/ Whole(secret) \/ Whole(keyring)
  BY <1>1 DEF Sound, Undisturbed, Reading
<1> DEFINE t == Resolved(r, found)
<1>4. /\ t \in Commands /\ t.pc # "save" /\ t.pc \notin {"putPassword", "deletePassword"}
      /\ t.pc \notin Ended => Sound(t, keyring, secret) /\ t.mark = r.mark /\ t.kind = r.kind
  BY <1>1, <1>2, <1>3, ResolvedKeeps
<1> HIDE DEF t
<1>5. t.pc \notin Ended => Kept(t, cookie, p \in unlinked')
  BY <1>1, <1>4 DEF Kept, Reading
<1>6. ~Midway(p) /\ torn' = torn /\ torn \in BOOLEAN /\ browsers' \subseteq Proc /\ profile' \in BOOLEAN
  BY DEF Midway, Reading, CInv, TypeOK
<1> QED BY <1>4, <1>5, <1>6, MoveKeeps DEF t

LEMMA ReadUsernameKeeps ==
  ASSUME CInv, NEW p \in Proc, ReadUsername(p)
  PROVE  CInv'
<1> DEFINE r == cmd[p]
<1>1. /\ r \in Commands /\ Sound(r, keyring, secret)
      /\ Kept(r, cookie, p \in unlinked) /\ keyring \in Pairs /\ secret \in Pairs
      /\ r.pc \in {"checkUsername", "readUsername"}
  BY ActorFacts DEF ReadUsername, Active, Ended
<1>2. r.pc \in Reading BY <1>1 DEF Reading
<1>3. CASE Whole(r.env)
  <2> DEFINE found == [source |-> "env", pair |-> r.env]
  <2>1. Becomes(p, Resolved(r, found)) BY <1>3 DEF ReadUsername
  <2>2. Honest(r, found, keyring, secret) /\ found.source # "none"
    BY <1>1, <1>3 DEF Honest, Found, Commands
  <2> HIDE DEF found
  <2> QED BY <1>1, <1>2, <2>1, <2>2, ToldKeeps DEF ReadUsername
<1>4. CASE ~Whole(r.env) /\ keyring["username"] = NoAccount
  <2>1. Becomes(p, Resolved(r, FromFiles)) BY <1>4 DEF ReadUsername
  <2>2. ~Whole(keyring) BY <1>4 DEF Whole, Entry
  <2>3. Honest(r, FromFiles, keyring, secret) /\ (FromFiles # NoPair => FromFiles.source # "none")
    BY <1>1, <1>4, <2>2, FilesHonest
  <2> QED BY <1>1, <1>2, <2>1, <2>3, ToldKeeps DEF ReadUsername
<1>5. CASE ~Whole(r.env) /\ keyring["username"] # NoAccount
  <2> DEFINE t == ThenPassword(r, keyring["username"])
  <2>1. Becomes(p, t) BY <1>5 DEF ReadUsername
  <2>2. /\ t \in Commands
        /\ t.pc = IF r.pc = "checkUsername" THEN "checkPassword" ELSE "readPassword"
        /\ t.name = keyring["username"] /\ t.kind = r.kind /\ t.goal = r.goal
        /\ t.failed = r.failed /\ t.env = r.env /\ t.mark = r.mark
        /\ Quiet(t) <=> Quiet(r)
    BY <1>1 DEF ThenPassword, Commands, Quiet, Pc, Pairs, Entry
  <2> HIDE DEF t
  <2>3. Place(t) /\ Own(t, keyring) /\ Progress(t)
    BY <1>1, <2>2 DEF Sound, Place, Own, Progress, InLogin
  <2>4. Looked(t, secret) BY <1>5, <2>2 DEF Looked
  <2>5. Undisturbed(t, keyring, secret)
    BY <1>1, <2>2 DEF Sound, Undisturbed
  <2>6. Sound(t, keyring, secret) /\ Kept(t, cookie, p \in unlinked')
    BY <1>1, <2>2, <2>3, <2>4, <2>5 DEF Sound, Kept, ReadUsername
  <2>7. ~Midway(p) /\ torn' = torn /\ torn \in BOOLEAN /\ browsers' \subseteq Proc /\ profile' \in BOOLEAN
    BY <1>1 DEF Midway, ReadUsername, CInv, TypeOK
  <2> QED BY <2>1, <2>2, <2>6, <2>7, MoveKeeps DEF ReadUsername
<1> QED BY <1>3, <1>4, <1>5

LEMMA ReadPasswordKeeps ==
  ASSUME CInv, NEW p \in Proc, ReadPassword(p)
  PROVE  CInv'
<1> DEFINE r == cmd[p]
           pair == [Both(r.name) EXCEPT !["password"] = keyring["password"]]
           found == IF Whole(pair) THEN [source |-> "keyring", pair |-> pair] ELSE FromFiles
<1>1. /\ r \in Commands /\ Sound(r, keyring, secret)
      /\ Kept(r, cookie, p \in unlinked) /\ keyring \in Pairs /\ secret \in Pairs
      /\ r.pc \in {"checkPassword", "readPassword"}
  BY ActorFacts DEF ReadPassword, Active, Ended
<1>2. r.pc \in Reading /\ ~Whole(r.env) /\ r.name # NoAccount
  BY <1>1 DEF Reading, Sound, Looked
<1>3. Becomes(p, Resolved(r, found)) BY DEF ReadPassword
<1>4. pair \in Pairs /\ pair["username"] = r.name /\ pair["password"] = keyring["password"]
  BY <1>1 DEF Commands, Pairs, Both, Entry
<1>5. Quiet(r) => pair = keyring
  <2> SUFFICES ASSUME Quiet(r) PROVE pair = keyring OBVIOUS
  <2>1. keyring["username"] = r.name BY <1>1 DEF Sound, Undisturbed
  <2>2. \A e \in Entry : pair[e] = keyring[e] BY <1>4, <2>1 DEF Entry
  <2> HIDE DEF pair
  <2> QED BY <1>1, <1>4, <2>2 DEF Pairs
<1> HIDE DEF pair
<1>6. Honest(r, found, keyring, secret) /\ (found # NoPair => found.source # "none")
  <2>1. CASE Whole(pair)
    <3>1. found.source = "keyring" /\ found.pair = pair /\ found \in Found
      BY <1>4, <2>1 DEF Found
    <3> QED BY <1>2, <1>5, <2>1, <3>1 DEF Honest
  <2>2. CASE ~Whole(pair)
    BY <1>1, <1>2, <1>5, <2>2, FilesHonest
  <2> QED BY <2>1, <2>2
<1> HIDE DEF found
<1> QED BY <1>1, <1>2, <1>3, <1>6, ToldKeeps DEF ReadPassword

LEMMA ReadFailsKeeps ==
  ASSUME CInv, NEW p \in Proc, ReadFails(p)
  PROVE  CInv'
<1> DEFINE r == [cmd[p] EXCEPT !.keys = "disturbed"]
<1>1. /\ cmd[p] \in Commands /\ secret \in Pairs /\ cmd[p].pc \in Reading
      /\ ~Whole(cmd[p].env) /\ Becomes(p, Resolved(r, FromFiles))
  BY ActorFacts DEF ReadFails, Reading
<1>2. /\ r \in Commands /\ ~Quiet(r) /\ r.pc = cmd[p].pc /\ r.kind = cmd[p].kind
      /\ r.goal = cmd[p].goal /\ r.mark = cmd[p].mark /\ r.failed = cmd[p].failed
      /\ r.env = cmd[p].env
  BY <1>1 DEF Commands, Quiet
<1> HIDE DEF r
<1>3. Honest(r, FromFiles, keyring, secret) /\ (FromFiles # NoPair => FromFiles.source # "none")
  BY <1>1, <1>2, FilesHonest
<1> QED BY <1>1, <1>2, <1>3, ToldKeeps DEF ReadFails

-----------------------------------------------------------------------------
(* The login.                                                               *)
LEMMA ClosesFacts ==
  ASSUME CInv, NEW p \in Proc, Closes(p)
  PROVE  browsers' \subseteq Proc
BY DEF Closes, CInv, TypeOK

LEMMA LaunchKeeps ==
  ASSUME CInv, NEW p \in Proc, Launch(p) \/ Relaunch(p)
  PROVE  CInv'
<1>1. /\ cmd[p] \in Commands /\ Sound(cmd[p], keyring, secret)
      /\ Kept(cmd[p], cookie, p \in unlinked) /\ cmd[p].pc \in {"launch", "login"}
  BY ActorFacts DEF Launch, Relaunch, At, Active, Ended
<1>2. PICK t \in Commands :
        /\ Becomes(p, t) /\ t.pc \in {"readUsername", "launch"}
        /\ t.kind = cmd[p].kind /\ t.goal = cmd[p].goal /\ t.failed = cmd[p].failed
        /\ t.env = cmd[p].env /\ t.mark = cmd[p].mark /\ (Quiet(t) <=> Quiet(cmd[p]))
  <2>1. CASE Launch(p)
    <3> DEFINE t == [cmd[p] EXCEPT !.pc = "readUsername"]
    <3>1. /\ t \in Commands /\ t.pc = "readUsername"
          /\ t.kind = cmd[p].kind /\ t.goal = cmd[p].goal /\ t.failed = cmd[p].failed
          /\ t.env = cmd[p].env /\ t.mark = cmd[p].mark /\ (Quiet(t) <=> Quiet(cmd[p]))
      BY <1>1, PcFacts DEF Pc
    <3>2. Becomes(p, t) BY <2>1 DEF Launch
    <3> HIDE DEF t
    <3> QED BY <3>1, <3>2
  <2>2. CASE Relaunch(p)
    <3> DEFINE t == [cmd[p] EXCEPT !.pc = "launch", !.headed = TRUE, !.login = NoPair]
    <3>1. NoPair \in Found BY DEF NoPair, Found, Nobody, Pairs
    <3>2. /\ t \in Commands /\ t.pc = "launch"
          /\ t.kind = cmd[p].kind /\ t.goal = cmd[p].goal /\ t.failed = cmd[p].failed
          /\ t.env = cmd[p].env /\ t.mark = cmd[p].mark /\ (Quiet(t) <=> Quiet(cmd[p]))
      BY <1>1, <3>1 DEF Commands, Quiet, Pc
    <3>3. Becomes(p, t) BY <2>2 DEF Relaunch
    <3> HIDE DEF t
    <3> QED BY <3>2, <3>3
  <2> QED BY <2>1, <2>2
<1>3. Place(t) /\ Own(t, keyring) /\ Progress(t)
  BY <1>1, <1>2 DEF Sound, Place, Own, Progress, InLogin
<1>4. Looked(t, secret) BY <1>2 DEF Looked
<1>5. Undisturbed(t, keyring, secret) BY <1>1, <1>2 DEF Sound, Undisturbed
<1>6. Kept(t, cookie, p \in unlinked) BY <1>1, <1>2 DEF Kept
<1>7. /\ ~Midway(p) /\ torn' = torn /\ torn \in BOOLEAN /\ profile' \in BOOLEAN
      /\ browsers' \subseteq Proc /\ unlinked' = unlinked
      /\ UNCHANGED <<keyring, secret, cookie>>
  BY <1>1, ClosesFacts DEF Midway, Launch, Relaunch, CInv, TypeOK
<1> QED BY <1>2, <1>3, <1>4, <1>5, <1>6, <1>7, MoveKeeps DEF Sound

LEMMA CaptureKeeps ==
  ASSUME CInv, NEW p \in Proc, Capture(p)
  PROVE  CInv'
<1>1. /\ cmd[p] \in Commands /\ Sound(cmd[p], keyring, secret)
      /\ Kept(cmd[p], cookie, p \in unlinked) /\ cmd[p].pc = "login"
  BY ActorFacts DEF Capture, At, Active, Ended
<1> DEFINE t == [Fresh("truncate", cmd[p].kind, Nobody, cmd[p].goal) EXCEPT !.mark = cmd[p].mark]
<1>2. /\ t \in Commands /\ t.pc = "truncate" /\ t.kind = cmd[p].kind
      /\ t.goal = cmd[p].goal /\ t.mark = cmd[p].mark
  BY <1>1 DEF Fresh, Commands, Found, NoPair, Nobody, Pairs, Pc
<1>3. Becomes(p, t) BY DEF Capture
<1> HIDE DEF t
<1>4. Place(t) /\ Own(t, keyring) /\ Progress(t)
  BY <1>1, <1>2 DEF Sound, Place, Own, Progress, InLogin
<1>5. Looked(t, secret) /\ Undisturbed(t, keyring, secret)
  BY <1>2 DEF Looked, Undisturbed
<1>6. Kept(t, cookie, p \in unlinked) BY <1>1, <1>2 DEF Kept
<1>7. /\ ~Midway(p) /\ torn' = torn /\ torn \in BOOLEAN /\ profile' \in BOOLEAN
      /\ browsers' \subseteq Proc /\ unlinked' = unlinked
      /\ UNCHANGED <<keyring, secret, cookie>>
  BY <1>1, ClosesFacts DEF Midway, Capture, CInv, TypeOK
<1> QED BY <1>2, <1>3, <1>4, <1>5, <1>6, <1>7, MoveKeeps DEF Sound

LEMMA LoginFailsKeeps ==
  ASSUME CInv, NEW p \in Proc, LoginFails(p)
  PROVE  CInv'
<1>1. /\ "failure" \in Ended /\ ~Midway(p) /\ torn' = torn /\ torn \in BOOLEAN
      /\ profile' \in BOOLEAN /\ browsers' \subseteq Proc
  BY ClosesFacts DEF Ended, Midway, LoginFails, CInv, TypeOK
<1> QED BY <1>1, EndKeeps DEF LoginFails

(* A change of the cookie file leaves the keyring as it is.                 *)
LEMMA CookieChangeKeeps ==
  ASSUME CInv, NEW p \in Proc, NEW t \in Commands, Changes(p, "cookie", t),
         UNCHANGED <<keyring, secret, profile, browsers, torn>>, ~Midway(p),
         cookie' \in {"absent", "empty", "saved"}, unlinked' \subseteq Proc,
         \A q \in Proc \ {p} : q \in unlinked' => q \in unlinked \/ cmd[q].pc = "save",
         t.pc \notin Ended =>
           /\ Sound(Mine(t, "cookie"), keyring, secret)
           /\ Kept(Mine(t, "cookie"), cookie', p \in unlinked')
  PROVE  CInv'
<1>1. "cookie" \in Item BY DEF Item
<1>2. Mine(t, "cookie") \in Commands /\ Mine(t, "cookie").pc = t.pc BY <1>1, MineFacts
<1>3. keyring' \in Pairs /\ keyring' = keyring /\ secret' = secret BY ActorFacts
<1>4. /\ cmd' \in [Proc -> Commands] /\ \A q \in Proc : Good(q)'
      /\ \A q \in Proc \ {p} : Midway(q)' <=> Midway(q)
  BY <1>1, <1>2, <1>3, OneChanges
<1>5. KeyringPaired' BY <1>3, <1>4, PairedStays
<1>6. TypeOK' BY <1>4 DEF CInv, TypeOK
<1> QED BY <1>4, <1>5, <1>6 DEF CInv

LEMMA TruncateKeeps ==
  ASSUME CInv, NEW p \in Proc, Truncate(p)
  PROVE  CInv'
<1> DEFINE t == [cmd[p] EXCEPT !.pc = "save"]
           u == Mine(t, "cookie")
<1>1. /\ cmd[p] \in Commands /\ Sound(cmd[p], keyring, secret)
      /\ Kept(cmd[p], cookie, p \in unlinked) /\ cmd[p].pc = "truncate"
  BY ActorFacts DEF Truncate, At, Active, Ended
<1>2. "cookie" \in Item /\ Entry \subseteq Item /\ "cookie" \notin Entry BY DEF Item, Entry
<1>3. /\ t \in Commands /\ t.pc = "save" /\ t.kind = cmd[p].kind /\ t.goal = cmd[p].goal
      /\ t.mark = cmd[p].mark
  BY <1>1, PcFacts DEF Pc
<1>4. Changes(p, "cookie", t) BY DEF Truncate
<1> HIDE DEF t
<1>5. /\ u.pc = "save" /\ u.kind = cmd[p].kind /\ u.goal = cmd[p].goal
      /\ \A j \in Item : u.mark[j] = IF j = "cookie" THEN "mine" ELSE cmd[p].mark[j]
  BY <1>2, <1>3, MineFacts
<1> HIDE DEF u
<1>6. Place(u) /\ Own(u, keyring) /\ Progress(u)
  BY <1>1, <1>2, <1>5 DEF Sound, Place, Own, Progress, InLogin
<1>7. Looked(u, secret) /\ Undisturbed(u, keyring, secret)
  BY <1>5 DEF Looked, Undisturbed
<1>8. Kept(u, cookie', p \in unlinked')
  BY <1>1, <1>5 DEF Kept, Truncate, Sound, Place, InLogin
<1>9. /\ UNCHANGED <<keyring, secret, profile, browsers, torn, unlinked>> /\ ~Midway(p)
      /\ cookie' \in {"absent", "empty", "saved"} /\ unlinked \subseteq Proc
  BY <1>1 DEF Truncate, Midway, CInv, TypeOK
<1> QED BY <1>3, <1>4, <1>6, <1>7, <1>8, <1>9, CookieChangeKeeps DEF Sound, u

LEMMA SaveKeeps ==
  ASSUME CInv, NEW p \in Proc, Save(p) \/ SaveFails(p)
  PROVE  CInv'
<1>1. /\ cmd[p].pc \in {"truncate", "save"} /\ ~Midway(p)
      /\ unlinked' = unlinked \ {p} /\ unlinked' \subseteq Proc
      /\ UNCHANGED <<keyring, secret, profile, browsers, torn>>
      /\ torn \in BOOLEAN /\ profile \in BOOLEAN /\ browsers \subseteq Proc
  BY DEF Save, SaveFails, At, Midway, CInv, TypeOK
<1>2. ASSUME NEW outcome \in Ended, Becomes(p, Over(outcome)), cookie' = cookie
      PROVE  CInv'
  BY <1>1, <1>2, EndKeeps
<1>3. ASSUME NEW outcome \in Ended, Changes(p, "cookie", Over(outcome)), cookie' = "saved"
      PROVE  CInv'
  BY <1>1, <1>3, OverType, CookieChangeKeeps
<1>4. "success" \in Ended /\ "failure" \in Ended BY DEF Ended
<1>5. CASE Save(p)
  <2>1. CASE p \in unlinked
    <3>1. cookie' = cookie
          /\ \E o \in {"success", "failure"} : Becomes(p, Over(o))
      BY <1>5, <2>1 DEF Save
    <3> QED BY <1>2, <1>4, <3>1
  <2>2. CASE p \notin unlinked
    BY <1>3, <1>4, <1>5, <2>2 DEF Save
  <2> QED BY <2>1, <2>2
<1>6. CASE SaveFails(p)
  BY <1>2, <1>3, <1>4, <1>6 DEF SaveFails
<1> QED BY <1>5, <1>6

-----------------------------------------------------------------------------
(* deauthenticate, validate and the environment.                            *)
LEMMA DeleteFailsKeeps ==
  ASSUME CInv, NEW p \in Proc, DeleteFails(p)
  PROVE  CInv'
<1> DEFINE lost == IF Midway(p) THEN {"password"} ELSE Entry
           t == [cmd[p] EXCEPT !.pc = "removeCookie", !.failed = lost]
<1>1. /\ cmd[p] \in Commands /\ Sound(cmd[p], keyring, secret)
      /\ Kept(cmd[p], cookie, p \in unlinked)
      /\ cmd[p].pc \in {"deleteUsername", "deletePassword"}
  BY ActorFacts DEF DeleteFails, Active, Ended
<1>2. Becomes(p, t) BY DEF DeleteFails
<1>3. lost \subseteq Item /\ Entry \subseteq Item BY DEF Item, Entry
<1>4. \A e \in Entry : cmd[p].mark[e] # "untouched" \/ e \in lost
  BY <1>1 DEF Sound, Progress, Midway, Entry
<1> HIDE DEF lost
<1>5. /\ t \in Commands /\ t.pc = "removeCookie" /\ t.kind = cmd[p].kind
      /\ t.goal = cmd[p].goal /\ t.failed = lost /\ t.mark = cmd[p].mark
      /\ Quiet(t) <=> Quiet(cmd[p])
  BY <1>1, <1>3 DEF Commands, Pc, Quiet
<1> HIDE DEF t
<1>6. Place(t) /\ Own(t, keyring) /\ Looked(t, secret)
  BY <1>1, <1>5 DEF Sound, Place, Own, Looked, InLogin
<1>7. Progress(t) BY <1>1, <1>4, <1>5 DEF Sound, Progress, Place, InLogin
<1>8. Undisturbed(t, keyring, secret)
  BY <1>1, <1>5 DEF Sound, Undisturbed, Place
<1>9. Kept(t, cookie, p \in unlinked) BY <1>1, <1>5 DEF Kept
<1>10. /\ UNCHANGED <<keyring, secret, cookie, unlinked, profile, browsers>>
       /\ torn' = (torn \/ Midway(p)) /\ torn \in BOOLEAN /\ profile \in BOOLEAN
       /\ browsers \subseteq Proc
  BY DEF DeleteFails, CInv, TypeOK
<1>11. torn' \in BOOLEAN /\ (torn => torn') /\ (Midway(p) => torn')
  BY <1>10
<1> QED BY <1>2, <1>5, <1>6, <1>7, <1>8, <1>9, <1>10, <1>11, MoveKeeps DEF Sound

LEMMA RemoveCookieKeeps ==
  ASSUME CInv, NEW p \in Proc, RemoveCookie(p)
  PROVE  CInv'
<1> DEFINE t == [cmd[p] EXCEPT !.pc = "removeProfile"]
           u == Mine(t, "cookie")
<1>1. /\ cmd[p] \in Commands /\ Sound(cmd[p], keyring, secret)
      /\ Kept(cmd[p], cookie, p \in unlinked) /\ cmd[p].pc = "removeCookie"
  BY ActorFacts DEF RemoveCookie, At, Active, Ended
<1>2. "cookie" \in Item /\ Entry \subseteq Item /\ "cookie" \notin Entry BY DEF Item, Entry
<1>3. /\ t \in Commands /\ t.pc = "removeProfile" /\ t.kind = cmd[p].kind
      /\ t.goal = cmd[p].goal /\ t.mark = cmd[p].mark /\ t.failed = cmd[p].failed
      /\ Quiet(t) <=> Quiet(cmd[p])
  BY <1>1, PcFacts DEF Pc
<1>4. Changes(p, "cookie", t) BY DEF RemoveCookie
<1> HIDE DEF t
<1>5. /\ u.pc = "removeProfile" /\ u.kind = cmd[p].kind /\ u.goal = cmd[p].goal
      /\ u.failed = cmd[p].failed /\ (Quiet(u) <=> Quiet(cmd[p]))
      /\ \A j \in Item : u.mark[j] = IF j = "cookie" THEN "mine" ELSE cmd[p].mark[j]
  BY <1>2, <1>3, MineFacts
<1> HIDE DEF u
<1>6. Place(u) /\ Own(u, keyring) /\ Looked(u, secret)
  BY <1>1, <1>2, <1>5 DEF Sound, Place, Own, Looked, InLogin
<1>7. Progress(u)
  BY <1>1, <1>2, <1>5 DEF Sound, Progress, Place, InLogin
<1>8. Undisturbed(u, keyring, secret)
  BY <1>1, <1>2, <1>5 DEF Sound, Undisturbed, Place
<1>9. p \notin unlinked' /\ unlinked' \subseteq Proc
      /\ \A q \in Proc \ {p} : q \in unlinked' => q \in unlinked \/ cmd[q].pc = "save"
  BY <1>1 DEF Kept, RemoveCookie, At, CInv, TypeOK
<1>10. Kept(u, cookie', p \in unlinked')
  BY <1>9 DEF Kept, RemoveCookie
<1>11. /\ UNCHANGED <<keyring, secret, profile, browsers, torn>> /\ ~Midway(p)
       /\ cookie' \in {"absent", "empty", "saved"}
  BY <1>1 DEF RemoveCookie, Midway
<1> QED BY <1>3, <1>4, <1>6, <1>7, <1>8, <1>9, <1>10, <1>11, CookieChangeKeeps DEF Sound, u

LEMMA RemoveCookieFailsKeeps ==
  ASSUME CInv, NEW p \in Proc, RemoveCookieFails(p)
  PROVE  CInv'
<1> DEFINE t == [cmd[p] EXCEPT !.pc = "removeProfile", !.failed = @ \cup {"cookie"}]
<1>1. /\ cmd[p] \in Commands /\ Sound(cmd[p], keyring, secret)
      /\ Kept(cmd[p], cookie, p \in unlinked) /\ cmd[p].pc = "removeCookie"
  BY ActorFacts DEF RemoveCookieFails, At, Active, Ended
<1>2. "cookie" \in Item BY DEF Item
<1>3. /\ t \in Commands /\ t.pc = "removeProfile" /\ t.kind = cmd[p].kind
      /\ t.goal = cmd[p].goal /\ t.mark = cmd[p].mark
      /\ t.failed = cmd[p].failed \cup {"cookie"} /\ (Quiet(t) <=> Quiet(cmd[p]))
  BY <1>1, <1>2 DEF Commands, Pc, Quiet
<1>4. Becomes(p, t) BY DEF RemoveCookieFails
<1> HIDE DEF t
<1>5. Place(t) /\ Own(t, keyring) /\ Looked(t, secret)
  BY <1>1, <1>3 DEF Sound, Place, Own, Looked, InLogin
<1>6. Progress(t) BY <1>1, <1>3 DEF Sound, Progress, Place, InLogin
<1>7. Undisturbed(t, keyring, secret)
  BY <1>1, <1>3 DEF Sound, Undisturbed, Place
<1>8. Kept(t, cookie, p \in unlinked) BY <1>1, <1>3 DEF Kept
<1>9. /\ UNCHANGED <<keyring, secret, cookie, unlinked, profile, browsers, torn>>
      /\ ~Midway(p) /\ torn \in BOOLEAN /\ profile \in BOOLEAN /\ browsers \subseteq Proc
  BY <1>1 DEF RemoveCookieFails, Midway, CInv, TypeOK
<1> QED BY <1>3, <1>4, <1>5, <1>6, <1>7, <1>8, <1>9, MoveKeeps DEF Sound

LEMMA RemoveProfileKeeps ==
  ASSUME CInv, NEW p \in Proc, RemoveProfile(p) \/ RemoveProfileFails(p)
  PROVE  CInv'
<1>1. /\ UNCHANGED <<keyring, secret, cookie, unlinked, browsers, torn>>
      /\ profile' \in BOOLEAN /\ torn \in BOOLEAN /\ browsers \subseteq Proc /\ ~Midway(p)
  BY DEF RemoveProfile, RemoveProfileFails, At, Midway, CInv, TypeOK
<1>2. \E o \in {"success", "failure"} : Becomes(p, Over(o))
  BY DEF RemoveProfile, RemoveProfileFails
<1>3. {"success", "failure"} \subseteq Ended BY DEF Ended
<1> QED BY <1>1, <1>2, <1>3, EndKeeps

LEMMA ValidateKeeps ==
  ASSUME CInv, NEW p \in Proc, Validate(p)
  PROVE  CInv'
<1>1. /\ UNCHANGED <<keyring, secret, cookie, unlinked, profile, browsers, torn>>
      /\ cmd[p].pc \in {"validate", "probe"} /\ ~Midway(p)
      /\ torn \in BOOLEAN /\ browsers \subseteq Proc /\ profile \in BOOLEAN
  BY DEF Validate, ReadCookie, Probe, At, Midway, CInv, TypeOK
<1>2. {"success", "invalid", "unreachable"} \subseteq Ended BY DEF Ended
<1>3. ASSUME NEW o \in {"success", "invalid", "unreachable"}, Becomes(p, Over(o))
      PROVE  CInv'
  BY <1>1, <1>2, <1>3, EndKeeps
<1>4. CASE Becomes(p, [cmd[p] EXCEPT !.pc = "probe"])
  <2> DEFINE t == [cmd[p] EXCEPT !.pc = "probe"]
  <2>1. /\ cmd[p] \in Commands /\ Sound(cmd[p], keyring, secret)
        /\ Kept(cmd[p], cookie, p \in unlinked)
    BY <1>1, ActorFacts DEF Active, Ended
  <2>2. /\ t \in Commands /\ t.pc = "probe" /\ t.kind = cmd[p].kind
        /\ t.goal = cmd[p].goal /\ t.mark = cmd[p].mark /\ t.failed = cmd[p].failed
        /\ Quiet(t) <=> Quiet(cmd[p])
    BY <2>1, PcFacts DEF Pc
  <2>3. Becomes(p, t) BY <1>4
  <2> HIDE DEF t
  <2>4. Place(t) /\ Own(t, keyring) /\ Looked(t, secret) /\ Progress(t)
    BY <1>1, <2>1, <2>2 DEF Sound, Place, Own, Looked, Progress, InLogin
  <2>5. Undisturbed(t, keyring, secret) /\ Kept(t, cookie, p \in unlinked)
    BY <1>1, <2>1, <2>2 DEF Sound, Undisturbed, Place, Kept
  <2> QED BY <1>1, <2>2, <2>3, <2>4, <2>5, MoveKeeps DEF Sound
<1> QED BY <1>3, <1>4 DEF Validate, ReadCookie, Probe

LEMMA EnvironmentKeeps ==
  ASSUME CInv, NEW p \in Proc, Kill(p) \/ BrowserExits(p) \/ BrowserWrites(p)
  PROVE  CInv'
<1>1. CASE Kill(p)
  <2>1. /\ "killed" \in Ended /\ profile' \in BOOLEAN /\ browsers' \subseteq Proc
        /\ torn' = (torn \/ Midway(p)) /\ torn \in BOOLEAN
    BY <1>1, ClosesFacts DEF Ended, Kill, CInv, TypeOK
  <2>2. torn' \in BOOLEAN /\ (torn => torn') /\ (Midway(p) => torn') BY <2>1
  <2> QED BY <1>1, <2>1, <2>2, EndKeeps DEF Kill
<1>2. CASE BrowserExits(p) \/ BrowserWrites(p)
  <2>1. /\ UNCHANGED <<cmd, keyring, secret, cookie, unlinked, torn>>
        /\ profile' \in BOOLEAN /\ browsers' \subseteq Proc
    BY <1>2 DEF BrowserExits, BrowserWrites, CInv, TypeOK
  <2>2. TypeOK' BY <2>1 DEF CInv, TypeOK
  <2>3. KeyringPaired' BY <2>1 DEF CInv, KeyringPaired, Midway
  <2>4. \A q \in Proc : Good(q)' BY <2>1 DEF CInv, Good, Active
  <2> QED BY <2>2, <2>3, <2>4 DEF CInv
<1> QED BY <1>1, <1>2
-----------------------------------------------------------------------------
(* CInv is inductive.                                                       *)
LEMMA CInit == Init => CInv
<1> SUFFICES ASSUME Init PROVE CInv OBVIOUS
<1>1. /\ "idle" \in Ended /\ Over("idle") \in Commands /\ Over("idle").pc = "idle"
  BY OverType DEF Ended
<1>2. /\ cmd \in [Proc -> Commands] /\ \A p \in Proc : ~Active(p) /\ ~Midway(p)
  <2>1. cmd = [p \in Proc |-> Over("idle")] BY DEF Init
  <2> HIDE DEF Over
  <2> QED BY <1>1, <2>1 DEF Active, Midway
<1>3. secret \in Pairs BY SourceAssumption DEF Init
<1>4. keyring \in Pairs /\ keyring["username"] = keyring["password"]
  BY DEF Init, Both, Pairs, Entry
<1>5. TypeOK BY <1>2, <1>3, <1>4 DEF Init, TypeOK
<1> QED BY <1>2, <1>4, <1>5 DEF CInv, KeyringPaired, Good

(* The steps a process takes, or has taken for it.                          *)
Moves(p) == Step(p) \/ Command(p) \/ Kill(p) \/ BrowserExits(p) \/ BrowserWrites(p)

LEMMA MovesKeep ==
  ASSUME CInv, NEW p \in Proc, Moves(p)
  PROVE  CInv'
<1>1. CASE Store(p) BY <1>1, PutUsernameKeeps, PutPasswordKeeps, StoreFailsKeeps DEF Store
<1>2. CASE Resolve(p) BY <1>2, ReadUsernameKeeps, ReadPasswordKeeps, ReadFailsKeeps DEF Resolve
<1>3. CASE Login(p)
  BY <1>3, LaunchKeeps, CaptureKeeps, LoginFailsKeeps, TruncateKeeps, SaveKeeps DEF Login
<1>4. CASE Erase(p)
  BY <1>4, PutUsernameKeeps, PutPasswordKeeps, DeleteFailsKeeps, RemoveCookieKeeps,
     RemoveCookieFailsKeeps, RemoveProfileKeeps DEF Erase
<1>5. CASE Validate(p) BY <1>5, ValidateKeeps
<1>6. CASE Command(p) BY <1>6, CommandKeeps
<1>7. CASE Kill(p) \/ BrowserExits(p) \/ BrowserWrites(p) BY <1>7, EnvironmentKeeps
<1> QED BY <1>1, <1>2, <1>3, <1>4, <1>5, <1>6, <1>7 DEF Moves, Step

LEMMA CNext == CInv /\ [Next]_vars => CInv'
<1>1. ASSUME CInv, Next PROVE CInv'
  <2>1. PICK p \in Proc : Moves(p) BY <1>1 DEF Next, Moves
  <2> QED BY <1>1, <2>1, MovesKeep
<1>2. ASSUME CInv, UNCHANGED vars PROVE CInv'
  <2>1. UNCHANGED <<cmd, keyring, secret, cookie, unlinked, profile, browsers, torn>>
    BY <1>2 DEF vars
  <2>2. TypeOK' BY <1>2, <2>1 DEF CInv, TypeOK
  <2>3. KeyringPaired' BY <1>2, <2>1 DEF CInv, KeyringPaired, Midway
  <2>4. \A q \in Proc : Good(q)' BY <1>2, <2>1 DEF CInv, Good, Active
  <2> QED BY <2>2, <2>3, <2>4 DEF CInv
<1> QED BY <1>1, <1>2

LEMMA CredentialsInvariant == Spec => []CInv
BY CInit, CNext, PTL DEF Spec

(* At every state and between any two, all variables are in their ranges.   *)
THEOREM CredentialsTypeCorrect == Spec => []TypeOK
<1>1. CInv => TypeOK BY DEF CInv
<1> QED BY <1>1, CredentialsInvariant, PTL

(* store_credentials and delete_credentials, called by any number of processes
   at once: the two entries come apart only while one of them is between its
   two calls, was cut off there, or was overtaken.                          *)
THEOREM KeyringStaysPaired == Spec => []KeyringPaired
<1>1. CInv => KeyringPaired BY DEF CInv
<1> QED BY <1>1, CredentialsInvariant, PTL

LEMMA LoginFacts ==
  ASSUME CInv, NEW p \in Proc, At(p, "login")
  PROVE  Sound(cmd[p], keyring, secret) /\ cmd[p] \in Commands
BY ActorFacts DEF At, Active, Ended

(* vpn_credentials never mixes two sources.                                 *)
THEOREM LoginPairFromOneSource == Spec => []OneSource
<1>1. ASSUME CInv, NEW p \in Proc, At(p, "login"), NEW found, found = cmd[p].login
      PROVE  CASE found.source = "env" -> Whole(cmd[p].env) /\ found.pair = cmd[p].env
               [] found.source = "files" ->
                    ~Whole(cmd[p].env) /\ Whole(secret) /\ found.pair = secret
               [] found.source = "keyring" ->
                    /\ ~Whole(cmd[p].env)
                    /\ Quiet(cmd[p]) /\ ~(found.pair["username"] = found.pair["password"])
                         => torn \/ \E q \in Proc : Midway(q)
               [] OTHER -> ~Whole(cmd[p].env) /\ ~Whole(secret)
  <2>1. /\ Looked(cmd[p], secret) /\ Undisturbed(cmd[p], keyring, secret)
        /\ found.source \in {"none", "env", "keyring", "files"} /\ cmd[p].pc = "login"
    BY <1>1, LoginFacts DEF Sound, Commands, Found, At
  <2>2. /\ found.source = "env" => Whole(cmd[p].env) /\ found.pair = cmd[p].env
        /\ found.source = "files" => ~Whole(cmd[p].env) /\ Whole(secret) /\ found.pair = secret
        /\ found.source = "keyring" => ~Whole(cmd[p].env)
        /\ found.source = "none" => ~Whole(cmd[p].env) /\ ~Whole(secret)
    BY <1>1, <2>1 DEF Looked
  <2>3. found.source = "keyring" /\ Quiet(cmd[p]) => found.pair = keyring
    BY <1>1, <2>1 DEF Undisturbed
  <2>4. CASE found.source = "env" BY <2>2, <2>4
  <2>5. CASE found.source = "files" BY <2>2, <2>5
  <2>6. CASE found.source = "keyring" BY <1>1, <2>2, <2>3, <2>6 DEF CInv, KeyringPaired
  <2>7. CASE found.source = "none" BY <2>2, <2>7
  <2> QED BY <2>1, <2>4, <2>5, <2>6, <2>7
<1>2. CInv => OneSource BY <1>1 DEF OneSource
<1> QED BY <1>2, CredentialsInvariant, PTL

(* The check in cmd_refresh_token and the read in its login agree, unless
   another process or the keyring comes between them.                       *)
LEMMA RefreshFindsCredentials == CInv => RefreshHasCredentials
<1>1. ASSUME CInv, NEW p \in Proc, At(p, "login"), cmd[p].kind = "refresh_token", Quiet(cmd[p])
      PROVE  cmd[p].login.source # "none"
  BY <1>1, LoginFacts DEF Sound, Looked, Undisturbed, At
<1> QED BY <1>1 DEF RefreshHasCredentials

(* cmd_authenticate's login takes the pair it has stored.                   *)
LEMMA StoredPairIsUsed == CInv => StoredPairUsed
<1>1. ASSUME CInv, NEW p \in Proc, At(p, "login"), cmd[p].kind = "authenticate",
             Quiet(cmd[p]), ~Whole(cmd[p].env)
      PROVE  cmd[p].login.pair = Both(cmd[p].goal)
  <2>1. /\ Sound(cmd[p], keyring, secret) /\ cmd[p] \in Commands /\ cmd[p].pc = "login"
        /\ keyring \in Pairs
    BY <1>1, LoginFacts, ActorFacts DEF At
  <2>2. \A e \in Entry : cmd[p].mark[e] = "mine"
    BY <1>1, <2>1 DEF Sound, Progress, Undisturbed, Commands, InLogin, Item
  <2>3. keyring = Both(cmd[p].goal) /\ cmd[p].goal # NoAccount
    BY <1>1, <2>1, <2>2 DEF Sound, Own, Place, Pairs, Both
  <2>4. Whole(keyring) BY <2>3 DEF Whole, Both
  <2>5. cmd[p].login.source = "keyring"
    BY <1>1, <2>1, <2>4 DEF Sound, Looked, Undisturbed, Commands, Found
  <2> QED BY <1>1, <2>1, <2>3, <2>5 DEF Sound, Undisturbed
<1> QED BY <1>1 DEF StoredPairUsed

(* What cmd_refresh_token has checked and cmd_authenticate has stored, their
   login finds, for any number of processes beside it that leave the keyring
   alone.                                                                   *)
THEOREM LoginFindsItsCredentials == Spec => []LoginFindsCredentials
<1>1. CInv => LoginFindsCredentials
  BY RefreshFindsCredentials, StoredPairIsUsed DEF LoginFindsCredentials
<1> QED BY <1>1, CredentialsInvariant, PTL
-----------------------------------------------------------------------------
(* How commands end.                                                        *)

(* Only p's own steps move p on.                                            *)
LEMMA OthersStay ==
  ASSUME CInv, NEW p \in Proc, NEW q \in Proc \ {p}, Moves(p)
  PROVE  cmd'[q].pc = cmd[q].pc
<1>1. cmd \in [Proc -> Commands] BY DEF CInv, TypeOK
<1>2. ASSUME NEW t, Becomes(p, t) PROVE cmd'[q].pc = cmd[q].pc
  BY <1>1, <1>2 DEF Becomes
<1>3. ASSUME NEW t, NEW i \in Item, Changes(p, i, t) PROVE cmd'[q].pc = cmd[q].pc
  <2>1. cmd'[q] = IF Active(q) THEN Seen(cmd[q], i) ELSE cmd[q]
    BY <1>3 DEF Changes
  <2> QED BY <1>1, <2>1, SeenFacts
<1>4. {"username", "password", "cookie"} \subseteq Item BY DEF Item, Entry
<1>5. CASE Store(p)
  BY <1>2, <1>3, <1>4, <1>5 DEF Store, PutUsername, PutPassword, PutFails
<1>6. CASE Resolve(p)
  BY <1>2, <1>6 DEF Resolve, ReadUsername, ReadPassword, ReadFails
<1>7. CASE Login(p)
  BY <1>2, <1>3, <1>4, <1>7
  DEF Login, Launch, Relaunch, Capture, LoginFails, Truncate, Save, SaveFails
<1>8. CASE Erase(p)
  BY <1>2, <1>3, <1>4, <1>8
  DEF Erase, DeleteUsername, DeletePassword, DeleteFails, RemoveCookie,
      RemoveCookieFails, RemoveProfile, RemoveProfileFails
<1>9. CASE Validate(p) BY <1>2, <1>9 DEF Validate, ReadCookie, Probe
<1>10. CASE Command(p)
  BY <1>2, <1>10 DEF Command, AuthenticateFromEnv, Authenticate, RefreshToken,
     SupervisorLogin, Deauthenticate, ValidateCookie, Starts
<1>11. CASE Kill(p) \/ BrowserExits(p) \/ BrowserWrites(p)
  BY <1>2, <1>11 DEF Kill, BrowserExits, BrowserWrites
<1> QED BY <1>5, <1>6, <1>7, <1>8, <1>9, <1>10, <1>11 DEF Moves, Step

(* A login command succeeds by Save, and deauthenticate ends with the profile. *)
LEMMA EndOf ==
  ASSUME CInv, NEW p \in Proc, Moves(p), Active(p), cmd'[p].pc \in {"success", "failure"}
  PROVE  /\ cmd'[p].pc = "success" /\ cmd[p].kind \in {"authenticate", "refresh_token", "supervisor"}
              => Save(p)
         /\ cmd[p].kind = "deauthenticate" => RemoveProfile(p) \/ RemoveProfileFails(p)
<1>1. /\ cmd \in [Proc -> Commands] /\ cmd[p] \in Commands /\ Place(cmd[p])
  BY ActorFacts DEF CInv, TypeOK, Sound
<1>2. ASSUME NEW t, Becomes(p, t) PROVE cmd'[p] = t
  BY <1>1, <1>2 DEF Becomes
<1>3. ASSUME NEW where \in Pc \ {"success", "failure"}, NEW i \in Item,
             Changes(p, i, [cmd[p] EXCEPT !.pc = where])
      PROVE  FALSE
  <2> DEFINE t == [cmd[p] EXCEPT !.pc = where]
  <2>1. cmd'[p] = Mine(t, i) BY <1>3 DEF Changes, Mine
  <2>2. t \in Commands /\ t.pc = where BY <1>1, PcFacts
  <2> HIDE DEF t
  <2> QED BY <1>3, <2>1, <2>2, MineFacts
<1>4. {"username", "password", "cookie"} \subseteq Item BY DEF Item, Entry
<1>5. \A o \in Ended : Over(o).pc = o BY OverType
<1>6. CASE Store(p)
  <2>1. cmd[p].kind = "authenticate"
    BY <1>1, <1>6 DEF Store, PutUsername, PutPassword, PutFails, At, Place
  <2>2. {"putPassword", "launch"} \subseteq Pc \ {"success", "failure"} BY DEF Pc, Ended
  <2>3. PutFails(p) BY <1>3, <1>4, <1>6, <2>2 DEF Store, PutUsername, PutPassword
  <2>4. cmd'[p].pc = "failure" BY <1>2, <1>5, <2>3 DEF PutFails, Ended
  <2> QED BY <2>1, <2>4
<1>7. CASE Resolve(p)
  <2>1. cmd[p].pc \in Reading /\ \E r \in Commands : \E found :
          /\ r.pc = cmd[p].pc
          /\ cmd'[p] = Resolved(r, found) \/ cmd'[p] = ThenPassword(r, found)
    <3>1. [cmd[p] EXCEPT !.keys = "disturbed"] \in Commands
          /\ [cmd[p] EXCEPT !.keys = "disturbed"].pc = cmd[p].pc
      BY <1>1 DEF Commands
    <3> QED BY <1>1, <1>2, <1>7, <3>1
        DEF Resolve, ReadUsername, ReadPassword, ReadFails, Reading
  <2> PICK r \in Commands : \E found :
          /\ r.pc = cmd[p].pc
          /\ (cmd'[p] = Resolved(r, found) \/ cmd'[p] = ThenPassword(r, found))
    BY <2>1
  <2>2. PICK found :
          /\ r.pc = cmd[p].pc
          /\ (cmd'[p] = Resolved(r, found) \/ cmd'[p] = ThenPassword(r, found))
    OBVIOUS
  <2>3. ThenPassword(r, found).pc \in {"checkPassword", "readPassword"}
    BY DEF ThenPassword, Commands
  <2>4. Resolved(r, found).pc \in {"login", "launch"} \/ Resolved(r, found) = Over("failure")
    BY DEF Resolved, Commands
  <2>5. cmd'[p].pc # "success" BY <1>5, <2>2, <2>3, <2>4 DEF Ended
  <2>6. cmd[p].kind # "deauthenticate"
    BY <1>1, <2>1 DEF Place, Reading, InLogin
  <2> QED BY <2>5, <2>6
<1>8. CASE Login(p)
  <2>1. cmd[p].kind # "deauthenticate"
    BY <1>1, <1>8 DEF Login, Launch, Relaunch, Capture, LoginFails, Truncate, Save,
       SaveFails, At, Place, InLogin
  <2>2. ~Truncate(p) BY <1>3, <1>4 DEF Truncate, Pc, Ended
  <2>3. ~Launch(p) BY <1>1, <1>2 DEF Launch, Commands
  <2>4. ~Relaunch(p) BY <1>1, <1>2 DEF Relaunch, Commands
  <2>5. ~Capture(p) BY <1>2 DEF Capture, Fresh
  <2>6. LoginFails(p) \/ SaveFails(p) => cmd'[p].pc = "failure"
    <3>1. LoginFails(p) => cmd'[p].pc = "failure" BY <1>2, <1>5 DEF LoginFails, Ended
    <3>2. ASSUME Changes(p, "cookie", Over("failure")) PROVE cmd'[p].pc = "failure"
      <4>1. cmd'[p] = Mine(Over("failure"), "cookie") BY <3>2 DEF Changes, Mine
      <4>2. Over("failure") \in Commands /\ Over("failure").pc = "failure"
        BY OverType DEF Ended
      <4> HIDE DEF Over
      <4> QED BY <1>4, <4>1, <4>2, MineFacts
    <3>3. SaveFails(p) => cmd'[p].pc = "failure"
      BY <1>2, <1>5, <3>2 DEF SaveFails, Ended
    <3> QED BY <3>1, <3>3
  <2> QED BY <1>8, <2>1, <2>2, <2>3, <2>4, <2>5, <2>6 DEF Login
<1>9. CASE Erase(p)
  <2>1. cmd[p].kind = "deauthenticate"
    BY <1>1, <1>9 DEF Erase, DeleteUsername, DeletePassword, DeleteFails, RemoveCookie,
       RemoveCookieFails, RemoveProfile, RemoveProfileFails, At, Place
  <2>2. ~DeleteUsername(p) /\ ~DeletePassword(p) /\ ~RemoveCookie(p)
    BY <1>3, <1>4 DEF DeleteUsername, DeletePassword, RemoveCookie, Pc, Ended
  <2>3. ~DeleteFails(p) BY <1>1, <1>2 DEF DeleteFails, Commands
  <2>4. ~RemoveCookieFails(p) BY <1>1, <1>2 DEF RemoveCookieFails, Commands
  <2> QED BY <1>9, <2>1, <2>2, <2>3, <2>4 DEF Erase
<1>10. CASE Validate(p)
  BY <1>1, <1>10 DEF Validate, ReadCookie, Probe, At, Place
<1>11. CASE Command(p)
  BY <1>11 DEF Command, AuthenticateFromEnv, Authenticate, RefreshToken,
     SupervisorLogin, Deauthenticate, ValidateCookie, Starts
<1>12. CASE Kill(p)
  BY <1>2, <1>5, <1>12 DEF Kill, Ended
<1>13. CASE BrowserExits(p) \/ BrowserWrites(p)
  BY <1>13 DEF BrowserExits, BrowserWrites, Active, Ended
<1> QED BY <1>6, <1>7, <1>8, <1>9, <1>10, <1>11, <1>12, <1>13 DEF Moves, Step

LEMMA EndsBy ==
  ASSUME CInv, [Next]_vars, NEW p \in Proc, Active(p), cmd'[p].pc \in {"success", "failure"}
  PROVE  /\ cmd'[p].pc = "success" /\ cmd[p].kind \in {"authenticate", "refresh_token", "supervisor"}
              => Save(p)
         /\ cmd[p].kind = "deauthenticate" => RemoveProfile(p) \/ RemoveProfileFails(p)
<1>1. CASE UNCHANGED vars BY <1>1 DEF vars, Active, Ended
<1>2. CASE Next
  <2>1. PICK q \in Proc : Moves(q) BY <1>2 DEF Next, Moves
  <2>2. CASE q = p BY <2>1, <2>2, EndOf
  <2>3. CASE q # p
    <3>1. cmd'[p].pc = cmd[p].pc BY <2>1, <2>3, OthersStay
    <3> QED BY <3>1 DEF Active, Ended
  <2> QED BY <2>2, <2>3
<1> QED BY <1>1, <1>2

(* Exit code 0 of a login command means the cookie is on disk and, after
   authenticate, its pair in the keyring, whatever ran beside it.           *)
THEOREM SuccessMeansDone == Spec => SuccessIsDone
<1>1. ASSUME CInv, [Next]_vars, NEW p \in Proc, Ends(p, "success"),
             cmd[p].kind \in {"authenticate", "refresh_token", "supervisor"}
      PROVE  /\ cookie' = "saved" \/ cmd[p].mark["cookie"] = "others"
             /\ cmd[p].kind = "authenticate" =>
                  \A e \in Entry : keyring'[e] = cmd[p].goal \/ cmd[p].mark[e] = "others"
  <2>1. Save(p) BY <1>1, EndsBy DEF Ends
  <2>2. /\ cmd[p] \in Commands /\ cmd[p].pc = "save" /\ Sound(cmd[p], keyring, secret)
        /\ Kept(cmd[p], cookie, p \in unlinked)
    BY <1>1, <2>1, ActorFacts DEF Ends, Save, At
  <2>3. cookie' = "saved" \/ cmd[p].mark["cookie"] = "others"
    BY <2>1, <2>2 DEF Save, Kept
  <2>4. ASSUME cmd[p].kind = "authenticate", NEW e \in Entry
        PROVE  keyring'[e] = cmd[p].goal \/ cmd[p].mark[e] = "others"
    <3>1. cmd[p].mark[e] \in {"mine", "others"}
      BY <2>2, <2>4 DEF Sound, Progress, InLogin, Commands, Item
    <3> QED BY <2>1, <2>2, <3>1 DEF Save, Sound, Own
  <2> QED BY <2>3, <2>4
<1>2. CInv /\ [Next]_vars =>
        \A p \in Proc :
          Ends(p, "success") /\ cmd[p].kind \in {"authenticate", "refresh_token", "supervisor"}
            => /\ cookie' = "saved" \/ cmd[p].mark["cookie"] = "others"
               /\ cmd[p].kind = "authenticate" =>
                    \A e \in Entry : keyring'[e] = cmd[p].goal \/ cmd[p].mark[e] = "others"
  BY <1>1
<1> QED BY <1>2, CredentialsInvariant, PTL DEF Spec, SuccessIsDone

(* cmd_deauthenticate leaves behind only what it failed to remove or what
   others put there later, and owns up to the former.                       *)
THEOREM DeauthenticationErases == Spec => DeauthenticateErases
<1>1. ASSUME CInv, [Next]_vars, NEW p \in Proc, cmd[p].kind = "deauthenticate",
             Ends(p, "success") \/ Ends(p, "failure")
      PROVE  LET left == {e \in Entry : keyring'[e] # NoAccount}
                           \cup (IF cookie' = "absent" THEN {} ELSE {"cookie"})
                 others == {i \in Item : cmd[p].mark[i] = "others"}
             IN /\ left \subseteq others \cup cmd[p].failed
                /\ Ends(p, "success") => left \subseteq others /\ ~profile'
  <2>1. RemoveProfile(p) \/ RemoveProfileFails(p) BY <1>1, EndsBy DEF Ends
  <2>2. /\ cmd[p] \in Commands /\ cmd[p].pc = "removeProfile" /\ Sound(cmd[p], keyring, secret)
        /\ Kept(cmd[p], cookie, p \in unlinked) /\ cookie' = cookie /\ keyring' = keyring
    BY <1>1, <2>1, ActorFacts DEF Ends, RemoveProfile, RemoveProfileFails, At
  <2>3. \A i \in Item : cmd[p].mark[i] \in {"mine", "others"} \/ i \in cmd[p].failed
    BY <2>2 DEF Sound, Progress, Commands, Item
  <2>4. \A e \in Entry : cmd[p].mark[e] = "mine" => keyring[e] = NoAccount
    BY <1>1, <2>2 DEF Sound, Own, Place
  <2>5. cmd[p].mark["cookie"] = "mine" => cookie = "absent"
    BY <1>1, <2>2 DEF Kept
  <2>6. Ends(p, "success") => cmd[p].failed = {} /\ ~profile'
    <3> SUFFICES ASSUME Ends(p, "success") PROVE cmd[p].failed = {} /\ ~profile'
      OBVIOUS
    <3>1. \A t : Becomes(p, t) => cmd'[p] = t BY <1>1 DEF Becomes, CInv, TypeOK
    <3>2. Over("failure").pc = "failure" BY OverType DEF Ended
    <3>3. cmd'[p].pc = "success" BY DEF Ends
    <3> HIDE DEF Over
    <3>4. ~Becomes(p, Over("failure")) BY <3>1, <3>2, <3>3
    <3> QED BY <2>1, <3>4 DEF RemoveProfile, RemoveProfileFails
  <2> QED BY <2>2, <2>3, <2>4, <2>5, <2>6 DEF Item
<1>2. CInv /\ [Next]_vars =>
       \A p \in Proc :
         cmd[p].kind = "deauthenticate" /\ (Ends(p, "success") \/ Ends(p, "failure"))
           => LET left == {e \in Entry : keyring'[e] # NoAccount}
                            \cup (IF cookie' = "absent" THEN {} ELSE {"cookie"})
                  others == {i \in Item : cmd[p].mark[i] = "others"}
              IN /\ left \subseteq others \cup cmd[p].failed
                 /\ Ends(p, "success") => left \subseteq others /\ ~profile'
  BY <1>1
<1> QED BY <1>2, CredentialsInvariant, PTL DEF Spec, DeauthenticateErases
=============================================================================
