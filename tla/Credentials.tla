----------------------------- MODULE Credentials -----------------------------
(***************************************************************************)
(* What the commands of one machine share: the two keyring entries, the    *)
(* cookie file and the Chromium profile directory.  Every command is a     *)
(* process of its own; nothing locks any of the four items.                *)
(*                                                                         *)
(* A credential is represented by the account it belongs to, so a username *)
(* and a password fit together when they are equal.  One action is one     *)
(* call that another process can come between: a keyring call, a file      *)
(* call, the launch of the browser, the login.                             *)
(***************************************************************************)
EXTENDS Integers

CONSTANTS
  Proc,      \* identities of jumphost processes
  Account,
  NoAccount, \* a credential that is missing or empty
  EnvPairs,  \* what VPN_USERNAME and VPN_PASSWORD may hold in a process
  FilePairs  \* what username_file and password_file may hold

Entry == {"username", "password"}
Item == Entry \cup {"cookie"}
Pairs == [Entry -> Account \cup {NoAccount}]

ASSUME AccountAssumption == NoAccount \notin Account
ASSUME SourceAssumption ==
  EnvPairs \subseteq Pairs /\ FilePairs \subseteq Pairs

VARIABLES
  cmd,      \* per process: the command it runs
  keyring,  \* the two entries
  secret,   \* the two secret files
  cookie,   \* the cookie file: absent, empty or saved
  unlinked, \* processes whose open cookie file has lost its name
  profile,  \* the profile directory exists
  browsers, \* processes whose Chromium runs
  torn      \* history: the last keyring change was not a whole pair

vars == <<cmd, keyring, secret, cookie, unlinked, profile, browsers, torn>>

Kinds == {"authenticate", "refresh_token", "deauthenticate", "validate",
          "supervisor"}
Ended == {"idle", "success", "failure", "invalid", "unreachable", "killed"}
Nobody == [e \in Entry |-> NoAccount]
Whole(pair) == \A e \in Entry : pair[e] # NoAccount
Both(a) == [e \in Entry |-> a]
NoPair == [source |-> "none", pair |-> Nobody]

(* A command at the start of `p`: `goal` is what it stores, `login` the pair
   its login fills in.  History: `mark`, whether the command has not yet
   changed an item, changed it last, or others have since; `failed`, what it
   could not remove; `keys`, quiet while nobody else has changed the keyring
   and none of its reads has failed.                                        *)
Fresh(p, kind, env, goal) ==
  [pc |-> p, kind |-> kind, env |-> env, goal |-> goal, headed |-> FALSE,
   name |-> NoAccount, login |-> NoPair,
   mark |-> [i \in Item |-> "untouched"], failed |-> {}, keys |-> "quiet"]
Over(outcome) == Fresh(outcome, "validate", Nobody, NoAccount)

Active(p) == cmd[p].pc \notin Ended
At(p, where) == cmd[p].pc = where
Quiet(r) == r.keys = "quiet"
Midway(p) == cmd[p].pc \in {"putPassword", "deletePassword"}

(* Process p goes on as r.                                                  *)
Becomes(p, r) == cmd' = [cmd EXCEPT ![p] = r]

(* Process p has changed item i, and goes on as r.                          *)
Marked(r, i) == [r.mark EXCEPT ![i] = IF @ = "mine" THEN "others" ELSE @]
Seen(r, i) ==
  IF i \in Entry THEN [r EXCEPT !.mark = Marked(r, i), !.keys = "disturbed"]
                 ELSE [r EXCEPT !.mark = Marked(r, i)]
Changes(p, i, r) ==
  cmd' = [q \in Proc |->
            CASE q = p                -> [r EXCEPT !.mark[i] = "mine"]
              [] q # p /\ Active(q)   -> Seen(cmd[q], i)
              [] q # p /\ ~Active(q)  -> cmd[q]]
-----------------------------------------------------------------------------
(* Starting a command.                                                      *)

Starts(p, r) ==
  /\ ~Active(p) /\ p \notin browsers
  /\ Becomes(p, r)
  /\ unlinked' = unlinked \ {p}
  /\ UNCHANGED <<keyring, secret, cookie, profile, browsers, torn>>

(* cmd_authenticate got a pair from the user, or --from-env.                *)
Authenticate(p, env, a) == Starts(p, Fresh("putUsername", "authenticate", env, a))
AuthenticateFromEnv(p, env) ==
  /\ Whole(env) /\ env["username"] = env["password"]
  /\ Authenticate(p, env, env["username"])

RefreshToken(p, env) ==
  Starts(p, Fresh("checkUsername", "refresh_token", env, NoAccount))

(* refresh_cookie of a running supervisor: the same login, again and again. *)
SupervisorLogin(p, env) ==
  Starts(p, Fresh("launch", "supervisor", env, NoAccount))

Deauthenticate(p) ==
  Starts(p, Fresh("deleteUsername", "deauthenticate", Nobody, NoAccount))

ValidateCookie(p) == Starts(p, Fresh("validate", "validate", Nobody, NoAccount))
-----------------------------------------------------------------------------
(* store_credentials.                                                       *)

(* Mutant of PutUsername: an entry that is there is kept. *)
PutUsernameOnce(p) ==
  /\ At(p, "putUsername")
  /\ keyring' = [keyring EXCEPT !["username"] = IF @ = NoAccount THEN cmd[p].goal ELSE @]
  /\ Changes(p, "username", [cmd[p] EXCEPT !.pc = "putPassword"])
  /\ UNCHANGED <<secret, cookie, unlinked, profile, browsers, torn>>

PutUsername(p) ==
  /\ At(p, "putUsername")
  /\ keyring' = [keyring EXCEPT !["username"] = cmd[p].goal]
  /\ Changes(p, "username", [cmd[p] EXCEPT !.pc = "putPassword"])
  /\ UNCHANGED <<secret, cookie, unlinked, profile, browsers, torn>>

PutPassword(p) ==
  /\ At(p, "putPassword")
  /\ keyring' = [keyring EXCEPT !["password"] = cmd[p].goal]
  /\ torn' = (cmd[p].mark["username"] # "mine")
  /\ Changes(p, "password", [cmd[p] EXCEPT !.pc = "launch"])
  /\ UNCHANGED <<secret, cookie, unlinked, profile, browsers>>

PutFails(p) ==
  /\ cmd[p].pc \in {"putUsername", "putPassword"}
  /\ torn' = (torn \/ Midway(p))
  /\ Becomes(p, Over("failure"))
  /\ UNCHANGED <<keyring, secret, cookie, unlinked, profile, browsers>>

-----------------------------------------------------------------------------
(* vpn_credentials: the environment, the keyring, the secret files.  It is
   called before the login by refresh_token, and by every login.            *)

(* Where the caller goes on with what vpn_credentials returned.             *)
Resolved(r, found) ==
  IF r.pc \in {"readUsername", "readPassword"}
    THEN [r EXCEPT !.pc = "login", !.login = found, !.name = NoAccount]
    ELSE IF found = NoPair
    THEN Over("failure")
    ELSE [r EXCEPT !.pc = "launch", !.name = NoAccount]

ThenPassword(r, name) ==
  [r EXCEPT !.pc = IF @ = "checkUsername" THEN "checkPassword" ELSE "readPassword",
            !.name = name]

FromFiles ==
  IF Whole(secret) THEN [source |-> "files", pair |-> secret] ELSE NoPair

(* Mutant of ReadUsername: a half-set environment is completed. *)
ReadUsernameMixing(p) ==
  /\ cmd[p].pc \in {"checkUsername", "readUsername"}
  /\ LET r == cmd[p]
         name == IF r.env["username"] # NoAccount THEN r.env["username"]
                                                  ELSE keyring["username"]
     IN Becomes(p, IF Whole(r.env)
                     THEN Resolved(r, [source |-> "env", pair |-> r.env])
                     ELSE IF name = NoAccount
                     THEN Resolved(r, FromFiles)
                     ELSE ThenPassword(r, name))
  /\ UNCHANGED <<keyring, secret, cookie, unlinked, profile, browsers, torn>>

(* Mutant of ReadUsername: refresh_token is content with a username. *)
ReadUsernameSuffices(p) ==
  /\ cmd[p].pc \in {"checkUsername", "readUsername"}
  /\ LET r == cmd[p]
     IN Becomes(p, IF Whole(r.env)
                     THEN Resolved(r, [source |-> "env", pair |-> r.env])
                     ELSE IF keyring["username"] = NoAccount
                     THEN Resolved(r, FromFiles)
                     ELSE IF r.pc = "checkUsername"
                     THEN [r EXCEPT !.pc = "launch"]
                     ELSE ThenPassword(r, keyring["username"]))
  /\ UNCHANGED <<keyring, secret, cookie, unlinked, profile, browsers, torn>>

ReadUsername(p) ==
  /\ cmd[p].pc \in {"checkUsername", "readUsername"}
  /\ LET r == cmd[p]
     IN Becomes(p, IF Whole(r.env)
                     THEN Resolved(r, [source |-> "env", pair |-> r.env])
                     ELSE IF keyring["username"] = NoAccount
                     THEN Resolved(r, FromFiles)
                     ELSE ThenPassword(r, keyring["username"]))
  /\ UNCHANGED <<keyring, secret, cookie, unlinked, profile, browsers, torn>>

(* Mutant of ReadPassword: the secret files go before the keyring. *)
ReadPasswordLast(p) ==
  /\ cmd[p].pc \in {"checkPassword", "readPassword"}
  /\ LET r == cmd[p]
         pair == [Both(r.name) EXCEPT !["password"] = keyring["password"]]
     IN Becomes(p, Resolved(r, IF Whole(pair) /\ ~Whole(secret)
                                 THEN [source |-> "keyring", pair |-> pair]
                                 ELSE FromFiles))
  /\ UNCHANGED <<keyring, secret, cookie, unlinked, profile, browsers, torn>>

ReadPassword(p) ==
  /\ cmd[p].pc \in {"checkPassword", "readPassword"}
  /\ LET r == cmd[p]
         pair == [Both(r.name) EXCEPT !["password"] = keyring["password"]]
     IN Becomes(p, Resolved(r, IF Whole(pair)
                                 THEN [source |-> "keyring", pair |-> pair]
                                 ELSE FromFiles))
  /\ UNCHANGED <<keyring, secret, cookie, unlinked, profile, browsers, torn>>

(* A keyring that is locked or not there counts as one without an entry.    *)
ReadFails(p) ==
  /\ cmd[p].pc \in {"checkUsername", "readUsername", "checkPassword", "readPassword"}
  /\ ~Whole(cmd[p].env)
  /\ Becomes(p, Resolved([cmd[p] EXCEPT !.keys = "disturbed"], FromFiles))
  /\ UNCHANGED <<keyring, secret, cookie, unlinked, profile, browsers, torn>>
-----------------------------------------------------------------------------
(* cookie::fetch: launch, login, perhaps again with a window, save.         *)

(* Chromium takes the profile unless another one holds the lock file in it. *)
Launch(p) ==
  /\ At(p, "launch") /\ (profile => browsers = {})
  /\ profile' = TRUE /\ browsers' = browsers \cup {p}
  /\ Becomes(p, [cmd[p] EXCEPT !.pc = "readUsername"])
  /\ UNCHANGED <<keyring, secret, cookie, unlinked, torn>>

(* The browser is closed, or abandoned when it takes more than 5 s.         *)
Closes(p) == browsers' \in {browsers, browsers \ {p}}

(* An MFA prompt needs a window: the same login with a visible browser.     *)
Relaunch(p) ==
  /\ At(p, "login") /\ ~cmd[p].headed
  /\ Closes(p)
  /\ Becomes(p, [cmd[p] EXCEPT !.pc = "launch", !.headed = TRUE, !.login = NoPair])
  /\ UNCHANGED <<keyring, secret, cookie, unlinked, profile, torn>>

(* The cookie is captured; of the login nothing else is needed any more.    *)
Capture(p) ==
  /\ At(p, "login") /\ Closes(p)
  /\ Becomes(p, [Fresh("truncate", cmd[p].kind, Nobody, cmd[p].goal)
                   EXCEPT !.mark = cmd[p].mark])
  /\ UNCHANGED <<keyring, secret, cookie, unlinked, profile, torn>>

(* No browser, no cookie, a stop signal, or the deadline.                   *)
LoginFails(p) ==
  /\ cmd[p].pc \in {"launch", "login"} /\ Closes(p)
  /\ Becomes(p, Over("failure"))
  /\ UNCHANGED <<keyring, secret, cookie, unlinked, profile, torn>>

(* write_cookie_file: fs::write opens and truncates, then writes; the mode
   is set by name afterwards, which fails if the name is gone.              *)
Truncate(p) ==
  /\ At(p, "truncate")
  /\ cookie' = "empty"
  /\ Changes(p, "cookie", [cmd[p] EXCEPT !.pc = "save"])
  /\ UNCHANGED <<keyring, secret, unlinked, profile, browsers, torn>>

Save(p) ==
  /\ At(p, "save")
  /\ cookie' = IF p \in unlinked THEN cookie ELSE "saved"
  /\ IF p \in unlinked
       THEN Becomes(p, Over(IF cookie = "absent" THEN "failure" ELSE "success"))
       ELSE Changes(p, "cookie", Over("success"))
  /\ unlinked' = unlinked \ {p}
  /\ UNCHANGED <<keyring, secret, profile, browsers, torn>>

(* Mutant of SaveFails: the error of write_cookie_file is dropped. *)
SaveFailsQuietly(p) ==
  /\ cmd[p].pc \in {"truncate", "save"}
  /\ Becomes(p, Over("success"))
  /\ unlinked' = unlinked \ {p}
  /\ UNCHANGED <<keyring, secret, cookie, profile, browsers, torn>>

SaveFails(p) ==
  /\ cmd[p].pc \in {"truncate", "save"}
  /\ \/ Becomes(p, Over("failure")) /\ UNCHANGED cookie
     \/ /\ At(p, "save") /\ p \notin unlinked /\ cookie' = "saved"
        /\ Changes(p, "cookie", Over("failure"))
  /\ unlinked' = unlinked \ {p}
  /\ UNCHANGED <<keyring, secret, profile, browsers, torn>>
-----------------------------------------------------------------------------
(* cmd_deauthenticate: every step is tried, whatever became of the others.  *)

DeleteUsername(p) ==
  /\ At(p, "deleteUsername")
  /\ keyring' = [keyring EXCEPT !["username"] = NoAccount]
  /\ Changes(p, "username", [cmd[p] EXCEPT !.pc = "deletePassword"])
  /\ UNCHANGED <<secret, cookie, unlinked, profile, browsers, torn>>

DeletePassword(p) ==
  /\ At(p, "deletePassword")
  /\ keyring' = [keyring EXCEPT !["password"] = NoAccount]
  /\ torn' = (cmd[p].mark["username"] # "mine")
  /\ Changes(p, "password", [cmd[p] EXCEPT !.pc = "removeCookie"])
  /\ UNCHANGED <<secret, cookie, unlinked, profile, browsers>>

(* Mutant of DeleteFails: a failed step ends the command. *)
DeleteFailsEnds(p) ==
  /\ cmd[p].pc \in {"deleteUsername", "deletePassword"}
  /\ torn' = (torn \/ Midway(p))
  /\ Becomes(p, Over("failure"))
  /\ UNCHANGED <<keyring, secret, cookie, unlinked, profile, browsers>>

(* delete_credentials returns at its first error.                           *)
DeleteFails(p) ==
  /\ cmd[p].pc \in {"deleteUsername", "deletePassword"}
  /\ torn' = (torn \/ Midway(p))
  /\ Becomes(p, [cmd[p] EXCEPT !.pc = "removeCookie",
                               !.failed = IF Midway(p) THEN {"password"} ELSE Entry])
  /\ UNCHANGED <<keyring, secret, cookie, unlinked, profile, browsers>>

RemoveCookie(p) ==
  /\ At(p, "removeCookie")
  /\ cookie' = "absent"
  /\ unlinked' = unlinked \cup {q \in Proc : At(q, "save")}
  /\ Changes(p, "cookie", [cmd[p] EXCEPT !.pc = "removeProfile"])
  /\ UNCHANGED <<keyring, secret, profile, browsers, torn>>

RemoveCookieFails(p) ==
  /\ At(p, "removeCookie") /\ cookie # "absent"
  /\ Becomes(p, [cmd[p] EXCEPT !.pc = "removeProfile", !.failed = @ \cup {"cookie"}])
  /\ UNCHANGED <<keyring, secret, cookie, unlinked, profile, browsers, torn>>

(* The lock file of a running Chromium goes with the directory.             *)
RemoveProfile(p) ==
  /\ At(p, "removeProfile")
  /\ profile' = FALSE
  /\ Becomes(p, Over(IF cmd[p].failed = {} THEN "success" ELSE "failure"))
  /\ UNCHANGED <<keyring, secret, cookie, unlinked, browsers, torn>>

RemoveProfileFails(p) ==
  /\ At(p, "removeProfile") /\ profile
  /\ Becomes(p, Over("failure"))
  /\ UNCHANGED <<keyring, secret, cookie, unlinked, profile, browsers, torn>>
-----------------------------------------------------------------------------
(* cmd_validate: no probe without a cookie; the exit code is the verdict.   *)

ReadCookie(p) ==
  /\ At(p, "validate")
  /\ Becomes(p, IF cookie = "saved" THEN [cmd[p] EXCEPT !.pc = "probe"]
                                    ELSE Over("invalid"))
  /\ UNCHANGED <<keyring, secret, cookie, unlinked, profile, browsers, torn>>

Probe(p) ==
  /\ At(p, "probe")
  /\ \E v \in {"success", "invalid", "unreachable"} : Becomes(p, Over(v))
  /\ UNCHANGED <<keyring, secret, cookie, unlinked, profile, browsers, torn>>
-----------------------------------------------------------------------------
(* The environment.                                                         *)

(* SIGKILL, a forced exit, or a signal before the handlers are installed.
   The browser may survive its parent.                                      *)
Kill(p) ==
  /\ Active(p) /\ Closes(p)
  /\ torn' = (torn \/ Midway(p))
  /\ Becomes(p, Over("killed"))
  /\ unlinked' = unlinked \ {p}
  /\ UNCHANGED <<keyring, secret, cookie, profile>>

BrowserExits(p) ==
  /\ p \in browsers /\ browsers' = browsers \ {p}
  /\ UNCHANGED <<cmd, keyring, secret, cookie, unlinked, profile, torn>>

(* A running Chromium saves its state: the directory may come back.         *)
BrowserWrites(p) ==
  /\ p \in browsers /\ ~profile /\ profile' = TRUE
  /\ UNCHANGED <<cmd, keyring, secret, cookie, unlinked, browsers, torn>>
-----------------------------------------------------------------------------
Init ==
  /\ cmd = [p \in Proc |-> Over("idle")]
  /\ keyring \in {Both(a) : a \in Account \cup {NoAccount}}
  /\ secret \in FilePairs
  /\ cookie \in {"absent", "saved"}
  /\ unlinked = {} /\ profile \in BOOLEAN /\ browsers = {} /\ torn = FALSE

Store(p) == PutUsername(p) \/ PutPassword(p) \/ PutFails(p)
Resolve(p) == ReadUsername(p) \/ ReadPassword(p) \/ ReadFails(p)
Login(p) == \/ Launch(p) \/ Relaunch(p) \/ Capture(p) \/ LoginFails(p)
            \/ Truncate(p) \/ Save(p) \/ SaveFails(p)
Erase(p) == \/ DeleteUsername(p) \/ DeletePassword(p) \/ DeleteFails(p)
            \/ RemoveCookie(p) \/ RemoveCookieFails(p)
            \/ RemoveProfile(p) \/ RemoveProfileFails(p)
Validate(p) == ReadCookie(p) \/ Probe(p)
Step(p) == Store(p) \/ Resolve(p) \/ Login(p) \/ Erase(p) \/ Validate(p)

Command(p) ==
  \/ Deauthenticate(p) \/ ValidateCookie(p)
  \/ \E env \in EnvPairs :
       \/ AuthenticateFromEnv(p, env) \/ RefreshToken(p, env)
       \/ SupervisorLogin(p, env)
       \/ \E a \in Account : Authenticate(p, env, a)

Next == \E p \in Proc :
          Step(p) \/ Command(p) \/ Kill(p) \/ BrowserExits(p) \/ BrowserWrites(p)

Spec == Init /\ [][Next]_vars
-----------------------------------------------------------------------------
(* Properties.                                                              *)

Pc == Ended \cup
  {"putUsername", "putPassword", "checkUsername", "checkPassword", "launch",
   "readUsername", "readPassword", "login", "truncate", "save",
   "deleteUsername", "deletePassword", "removeCookie", "removeProfile",
   "validate", "probe"}
Found == [source : {"none", "env", "keyring", "files"}, pair : Pairs]
Commands ==
  [pc : Pc, kind : Kinds, env : Pairs, goal : Account \cup {NoAccount},
   headed : BOOLEAN, name : Account \cup {NoAccount}, login : Found,
   mark : [Item -> {"untouched", "mine", "others"}], failed : SUBSET Item, keys : {"quiet", "disturbed"}]

(* Every variable stays in its range.                                       *)
TypeOK ==
  /\ cmd \in [Proc -> Commands]
  /\ keyring \in Pairs /\ secret \in Pairs
  /\ cookie \in {"absent", "empty", "saved"}
  /\ unlinked \subseteq Proc /\ browsers \subseteq Proc
  /\ profile \in BOOLEAN /\ torn \in BOOLEAN

(* The keyring holds one account's pair, or none, unless a command is between
   its two keyring calls, was cut off there, or another one overtook it: the
   two entries come apart in no other way.                                  *)
KeyringPaired ==
  keyring["username"] # keyring["password"] => torn \/ \E p \in Proc : Midway(p)

(* The pair a login fills in comes whole from one source: the environment if
   that is whole, else the keyring, else the secret files.  A keyring pair
   belongs to one account unless the keyring was changed or was not paired
   while it was read.                                                       *)
OneSource ==
  \A p \in Proc : At(p, "login") =>
    LET found == cmd[p].login
        same  == found.pair["username"] = found.pair["password"]
    IN CASE found.source = "env" -> Whole(cmd[p].env) /\ found.pair = cmd[p].env
         [] found.source = "files" ->
              ~Whole(cmd[p].env) /\ Whole(secret) /\ found.pair = secret
         [] found.source = "keyring" ->
              /\ ~Whole(cmd[p].env)
              /\ Quiet(cmd[p]) /\ ~same => torn \/ \E q \in Proc : Midway(q)
         [] OTHER -> ~Whole(cmd[p].env) /\ ~Whole(secret)

(* refresh_token refuses to start without credentials, and then its login has
   some: it looks twice, and only another command or a failing keyring can
   make the second look find less than the first.                           *)
RefreshHasCredentials ==
  \A p \in Proc :
    At(p, "login") /\ cmd[p].kind = "refresh_token" /\ Quiet(cmd[p])
      => cmd[p].login.source # "none"

(* authenticate logs in with what it has just stored, unless the environment
   overrides it or somebody else touched the keyring.                       *)
StoredPairUsed ==
  \A p \in Proc :
    At(p, "login") /\ cmd[p].kind = "authenticate" /\ Quiet(cmd[p]) /\ ~Whole(cmd[p].env)
      => cmd[p].login.pair = Both(cmd[p].goal)

(* A login finds what its command made sure of before it: vpn_credentials is
   evaluated afresh after the browser has started.                          *)
LoginFindsCredentials == RefreshHasCredentials /\ StoredPairUsed

(* A login command that reports success has left behind what it was asked
   for, except for what others changed in between: a saved cookie, and for
   authenticate its pair in the keyring.                                    *)
Ends(p, outcome) == Active(p) /\ cmd'[p].pc = outcome
SuccessIsDone ==
  [][\A p \in Proc :
       Ends(p, "success") /\ cmd[p].kind \in {"authenticate", "refresh_token", "supervisor"}
         => /\ cookie' = "saved" \/ cmd[p].mark["cookie"] = "others"
            /\ cmd[p].kind = "authenticate" =>
                 \A e \in Entry : keyring'[e] = cmd[p].goal \/ cmd[p].mark[e] = "others"]_vars

(* deauthenticate removes what it can although another step failed, and
   reports success only if nothing is left but what others put there after it
   had removed it.                                                          *)
DeauthenticateErases ==
  [][\A p \in Proc :
       cmd[p].kind = "deauthenticate" /\ (Ends(p, "success") \/ Ends(p, "failure"))
         => LET left == {e \in Entry : keyring'[e] # NoAccount}
                          \cup (IF cookie' = "absent" THEN {} ELSE {"cookie"})
                others == {i \in Item : cmd[p].mark[i] = "others"}
            IN /\ left \subseteq others \cup cmd[p].failed
               /\ Ends(p, "success") => left \subseteq others /\ ~profile']_vars
=============================================================================
