----------------------------- MODULE CredStore -----------------------------
(***************************************************************************)
(* The credentials file of internal/creds and the commands that read it,   *)
(* replace it and send what it holds: auth login, auth logout, keys create *)
(* (with and without --login), the money commands with the credential      *)
(* check of a resume, and the reads, each with FERRY_TOKEN set or not.     *)
(*                                                                         *)
(* A command loads the whole file (noun.OpenLocal), chooses a credential,  *)
(* sends at most one request that matters here, changes its copy and saves *)
(* it whole.  There is no lock.  A URL stands for the deployment behind    *)
(* it, and a token for its prefix, its class and its principal.            *)
(***************************************************************************)
EXTENDS Naturals, FiniteSets

CONSTANTS
    Procs,      \* ferry processes
    Profiles,   \* --profile
    URLs,       \* API URLs, normalised
    APIKeys,    \* tokens of the shape ferry_sk_
    PATs,       \* tokens of the shape ferry_pat_
    Runs,       \* run ids
    None,       \* an absent flag, slot or principal
    Home,       \* Home[t]: the deployment that issues token t
    Pastable,   \* tokens that exist before any command, and are in circulation
    Commands    \* the command lines callers use

Tokens == APIKeys \cup PATs
Classes == {"api_key", "pat"}

\* Classify, by the shape of the token alone.
Class(t) == IF t \in APIKeys THEN "api_key" ELSE "pat"

Verbs == {"login", "logout", "mint", "read", "create", "resume"}

\* token is what login reads from stdin, class is logout's --class, env the
\* value of FERRY_TOKEN, login the flag of keys create.
CommandLines == [verb : Verbs, profile : Profiles, api : URLs \cup {None}, token : Tokens \cup {None},
                 class : Classes \cup {None}, env : Tokens \cup {None}, login : BOOLEAN]

ASSUME CredAssumption ==
    /\ APIKeys \cap PATs = {}
    /\ None \notin Procs \cup Profiles \cup URLs \cup Tokens \cup Runs \cup Classes
    /\ Home \in [Tokens -> URLs]
    /\ Pastable \subseteq Tokens
    /\ Commands \subseteq CommandLines

VARIABLES
    disk,      \* disk[f]: profile f of the credentials file
    doc,       \* doc[p]: the copy p loaded and changes
    base,      \* base[p]: history, the file as p loaded it
    pc,        \* idle, sent (a request is under way) or saving
    cmd,       \* cmd[p]: the command line
    request,   \* request[p]: what p has sent
    record,    \* record[r]: what run r's record says of its credential
    issued,    \* tokens the deployments have issued
    verified,  \* history: <<t, u>> when u answered for t, or minted it
    carried    \* history: carried[r], the tokens requests of run r carried

vars == <<disk, doc, base, pc, cmd, request, record, issued, verified, carried>>

NoProfile == [url |-> None, api_key |-> None, pat |-> None]

\* A Profile; one without a URL cannot be made, so url = None is no profile.
ProfileSet == [url : URLs \cup {None}, api_key : APIKeys \cup {None}, pat : PATs \cup {None}]
Files == [Profiles -> ProfileSet]

NoRequest == [token |-> None, url |-> None, from |-> "none", run |-> None]
NoRecord == [token |-> None, principal |-> None]

Blank == [verb |-> "none"]

TypeOK ==
    /\ disk \in Files /\ doc \in [Procs -> Files] /\ base \in [Procs -> Files]
    /\ pc \in [Procs -> {"idle", "sent", "saving"}]
    /\ cmd \in [Procs -> Commands \cup {Blank}]
    /\ request \in [Procs -> [token : Tokens \cup {None}, url : URLs \cup {None},
                              from : {"none", "pasted", "file", "env"}, run : Runs \cup {None}]]
    /\ record \in [Runs -> [token : APIKeys \cup {None}, principal : Tokens \cup {None}]]
    /\ issued \subseteq Tokens /\ verified \subseteq Tokens \X URLs
    /\ carried \in [Runs -> SUBSET Tokens]

EmptyFile == [f \in Profiles |-> NoProfile]

Init ==
    /\ disk = EmptyFile
    /\ doc = [p \in Procs |-> EmptyFile] /\ base = [p \in Procs |-> EmptyFile]
    /\ pc = [p \in Procs |-> "idle"]
    /\ cmd = [p \in Procs |-> Blank]
    /\ request = [p \in Procs |-> NoRequest]
    /\ record = [r \in Runs |-> NoRecord]
    /\ issued = Pastable /\ verified = {}
    /\ carried = [r \in Runs |-> {}]

-----------------------------------------------------------------------------
(* creds.File.                                                             *)

\* Variant: a profile takes the URL of the last credential put on it.
MayRebind(file, f, url) == TRUE

\* Put refuses to bind a profile to a second URL.
MayPut(file, f, url) == file[f].url \in {None, url}

\* Variant: the shape of the token is not looked at.
PutInTheKeySlot(file, f, url, t) == [file EXCEPT ![f].url = url, ![f].api_key = t]

\* Variant: the profile is made anew.
PutAlone(file, f, url, t) == [file EXCEPT ![f] = [NoProfile EXCEPT !.url = url, ![Class(t)] = t]]

Put(file, f, url, t) == [file EXCEPT ![f].url = url, ![f][Class(t)] = t]

\* Remove: one slot, which leaves the profile bound, or the profile.
Remove(file, f, class) ==
    IF class = None THEN [file EXCEPT ![f] = NoProfile] ELSE [file EXCEPT ![f][class] = None]

\* The classes an operation takes.
Wanted(verb) ==
    CASE verb \in {"create", "resume"} -> {"api_key"}
      [] verb = "mint" -> {"pat"}
      [] verb = "read" -> Classes

\* The token For returns, None when it refuses; an API key is preferred.
For(file, verb, f, api) ==
    LET held == {c \in Wanted(verb) : file[f][c] # None} IN
    IF file[f].url = None \/ api \notin {None, file[f].url} \/ held = {} THEN None
    ELSE file[f][IF "api_key" \in held THEN "api_key" ELSE "pat"]

\* The URL a FERRY_TOKEN is put on the profile for: the one asked for, else
\* the profile's.
OverrideURL(file, c) == IF c.api # None THEN c.api ELSE file[c.profile].url

\* tokenOverride: the file as the session sees it, or none when it refuses.
Seen(file, c) ==
    IF c.env = None THEN {file}
    ELSE LET url == OverrideURL(file, c) IN
         IF url = None \/ ~MayPut(file, c.profile, url) THEN {}
         ELSE {Put(file, c.profile, url, c.env)}

-----------------------------------------------------------------------------
(* The commands, up to their request.                                      *)

Load(p, c) ==
    /\ pc[p] = "idle"
    /\ cmd' = [cmd EXCEPT ![p] = c]
    /\ base' = [base EXCEPT ![p] = disk]

Sends(p, t, url, from, r) ==
    /\ pc' = [pc EXCEPT ![p] = "sent"]
    /\ request' = [request EXCEPT ![p] = [token |-> t, url |-> url, from |-> from, run |-> r]]
    /\ carried' = IF r = None THEN carried ELSE [carried EXCEPT ![r] = @ \cup {t}]

\* login sends the pasted token to the URL it was given, and there must be
\* one; what the profile is bound to is not looked at yet.
Login(p, c) ==
    /\ c.verb = "login" /\ c.api # None /\ c.token # None
    /\ Load(p, c)
    /\ doc' = [doc EXCEPT ![p] = disk]
    /\ Sends(p, c.token, c.api, "pasted", None)
    /\ UNCHANGED <<disk, record, issued, verified>>

\* logout sends nothing.
Logout(p, c) ==
    /\ c.verb = "logout" /\ disk[c.profile].url # None
    /\ Load(p, c)
    /\ doc' = [doc EXCEPT ![p] = Remove(disk, c.profile, c.class)]
    /\ pc' = [pc EXCEPT ![p] = "saving"]
    /\ UNCHANGED <<disk, request, record, issued, verified, carried>>

\* Variant: FERRY_TOKEN is put on the file itself.
CopyWithOverride(file, seen) == seen

\* The copy a session may save later is the file without the override.
Copy(file, seen) == file

\* noun.Session for any other command, with what it found and chose.
Session(p, c, seen, t, r) ==
    /\ Load(p, c)
    /\ t # None
    /\ doc' = [doc EXCEPT ![p] = Copy(disk, seen)]
    /\ Sends(p, t, seen[c.profile].url, IF t = c.env THEN "env" ELSE "file", r)
    /\ UNCHANGED <<disk, issued, verified>>

\* keys create and the reads.
Ask(p, c) ==
    /\ c.verb \in {"mint", "read"}
    /\ \E seen \in Seen(disk, c) : Session(p, c, seen, For(seen, c.verb, c.profile, c.api), None)
    /\ UNCHANGED record

\* The principal a match carries: login and keys create stored it with the
\* token, FERRY_TOKEN has none.
Principal(c, t) == IF t = c.env THEN None ELSE t

\* A money command records the credential with the run before it sends.
CreateRun(p, c, r) ==
    /\ c.verb = "create" /\ record[r] = NoRecord
    /\ \E seen \in Seen(disk, c) :
          LET t == For(seen, c.verb, c.profile, c.api) IN
          /\ Session(p, c, seen, t, r)
          /\ record' = [record EXCEPT ![r] = [token |-> t, principal |-> Principal(c, t)]]

\* Variant: the principal alone is compared.
SamePrincipal(r, c, t) == None \in {record[r].principal, Principal(c, t)} \/ record[r].principal = Principal(c, t)

\* checkCredential: the prefix, and the principal where both sides have one.
SameCredential(r, c, t) ==
    /\ record[r].token = t
    /\ None \in {record[r].principal, Principal(c, t)} \/ record[r].principal = Principal(c, t)

ResumeRun(p, c, r) ==
    /\ c.verb = "resume" /\ record[r] # NoRecord
    /\ \E seen \in Seen(disk, c) :
          LET t == For(seen, c.verb, c.profile, c.api) IN
          SameCredential(r, c, t) /\ Session(p, c, seen, t, r)
    /\ UNCHANGED record

-----------------------------------------------------------------------------
(* The answer, and the save.                                               *)

Ends(p) ==
    /\ pc' = [pc EXCEPT ![p] = "idle"]
    /\ cmd' = [cmd EXCEPT ![p] = Blank]
    /\ request' = [request EXCEPT ![p] = NoRequest]
    /\ doc' = [doc EXCEPT ![p] = EmptyFile]
    /\ base' = [base EXCEPT ![p] = EmptyFile]

\* The new token is put on p's copy, or Put refuses and the command faults.
Store(p, url, t) ==
    LET f == cmd[p].profile IN
    IF MayPut(doc[p], f, url)
    THEN /\ doc' = [doc EXCEPT ![p] = Put(doc[p], f, url, t)]
         /\ pc' = [pc EXCEPT ![p] = "saving"]
         /\ UNCHANGED <<cmd, request, base>>
    ELSE Ends(p)

\* A 200 to login's GET /v1/me.
Verified(p) ==
    LET q == request[p] IN
    /\ pc[p] = "sent" /\ cmd[p].verb = "login"
    /\ q.token \in issued /\ Home[q.token] = q.url
    /\ verified' = verified \cup {<<q.token, q.url>>}
    /\ Store(p, q.url, q.token)
    /\ UNCHANGED <<disk, record, issued, carried>>

\* A 201 to keys create; --login stores the key beside the file as it was
\* loaded, for the URL the request went to.
Minted(p, t) ==
    LET q == request[p] IN
    /\ pc[p] = "sent" /\ cmd[p].verb = "mint"
    /\ q.token \in issued /\ Home[q.token] = q.url
    /\ t \in APIKeys \ issued /\ Home[t] = q.url
    /\ issued' = issued \cup {t}
    /\ verified' = verified \cup {<<t, q.url>>}
    /\ IF cmd[p].login THEN Store(p, q.url, t) ELSE Ends(p)
    /\ UNCHANGED <<disk, record, carried>>

\* Any other answer, none, or one to a command that stores nothing.
Unstored(p) ==
    /\ pc[p] = "sent"
    /\ Ends(p)
    /\ UNCHANGED <<disk, record, issued, verified, carried>>

\* Save replaces the file, or fails with the old or the new one in place.
Save(p) ==
    /\ pc[p] = "saving"
    /\ disk' \in {disk, doc[p]}
    /\ Ends(p)
    /\ UNCHANGED <<record, issued, verified, carried>>

\* A signal or a crash.
Die(p) ==
    /\ pc[p] # "idle"
    /\ Ends(p)
    /\ UNCHANGED <<disk, record, issued, verified, carried>>

Next ==
    \E p \in Procs :
        \/ \E c \in Commands :
              \/ Login(p, c) \/ Logout(p, c) \/ Ask(p, c)
              \/ \E r \in Runs : CreateRun(p, c, r) \/ ResumeRun(p, c, r)
        \/ Verified(p) \/ Unstored(p) \/ Save(p) \/ Die(p)
        \/ \E t \in APIKeys : Minted(p, t)

Spec == Init /\ [][Next]_vars

-----------------------------------------------------------------------------
(* Properties.                                                             *)

\* What the file holds of a profile was verified at the URL of the profile,
\* or minted there, whichever commands raced to write it. A FERRY_TOKEN, which
\* nothing verified, is never in it, also when keys create --login saved the
\* file of a session that had one (C7, AC9, 5.2).
BoundWhereVerified ==
    \A f \in Profiles, c \in Classes :
        disk[f][c] # None => <<disk[f][c], disk[f].url>> \in verified

\* A token taken from the file leaves only for the URL it was verified at,
\* which is the one asked for if there is one, and for an operation that takes
\* its class, whatever --api, FERRY_TOKEN or another command's login say (C7,
\* C15).
FileTokensGoHome ==
    \A p \in Procs : request[p].from = "file" =>
        /\ <<request[p].token, request[p].url>> \in verified
        /\ cmd[p].api \in {None, request[p].url}
        /\ Class(request[p].token) \in Wanted(cmd[p].verb)

\* All requests of a run carry the credential that started it, whatever
\* happens to the store between the commands and whether the file or
\* FERRY_TOKEN supplied it (C19).
OneCredentialPerRun == \A r \in Runs : Cardinality(carried[r]) <= 1

\* The classes a command is about.
Named(c) ==
    IF c.verb = "logout" THEN IF c.class = None THEN Classes ELSE {c.class}
    ELSE IF c.verb = "login" THEN {Class(c.token)} ELSE {"api_key"}

\* A save changes a slot its command does not name only by undoing a change
\* made since it loaded the file: by itself no command touches the other
\* class or another profile.
OnlyARaceLosesASlot ==
    [][\A p \in Procs : (pc[p] = "saving" /\ pc'[p] = "idle") =>
         \A f \in Profiles, c \in Classes :
            \/ f = cmd[p].profile /\ c \in Named(cmd[p])
            \/ disk'[f][c] \in {disk[f][c], base[p][f][c]}]_vars
=============================================================================
