-------------------------- MODULE CredStoreProofs --------------------------
(***************************************************************************)
(* Proofs about CredStore for any number of processes, profiles, URLs,     *)
(* tokens and runs, and any command lines.                                 *)
(*                                                                         *)
(* There is no lock, so what protects the file is a property of every copy *)
(* that may be saved over it: each is Bound by itself, a save replaces one *)
(* such file by another, and Put, Remove and the override keep it.         *)
(***************************************************************************)
EXTENDS CredStore, FiniteSetTheorems, TLAPS

\* Every token of a file was verified, as `known` has it, at its profile's URL.
Bound(file, known) ==
    \A f \in Profiles, c \in Classes :
        file[f][c] # None => <<file[f][c], file[f].url>> \in known

CopiesBound == \A p \in Procs : Bound(doc[p], verified)

\* A process that runs has a command line, one that waits for an answer has
\* sent a token to a URL, and an idle one has nothing of an earlier command.
Situated ==
    \A p \in Procs :
        /\ pc[p] = "idle" => request[p] = NoRequest
        /\ pc[p] # "idle" => cmd[p] \in Commands
        /\ pc[p] = "sent" => request[p].token \in Tokens /\ request[p].url \in URLs

\* What a run has sent is the token its record names.
CarriedAsRecorded == \A r \in Runs : carried[r] \subseteq {record[r].token} \ {None}

CredInv ==
    /\ TypeOK
    /\ Situated
    /\ Bound(disk, verified)
    /\ CopiesBound
    /\ FileTokensGoHome
    /\ CarriedAsRecorded

-----------------------------------------------------------------------------
(* The operations on a file.                                               *)

LEMMA ClassFits ==
    ASSUME NEW t \in Tokens
    PROVE  /\ Class(t) \in Classes
           /\ Class(t) = "api_key" => t \in APIKeys
           /\ Class(t) = "pat" => t \in PATs
           /\ t # None
  BY CredAssumption DEF Class, Classes, Tokens

LEMMA FileFits ==
    ASSUME NEW file \in Files, NEW f \in Profiles
    PROVE  /\ file[f] \in ProfileSet
           /\ file[f].url \in URLs \cup {None}
           /\ \A c \in Classes : file[f][c] \in Tokens \cup {None}
           /\ \A c \in Classes : file[f][c] # None => Class(file[f][c]) = c
  BY CredAssumption DEF Files, ProfileSet, Classes, Class, Tokens

\* Put changes the slot of the token's class and the URL, of one profile.
LEMMA PutFits ==
    ASSUME NEW file \in Files, NEW f \in Profiles, NEW url \in URLs, NEW t \in Tokens
    PROVE  /\ Put(file, f, url, t) \in Files
           /\ Put(file, f, url, t)[f].url = url
           /\ Put(file, f, url, t)[f][Class(t)] = t
           /\ \A c \in Classes \ {Class(t)} : Put(file, f, url, t)[f][c] = file[f][c]
           /\ \A g \in Profiles \ {f} : Put(file, f, url, t)[g] = file[g]
<1>1. CASE Class(t) = "api_key"
  BY <1>1, ClassFits DEF Put, Files, ProfileSet, Classes
<1>2. CASE Class(t) = "pat"
  BY <1>2, ClassFits DEF Put, Files, ProfileSet, Classes
<1>3. QED
  BY <1>1, <1>2, ClassFits DEF Classes

\* A verified token put where MayPut allows it leaves the file bound: the
\* other slot of the profile was bound to the same URL, or empty.
LEMMA PutKeepsBound ==
    ASSUME NEW file \in Files, NEW f \in Profiles, NEW url \in URLs, NEW t \in Tokens,
           NEW known \in SUBSET (Tokens \X URLs),
           Bound(file, known), MayPut(file, f, url), <<t, url>> \in known
    PROVE  Bound(Put(file, f, url, t), known)
<1> DEFINE new == Put(file, f, url, t)
<1> SUFFICES ASSUME NEW g \in Profiles, NEW c \in Classes, new[g][c] # None
             PROVE  <<new[g][c], new[g].url>> \in known
  BY DEF Bound
<1>1. CASE g # f
  BY <1>1, PutFits DEF Bound
<1>2. CASE g = f /\ c = Class(t)
  BY <1>2, PutFits
<1>3. CASE g = f /\ c # Class(t)
  <2>1. new[f][c] = file[f][c] /\ new[f].url = url
    BY <1>3, PutFits
  <2>2. <<file[f][c], file[f].url>> \in known
    BY <1>3, <2>1 DEF Bound
  <2>3. file[f].url \in URLs
    BY <2>2
  <2>4. file[f].url = url
    BY <2>3, CredAssumption DEF MayPut
  <2>5. QED
    BY <1>3, <2>1, <2>2, <2>4
<1>4. QED
  BY <1>1, <1>2, <1>3

LEMMA RemoveFits ==
    ASSUME NEW file \in Files, NEW f \in Profiles, NEW class \in Classes \cup {None},
           NEW known, Bound(file, known)
    PROVE  Remove(file, f, class) \in Files /\ Bound(Remove(file, f, class), known)
<1> USE DEF Remove, Files, ProfileSet, Classes, NoProfile, Bound
<1>1. CASE class = None
  BY <1>1
<1>2. CASE class = "api_key"
  BY <1>2, CredAssumption
<1>3. CASE class = "pat"
  BY <1>3, CredAssumption
<1>4. QED
  BY <1>1, <1>2, <1>3

LEMMA EmptyFits ==
    EmptyFile \in Files /\ \A known : Bound(EmptyFile, known)
  BY DEF EmptyFile, NoProfile, Files, ProfileSet, Bound, Classes

\* What For returns is a slot of the profile, of a class the operation takes,
\* of a profile that is bound to the URL asked for.
LEMMA ForFits ==
    ASSUME NEW file \in Files, NEW f \in Profiles, NEW verb \in {"mint", "read", "create", "resume"},
           NEW api, For(file, verb, f, api) # None
    PROVE  \E c \in Wanted(verb) \cap Classes :
              /\ For(file, verb, f, api) = file[f][c]
              /\ file[f].url \in URLs
              /\ api \in {None, file[f].url}
<1> DEFINE held == {c \in Wanted(verb) : file[f][c] # None}
<1>1. Wanted(verb) \subseteq Classes
  BY DEF Wanted, Classes
<1>2. /\ file[f].url # None /\ api \in {None, file[f].url} /\ held # {}
      /\ For(file, verb, f, api) = file[f][IF "api_key" \in held THEN "api_key" ELSE "pat"]
  BY DEF For
<1>3. (IF "api_key" \in held THEN "api_key" ELSE "pat") \in held
  BY <1>1, <1>2 DEF Classes
<1>4. QED
  BY <1>1, <1>2, <1>3, FileFits

\* A session sees a file of the right shape; the token it takes, unless it is
\* the override, was verified at the URL it goes to.
LEMMA SeenFits ==
    ASSUME NEW file \in Files, NEW c \in CommandLines, NEW seen \in Seen(file, c),
           NEW known \in SUBSET (Tokens \X URLs), Bound(file, known),
           c.verb \in {"mint", "read", "create", "resume"},
           NEW t, t = For(seen, c.verb, c.profile, c.api), t # None
    PROVE  /\ t \in Tokens /\ seen[c.profile].url \in URLs
           /\ c.api \in {None, seen[c.profile].url}
           /\ Class(t) \in Wanted(c.verb)
           /\ t # c.env => <<t, seen[c.profile].url>> \in known
<1> DEFINE f == c.profile
           url == OverrideURL(file, c)
<1>1. f \in Profiles /\ c.env \in Tokens \cup {None} /\ c.api \in URLs \cup {None}
  BY DEF CommandLines
<1>2. c.env # None => url \in URLs /\ MayPut(file, f, url) /\ seen = Put(file, f, url, c.env)
  BY <1>1, FileFits, CredAssumption DEF Seen, OverrideURL
<1>3. c.env = None => seen = file
  BY DEF Seen
<1>4. seen \in Files
  BY <1>1, <1>2, <1>3, PutFits
<1>5. PICK k \in Wanted(c.verb) \cap Classes :
         t = seen[f][k] /\ seen[f].url \in URLs /\ c.api \in {None, seen[f].url}
  BY <1>1, <1>4, ForFits
<1>6. t \in Tokens /\ Class(t) = k
  BY <1>1, <1>4, <1>5, FileFits
<1>7. ASSUME t # c.env
      PROVE  <<t, seen[f].url>> \in known
  <2>1. CASE c.env = None
    BY <1>1, <1>3, <1>5, <2>1 DEF Bound
  <2>2. CASE c.env # None
    <3>1. k # Class(c.env) /\ seen[f].url = url
      BY <1>1, <1>2, <1>5, <1>7, <2>2, PutFits
    <3>2. t = file[f][k]
      BY <1>1, <1>2, <1>5, <2>2, <3>1, PutFits
    <3>3. <<t, file[f].url>> \in known
      BY <1>1, <1>5, <3>2 DEF Bound
    <3>4. file[f].url = url
      BY <1>2, <2>2, <3>3, CredAssumption DEF MayPut
    <3>5. QED
      BY <3>1, <3>3, <3>4
  <2>3. QED
    BY <2>1, <2>2
<1>8. QED
  BY <1>5, <1>6, <1>7

-----------------------------------------------------------------------------
(* What the actions share.                                                 *)

LEMMA BoundGrows ==
    ASSUME NEW file, NEW known, NEW more, known \subseteq more, Bound(file, known)
    PROVE  Bound(file, more)
  BY DEF Bound

\* A command that ends leaves nothing behind in its process.
LEMMA EndsFits ==
    ASSUME CredInv, NEW p \in Procs, Ends(p),
           disk' \in Files, Bound(disk', verified'),
           issued' \subseteq Tokens, verified' \subseteq Tokens \X URLs, verified \subseteq verified',
           UNCHANGED <<record, carried>>
    PROVE  CredInv'
<1> USE DEF CredInv
<1>1. TypeOK'
  BY EmptyFits DEF TypeOK, Ends, NoRequest
<1>2. Situated'
  BY DEF TypeOK, Situated, Ends
<1>3. CopiesBound'
  <2> SUFFICES ASSUME NEW q \in Procs PROVE Bound(doc'[q], verified')
    BY DEF CopiesBound
  <2>1. CASE q = p
    BY <2>1, EmptyFits DEF Ends, TypeOK
  <2>2. CASE q # p
    BY <2>2, BoundGrows DEF Ends, TypeOK, CopiesBound
  <2>3. QED
    BY <2>1, <2>2
<1>4. FileTokensGoHome'
  BY DEF FileTokensGoHome, Ends, TypeOK, NoRequest
<1>5. CarriedAsRecorded'
  BY DEF CarriedAsRecorded
<1>6. QED
  BY <1>1, <1>2, <1>3, <1>4, <1>5

\* A token that was verified at the URL of the request is stored, or refused.
LEMMA StoreFits ==
    ASSUME CredInv, NEW p \in Procs, pc[p] = "sent",
           NEW t \in Tokens, <<t, request[p].url>> \in verified', Store(p, request[p].url, t),
           issued' \subseteq Tokens, verified' \subseteq Tokens \X URLs, verified \subseteq verified',
           UNCHANGED <<disk, record, carried>>
    PROVE  CredInv'
<1> USE DEF CredInv
<1> DEFINE f == cmd[p].profile
           url == request[p].url
<1>1. f \in Profiles /\ url \in URLs /\ doc[p] \in Files /\ disk \in Files
  BY CredAssumption DEF Situated, CommandLines, TypeOK
<1>2. Bound(disk, verified') /\ \A q \in Procs : Bound(doc[q], verified')
  BY BoundGrows DEF CopiesBound
<1>3. CASE ~MayPut(doc[p], f, url)
  <2>1. Ends(p)
    BY <1>3 DEF Store
  <2>2. QED
    BY <1>1, <1>2, <2>1, EndsFits
<1>4. CASE MayPut(doc[p], f, url)
  <2>1. /\ doc' = [doc EXCEPT ![p] = Put(doc[p], f, url, t)]
        /\ pc' = [pc EXCEPT ![p] = "saving"]
        /\ UNCHANGED <<cmd, request, base>>
    BY <1>4 DEF Store
  <2>2. /\ Put(doc[p], f, url, t) \in Files
        /\ Bound(Put(doc[p], f, url, t), verified')
    BY <1>1, <1>2, <1>4, PutFits, PutKeepsBound
  <2>3. TypeOK'
    BY <2>1, <2>2 DEF TypeOK
  <2>4. Situated'
    BY <2>1 DEF TypeOK, Situated
  <2>5. CopiesBound'
    BY <1>2, <2>1, <2>2 DEF CopiesBound, TypeOK
  <2>6. FileTokensGoHome'
    BY <2>1 DEF FileTokensGoHome
  <2>7. CarriedAsRecorded'
    BY DEF CarriedAsRecorded
  <2>8. QED
    BY <1>1, <1>2, <2>3, <2>4, <2>5, <2>6, <2>7
<1>5. QED
  BY <1>3, <1>4

\* A command that loads the file and sends a token.
LEMMA SendsFits ==
    ASSUME CredInv, NEW p \in Procs, NEW c \in Commands, Load(p, c), doc' = [doc EXCEPT ![p] = disk],
           NEW t \in Tokens, NEW url \in URLs, NEW from \in {"pasted", "file", "env"},
           NEW r \in Runs \cup {None}, Sends(p, t, url, from, r),
           from = "file" => /\ <<t, url>> \in verified
                            /\ c.api \in {None, url}
                            /\ Class(t) \in Wanted(c.verb),
           record' \in [Runs -> [token : APIKeys \cup {None}, principal : Tokens \cup {None}]],
           r # None => record'[r].token = t /\ record[r].token \in {None, t},
           \A o \in Runs \ {r} : record'[o] = record[o],
           UNCHANGED <<disk, issued, verified>>
    PROVE  CredInv'
<1> USE DEF CredInv
<1>1. TypeOK'
  BY DEF TypeOK, Load, Sends
<1>2. Situated'
  BY DEF TypeOK, Situated, Load, Sends
<1>3. CopiesBound'
  BY DEF CopiesBound, TypeOK
<1>4. FileTokensGoHome'
  <2> SUFFICES ASSUME NEW q \in Procs, request'[q].from = "file"
               PROVE  /\ <<request'[q].token, request'[q].url>> \in verified
                      /\ cmd'[q].api \in {None, request'[q].url}
                      /\ Class(request'[q].token) \in Wanted(cmd'[q].verb)
    BY DEF FileTokensGoHome
  <2>1. CASE q = p
    <3>1. request'[q] = [token |-> t, url |-> url, from |-> from, run |-> r] /\ cmd'[q] = c
      BY <2>1 DEF Load, Sends, TypeOK
    <3>2. QED
      BY <3>1
  <2>2. CASE q # p
    <3>1. request'[q] = request[q] /\ cmd'[q] = cmd[q]
      BY <2>2 DEF Load, Sends, TypeOK
    <3>2. QED
      BY <3>1 DEF FileTokensGoHome
  <2>3. QED
    BY <2>1, <2>2
<1>5. CarriedAsRecorded'
  <2> SUFFICES ASSUME NEW o \in Runs
               PROVE  carried'[o] \subseteq {record'[o].token} \ {None}
    BY DEF CarriedAsRecorded
  <2>1. CASE o # r
    BY <2>1 DEF CarriedAsRecorded, Sends, TypeOK
  <2>2. CASE o = r
    <3>1. r # None /\ carried'[o] = carried[o] \cup {t}
      BY <2>2, CredAssumption DEF Sends, TypeOK
    <3>2. carried[o] \subseteq {record[o].token} \ {None}
      BY DEF CarriedAsRecorded
    <3>3. QED
      BY <2>2, <3>1, <3>2, ClassFits
  <2>3. QED
    BY <2>1, <2>2
<1>6. QED
  BY <1>1, <1>2, <1>3, <1>4, <1>5

-----------------------------------------------------------------------------
(* One lemma per action.                                                   *)

LEMMA LoginFits ==
    ASSUME CredInv, NEW p \in Procs, NEW c \in Commands, Login(p, c)
    PROVE  CredInv'
<1>1. c.token \in Tokens /\ c.api \in URLs
  BY CredAssumption DEF CommandLines, Login
<1>2. record' = record /\ record \in [Runs -> [token : APIKeys \cup {None}, principal : Tokens \cup {None}]]
  BY DEF Login, CredInv, TypeOK
<1>3. \A o \in Runs \ {None} : record'[o] = record[o]
  BY <1>2
<1>4. QED
  BY <1>1, <1>2, <1>3, SendsFits DEF Login

LEMMA LogoutFits ==
    ASSUME CredInv, NEW p \in Procs, NEW c \in Commands, Logout(p, c)
    PROVE  CredInv'
<1> USE DEF CredInv
<1> DEFINE new == Remove(disk, c.profile, c.class)
<1>1. c.profile \in Profiles /\ c.class \in Classes \cup {None} /\ disk \in Files
  BY CredAssumption DEF CommandLines, TypeOK
<1>2. new \in Files /\ Bound(new, verified)
  BY <1>1, RemoveFits
<1>3. request[p] = NoRequest
  BY DEF Logout, Load, Situated
<1>4. TypeOK'
  BY <1>2 DEF TypeOK, Logout, Load
<1>5. Situated'
  BY DEF TypeOK, Situated, Logout, Load
<1>6. CopiesBound'
  BY <1>2 DEF CopiesBound, TypeOK, Logout
<1>7. FileTokensGoHome'
  BY <1>3 DEF FileTokensGoHome, TypeOK, Logout, Load, NoRequest
<1>8. CarriedAsRecorded'
  BY DEF CarriedAsRecorded, Logout
<1>9. QED
  BY <1>4, <1>5, <1>6, <1>7, <1>8 DEF Logout

\* Session, with what its callers record.
LEMMA SessionFits ==
    ASSUME CredInv, NEW p \in Procs, NEW c \in Commands, NEW seen \in Seen(disk, c),
           c.verb \in {"mint", "read", "create", "resume"},
           NEW r \in Runs \cup {None}, NEW t, t = For(seen, c.verb, c.profile, c.api),
           Session(p, c, seen, t, r),
           record' \in [Runs -> [token : APIKeys \cup {None}, principal : Tokens \cup {None}]],
           r # None => record'[r].token = t /\ record[r].token \in {None, t},
           \A o \in Runs \ {r} : record'[o] = record[o]
    PROVE  CredInv'
<1> DEFINE url == seen[c.profile].url
           from == IF t = c.env THEN "env" ELSE "file"
<1>1. c \in CommandLines /\ disk \in Files /\ verified \in SUBSET (Tokens \X URLs) /\ Bound(disk, verified)
  BY CredAssumption DEF CredInv, TypeOK
<1>2. t # None
  BY DEF Session
<1>3. /\ t \in Tokens /\ url \in URLs
      /\ c.api \in {None, url}
      /\ Class(t) \in Wanted(c.verb)
      /\ t # c.env => <<t, url>> \in verified
  BY <1>1, <1>2, SeenFits
<1>4. /\ Load(p, c) /\ doc' = [doc EXCEPT ![p] = disk] /\ Sends(p, t, url, from, r)
      /\ UNCHANGED <<disk, issued, verified>>
  BY DEF Session, Copy
<1>5. from \in {"pasted", "file", "env"} /\ (from = "file" => t # c.env)
  OBVIOUS
<1>6. QED
  BY <1>3, <1>4, <1>5, SendsFits

LEMMA AskFits ==
    ASSUME CredInv, NEW p \in Procs, NEW c \in Commands, Ask(p, c)
    PROVE  CredInv'
<1>1. PICK seen \in Seen(disk, c) : Session(p, c, seen, For(seen, c.verb, c.profile, c.api), None)
  BY DEF Ask
<1>2. record' = record /\ record \in [Runs -> [token : APIKeys \cup {None}, principal : Tokens \cup {None}]]
  BY DEF Ask, CredInv, TypeOK
<1>3. \A o \in Runs \ {None} : record'[o] = record[o]
  BY <1>2
<1>4. c.verb \in {"mint", "read", "create", "resume"}
  BY DEF Ask
<1>5. QED
  BY <1>1, <1>2, <1>3, <1>4, SessionFits

\* A money command takes an API key.
LEMMA MoneyTakesKeys ==
    ASSUME CredInv, NEW c \in Commands, NEW seen \in Seen(disk, c), c.verb \in {"create", "resume"},
           NEW t, t = For(seen, c.verb, c.profile, c.api), t # None
    PROVE  t \in APIKeys
<1>1. c \in CommandLines /\ disk \in Files /\ verified \in SUBSET (Tokens \X URLs) /\ Bound(disk, verified)
  BY CredAssumption DEF CredInv, TypeOK
<1>2. t \in Tokens /\ Class(t) \in Wanted(c.verb)
  BY <1>1, SeenFits
<1>3. Wanted(c.verb) = {"api_key"}
  BY DEF Wanted
<1>4. QED
  BY <1>2, <1>3, ClassFits

LEMMA CreateRunFits ==
    ASSUME CredInv, NEW p \in Procs, NEW c \in Commands, NEW r \in Runs, CreateRun(p, c, r)
    PROVE  CredInv'
<1>1. PICK seen \in Seen(disk, c) :
         LET t == For(seen, c.verb, c.profile, c.api) IN
         /\ Session(p, c, seen, t, r)
         /\ record' = [record EXCEPT ![r] = [token |-> t, principal |-> Principal(c, t)]]
  BY DEF CreateRun
<1> DEFINE t == For(seen, c.verb, c.profile, c.api)
<1>2. c.verb \in {"create", "resume"} /\ record[r].token = None /\ t # None
  BY <1>1 DEF CreateRun, NoRecord, Session
<1>3. t \in APIKeys
  BY <1>2, MoneyTakesKeys
<1>4. /\ record' \in [Runs -> [token : APIKeys \cup {None}, principal : Tokens \cup {None}]]
      /\ record'[r].token = t
      /\ \A o \in Runs \ {r} : record'[o] = record[o]
  BY <1>1, <1>3 DEF CredInv, TypeOK, Principal, Tokens
<1>5. QED
  BY <1>1, <1>2, <1>4, SessionFits

LEMMA ResumeRunFits ==
    ASSUME CredInv, NEW p \in Procs, NEW c \in Commands, NEW r \in Runs, ResumeRun(p, c, r)
    PROVE  CredInv'
<1>1. PICK seen \in Seen(disk, c) :
         LET t == For(seen, c.verb, c.profile, c.api) IN
         SameCredential(r, c, t) /\ Session(p, c, seen, t, r)
  BY DEF ResumeRun
<1> DEFINE t == For(seen, c.verb, c.profile, c.api)
<1>2. record' = record /\ record[r].token = t /\ c.verb = "resume"
  BY <1>1 DEF ResumeRun, SameCredential
<1>3. /\ record' \in [Runs -> [token : APIKeys \cup {None}, principal : Tokens \cup {None}]]
      /\ \A o \in Runs \ {r} : record'[o] = record[o]
  BY <1>2 DEF CredInv, TypeOK
<1>4. QED
  BY <1>1, <1>2, <1>3, SessionFits

LEMMA VerifiedFits ==
    ASSUME CredInv, NEW p \in Procs, Verified(p)
    PROVE  CredInv'
<1> DEFINE q == request[p]
<1>1. q.token \in Tokens /\ q.url \in URLs
  BY DEF Verified, CredInv, Situated
<1>2. /\ verified' = verified \cup {<<q.token, q.url>>} /\ verified' \subseteq Tokens \X URLs
      /\ issued' = issued /\ issued \subseteq Tokens
  BY <1>1 DEF Verified, CredInv, TypeOK
<1>3. QED
  BY <1>1, <1>2, StoreFits DEF Verified

LEMMA MintedFits ==
    ASSUME CredInv, NEW p \in Procs, NEW t \in APIKeys, Minted(p, t)
    PROVE  CredInv'
<1> DEFINE q == request[p]
<1>1. t \in Tokens /\ q.url \in URLs /\ pc[p] = "sent"
  BY DEF Minted, CredInv, Situated, Tokens
<1>2. /\ verified' = verified \cup {<<t, q.url>>} /\ verified' \subseteq Tokens \X URLs
      /\ issued' \subseteq Tokens
      /\ UNCHANGED <<disk, record, carried>>
  BY <1>1 DEF Minted, CredInv, TypeOK
<1>3. CASE cmd[p].login
  BY <1>1, <1>2, <1>3, StoreFits DEF Minted
<1>4. CASE ~cmd[p].login
  <2>1. Ends(p)
    BY <1>4 DEF Minted
  <2>2. disk' \in Files /\ Bound(disk', verified')
    BY <1>2, BoundGrows DEF CredInv, TypeOK
  <2>3. QED
    BY <1>2, <2>1, <2>2, EndsFits
<1>5. QED
  BY <1>3, <1>4

LEMMA EndingsFit ==
    ASSUME CredInv, NEW p \in Procs, Unstored(p) \/ Save(p) \/ Die(p)
    PROVE  CredInv'
<1>1. Ends(p) /\ UNCHANGED <<record, issued, verified, carried>> /\ disk' \in {disk, doc[p]}
  BY DEF Unstored, Save, Die
<1>2. disk' \in Files /\ Bound(disk', verified')
  BY <1>1 DEF CredInv, TypeOK, CopiesBound
<1>3. issued' \subseteq Tokens /\ verified' \subseteq Tokens \X URLs
  BY <1>1 DEF CredInv, TypeOK
<1>4. QED
  BY <1>1, <1>2, <1>3, EndsFits

-----------------------------------------------------------------------------
(* The theorems.                                                           *)

\* The inductive invariant: every copy that may be saved is bound, every token
\* of the file that has left is where it was verified, and a run has sent what
\* its record names.
THEOREM CredInvariant == Spec => []CredInv
<1>1. Init => CredInv
  <2> SUFFICES ASSUME Init PROVE CredInv
    OBVIOUS
  <2>1. TypeOK
    BY EmptyFits, CredAssumption DEF Init, TypeOK, NoRequest, NoRecord
  <2>2. Situated /\ FileTokensGoHome /\ CarriedAsRecorded
    BY DEF Init, Situated, FileTokensGoHome, CarriedAsRecorded, NoRequest
  <2>3. Bound(disk, verified) /\ CopiesBound
    BY EmptyFits DEF Init, CopiesBound
  <2>4. QED
    BY <2>1, <2>2, <2>3 DEF CredInv
<1>2. CredInv /\ [Next]_vars => CredInv'
  <2> SUFFICES ASSUME CredInv, [Next]_vars PROVE CredInv'
    OBVIOUS
  <2>1. CASE UNCHANGED vars
    BY <2>1 DEF vars, CredInv, TypeOK, Situated, Bound, CopiesBound, FileTokensGoHome, CarriedAsRecorded
  <2>2. CASE Next
    <3>1. PICK p \in Procs :
            \/ \E c \in Commands :
                  \/ Login(p, c) \/ Logout(p, c) \/ Ask(p, c)
                  \/ \E r \in Runs : CreateRun(p, c, r) \/ ResumeRun(p, c, r)
            \/ Verified(p) \/ Unstored(p) \/ Save(p) \/ Die(p)
            \/ \E t \in APIKeys : Minted(p, t)
      BY <2>2 DEF Next
    <3>2. QED
      BY <3>1, LoginFits, LogoutFits, AskFits, CreateRunFits, ResumeRunFits,
         VerifiedFits, MintedFits, EndingsFit
  <2>3. QED
    BY <2>1, <2>2
<1>3. QED
  BY <1>1, <1>2, PTL DEF Spec

\* Every variable keeps its type: the file, the copies commands hold and the
\* requests they carry, whatever the commands race for.
THEOREM CredStoreTyped == Spec => []TypeOK
<1>1. CredInv => TypeOK
  BY DEF CredInv
<1>2. QED
  BY <1>1, CredInvariant, PTL

\* However commands race for the file, what it holds was verified, or minted,
\* at the URL of its profile (C7, AC9).
THEOREM FileIsBoundWhereVerified == Spec => []BoundWhereVerified
<1>1. CredInv => BoundWhereVerified
  BY DEF CredInv, Bound, BoundWhereVerified
<1>2. QED
  BY <1>1, CredInvariant, PTL

\* A token of the file is sent only where it was verified and only by an
\* operation that takes its class (C7, C15).
THEOREM FileTokensStayHome == Spec => []FileTokensGoHome
<1>1. CredInv => FileTokensGoHome
  BY DEF CredInv
<1>2. QED
  BY <1>1, CredInvariant, PTL

\* The requests of a run carry one credential (C19).
THEOREM RunsKeepTheirCredential == Spec => []OneCredentialPerRun
<1>1. CredInv => OneCredentialPerRun
  <2> SUFFICES ASSUME CredInv, NEW r \in Runs PROVE Cardinality(carried[r]) <= 1
    BY DEF OneCredentialPerRun
  <2>1. carried[r] \subseteq {record[r].token}
    BY DEF CredInv, CarriedAsRecorded
  <2>2. IsFiniteSet({record[r].token}) /\ Cardinality({record[r].token}) = 1
    BY FS_Singleton
  <2>3. QED
    BY <2>1, <2>2, FS_Subset
<1>2. QED
  BY <1>1, CredInvariant, PTL

-----------------------------------------------------------------------------
(* What a command changes in its copy.                                     *)

\* Until its answer a command's copy is the file as loaded, and the copy it
\* saves differs from that in the slots its command names.
OwnChange ==
    \A p \in Procs :
        /\ pc[p] = "sent" => doc[p] = base[p]
        /\ pc[p] = "sent" /\ cmd[p].verb = "login" => request[p].token = cmd[p].token
        /\ pc[p] = "saving" => \A f \in Profiles, c \in Classes :
              doc[p][f][c] # base[p][f][c] => f = cmd[p].profile /\ c \in Named(cmd[p])

LEMMA RemoveOnly ==
    ASSUME NEW file \in Files, NEW f \in Profiles, NEW class \in Classes \cup {None},
           NEW g \in Profiles, NEW c \in Classes, Remove(file, f, class)[g][c] # file[g][c]
    PROVE  g = f /\ c \in IF class = None THEN Classes ELSE {class}
<1> USE DEF Remove, Files, ProfileSet, Classes, NoProfile
<1>1. CASE class = None
  BY <1>1
<1>2. CASE class = "api_key"
  BY <1>2, CredAssumption
<1>3. CASE class = "pat"
  BY <1>3, CredAssumption
<1>4. QED
  BY <1>1, <1>2, <1>3

\* The conjuncts of OwnChange for every process but the one that moves.
LEMMA OthersKeepTheirChange ==
    ASSUME CredInv, OwnChange, NEW p \in Procs, NEW q \in Procs \ {p},
           pc'[q] = pc[q], doc'[q] = doc[q], base'[q] = base[q], cmd'[q] = cmd[q], request'[q] = request[q]
    PROVE  /\ pc'[q] = "sent" => doc'[q] = base'[q]
           /\ pc'[q] = "sent" /\ cmd'[q].verb = "login" => request'[q].token = cmd'[q].token
           /\ pc'[q] = "saving" => \A f \in Profiles, c \in Classes :
                 doc'[q][f][c] # base'[q][f][c] => f = cmd'[q].profile /\ c \in Named(cmd'[q])
  BY DEF OwnChange

LEMMA EndsKeepsChange ==
    ASSUME CredInv, OwnChange, NEW p \in Procs, Ends(p)
    PROVE  OwnChange'
  BY OthersKeepTheirChange DEF OwnChange, Ends, CredInv, TypeOK

LEMMA StoreKeepsChange ==
    ASSUME CredInv, OwnChange, NEW p \in Procs, pc[p] = "sent", NEW t \in Tokens,
           Store(p, request[p].url, t), Class(t) \in Named(cmd[p])
    PROVE  OwnChange'
<1> DEFINE f == cmd[p].profile
           url == request[p].url
<1>1. f \in Profiles /\ url \in URLs /\ doc[p] \in Files /\ doc[p] = base[p]
  BY CredAssumption DEF CredInv, Situated, CommandLines, TypeOK, OwnChange
<1>2. CASE Ends(p)
  BY <1>2, EndsKeepsChange
<1>3. CASE ~Ends(p)
  <2>1. /\ doc' = [doc EXCEPT ![p] = Put(doc[p], f, url, t)]
        /\ pc' = [pc EXCEPT ![p] = "saving"]
        /\ UNCHANGED <<cmd, request, base>>
    BY <1>3 DEF Store
  <2>2. \A g \in Profiles, c \in Classes :
           Put(doc[p], f, url, t)[g][c] # base[p][g][c] => g = f /\ c = Class(t)
    BY <1>1, PutFits
  <2>3. QED
    BY <2>1, <2>2, OthersKeepTheirChange DEF OwnChange, CredInv, TypeOK
<1>4. QED
  BY <1>2, <1>3

LEMMA SendsKeepsChange ==
    ASSUME CredInv, OwnChange, NEW p \in Procs, NEW c \in Commands, Load(p, c),
           doc' = [doc EXCEPT ![p] = disk],
           NEW t, NEW url, NEW from, NEW r, Sends(p, t, url, from, r), c.verb = "login" => t = c.token
    PROVE  OwnChange'
<1>1. /\ pc'[p] = "sent" /\ doc'[p] = disk /\ base'[p] = disk /\ cmd'[p] = c /\ request'[p].token = t
  BY DEF Load, Sends, CredInv, TypeOK
<1>2. \A q \in Procs \ {p} : /\ pc'[q] = pc[q] /\ doc'[q] = doc[q] /\ base'[q] = base[q]
                             /\ cmd'[q] = cmd[q] /\ request'[q] = request[q]
  BY DEF Load, Sends, CredInv, TypeOK
<1>3. QED
  BY <1>1, <1>2, OthersKeepTheirChange DEF OwnChange

LEMMA LogoutKeepsChange ==
    ASSUME CredInv, OwnChange, NEW p \in Procs, NEW c \in Commands, Logout(p, c)
    PROVE  OwnChange'
<1> DEFINE new == Remove(disk, c.profile, c.class)
<1>1. c.profile \in Profiles /\ c.class \in Classes \cup {None} /\ disk \in Files
  BY CredAssumption DEF CommandLines, CredInv, TypeOK
<1>2. /\ pc'[p] = "saving" /\ doc'[p] = new /\ base'[p] = disk /\ cmd'[p] = c
  BY DEF Logout, Load, CredInv, TypeOK
<1>3. Named(c) = IF c.class = None THEN Classes ELSE {c.class}
  BY DEF Named, Logout
<1>4. \A f \in Profiles, k \in Classes : new[f][k] # disk[f][k] => f = c.profile /\ k \in Named(c)
  BY <1>1, <1>3, RemoveOnly
<1>5. \A q \in Procs \ {p} : /\ pc'[q] = pc[q] /\ doc'[q] = doc[q] /\ base'[q] = base[q]
                             /\ cmd'[q] = cmd[q] /\ request'[q] = request[q]
  BY DEF Logout, Load, CredInv, TypeOK
<1>6. QED
  BY <1>2, <1>4, <1>5, OthersKeepTheirChange DEF OwnChange

LEMMA StepsKeepChange ==
    ASSUME CredInv, OwnChange, Next
    PROVE  OwnChange'
<1>1. ASSUME NEW p \in Procs, NEW c \in Commands, Login(p, c)
      PROVE  OwnChange'
  BY <1>1, SendsKeepsChange DEF Login
<1>2. ASSUME NEW p \in Procs, NEW c \in Commands, NEW r,
             Ask(p, c) \/ CreateRun(p, c, r) \/ ResumeRun(p, c, r)
      PROVE  OwnChange'
  <2>1. PICK seen, t, o : Session(p, c, seen, t, o)
    BY <1>2 DEF Ask, CreateRun, ResumeRun
  <2>2. c.verb # "login"
    BY <1>2 DEF Ask, CreateRun, ResumeRun
  <2>3. QED
    BY <2>1, <2>2, SendsKeepsChange DEF Session, Copy
<1>3. ASSUME NEW p \in Procs, Verified(p)
      PROVE  OwnChange'
  <2>1. /\ pc[p] = "sent" /\ cmd[p].verb = "login" /\ request[p].token \in Tokens
        /\ Store(p, request[p].url, request[p].token)
    BY <1>3 DEF Verified, CredInv, Situated
  <2>2. Class(request[p].token) \in Named(cmd[p])
    BY <2>1 DEF OwnChange, Named
  <2>3. QED
    BY <2>1, <2>2, StoreKeepsChange
<1>4. ASSUME NEW p \in Procs, NEW t \in APIKeys, Minted(p, t)
      PROVE  OwnChange'
  <2>1. pc[p] = "sent" /\ cmd[p].verb = "mint" /\ t \in Tokens /\ Class(t) = "api_key"
    BY <1>4 DEF Minted, Tokens, Class
  <2>2. Class(t) \in Named(cmd[p])
    BY <2>1 DEF Named
  <2>3. QED
    BY <1>4, <2>1, <2>2, StoreKeepsChange, EndsKeepsChange DEF Minted
<1>5. ASSUME NEW p \in Procs, Unstored(p) \/ Save(p) \/ Die(p)
      PROVE  OwnChange'
  BY <1>5, EndsKeepsChange DEF Unstored, Save, Die
<1>6. QED
  BY <1>1, <1>2, <1>3, <1>4, <1>5, LogoutKeepsChange DEF Next

\* A save undoes in the slots its command does not name only what another
\* command saved since the load.
THEOREM OnlyRacesLoseSlots == Spec => OnlyARaceLosesASlot
<1>1. Init => OwnChange
  BY DEF Init, OwnChange
<1>2. CredInv /\ OwnChange /\ [Next]_vars => OwnChange'
  <2> SUFFICES ASSUME CredInv, OwnChange, [Next]_vars PROVE OwnChange'
    OBVIOUS
  <2>1. CASE UNCHANGED vars
    BY <2>1 DEF vars, OwnChange
  <2>2. QED
    BY <2>1, StepsKeepChange
<1> DEFINE Undoes == \A p \in Procs : (pc[p] = "saving" /\ pc'[p] = "idle") =>
                       \A f \in Profiles, c \in Classes :
                          \/ f = cmd[p].profile /\ c \in Named(cmd[p])
                          \/ disk'[f][c] \in {disk[f][c], base[p][f][c]}
<1>3. CredInv /\ OwnChange /\ [Next]_vars => [Undoes]_vars
  <2> SUFFICES ASSUME CredInv, OwnChange, Next,
                      NEW p \in Procs, pc[p] = "saving", pc'[p] = "idle",
                      NEW f \in Profiles, NEW c \in Classes, ~(f = cmd[p].profile /\ c \in Named(cmd[p]))
               PROVE  disk'[f][c] \in {disk[f][c], base[p][f][c]}
    OBVIOUS
  <2>1. doc[p][f][c] = base[p][f][c]
    BY DEF OwnChange
  <2>2. disk' \in {disk, doc[p]}
    <3>1. PICK q \in Procs :
            \/ \E k \in Commands :
                  \/ Login(q, k) \/ Logout(q, k) \/ Ask(q, k)
                  \/ \E r \in Runs : CreateRun(q, k, r) \/ ResumeRun(q, k, r)
            \/ Verified(q) \/ Unstored(q) \/ Save(q) \/ Die(q)
            \/ \E t \in APIKeys : Minted(q, t)
      BY DEF Next
    <3>2. CASE Save(q)
      <4>1. q = p
        BY <3>2 DEF Save, Ends, CredInv, TypeOK
      <4>2. QED
        BY <3>2, <4>1 DEF Save
    <3>3. CASE ~Save(q)
      BY <3>1, <3>3 DEF Login, Logout, Ask, CreateRun, ResumeRun, Session, Verified, Unstored, Die, Minted
    <3>4. QED
      BY <3>2, <3>3
  <2>3. QED
    BY <2>1, <2>2
<1>4. QED
  BY <1>1, <1>2, <1>3, CredInvariant, PTL DEF Spec, OnlyARaceLosesASlot
=============================================================================
