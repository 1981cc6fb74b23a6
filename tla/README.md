# Verification of ferry-cli

TLA+ models of the parts of `ferry` that decide whether money moves twice,
whether the program says the truth about it, whether a caller who was
interrupted can get out again, which credential goes where, and what of it a
power cut leaves. The modules are checked with TLC on small instances, and
every safety property and every refinement the passing runs check is also proved
with TLAPS, for every number of processes, runs, inodes, profiles, tokens and
documents, and every budget, clock and command line. Liveness is left to TLC.

## 1. The system

`ferry` is a command-line client of the FERRY payments API. A transfer takes
two requests: `simulate` prices it and hands out a plan token once, `execute`
spends the token. The program has no daemon: every invocation is a process, and
invocations share only files under `FERRY_HOME` and the server.

| component | source | state | operations |
|---|---|---|---|
| run ledger | `internal/runs` | one `<run>.json` and one `<run>.lock` per run | Create, Open, Begin, Record, AwaitConfirmation, SetPlan, Decline, Unreachable, Close, Orphans, Scrub, Prune, List, FindByKey |
| money path | `internal/noun/transfers` | one invocation's position, its handle, its options | create, execute, resume; route, orphanCheck, create, open, perform, record, followUp, broadcast, report |
| consent gate | `internal/consent` | none | Ask |
| in-flight flag, wrapper | `internal/cli/flight`, `internal/cli` | one flag, one signal | MarkSent, listen, classify, finish |
| API client | `internal/api` | none kept | Do (attempts and resends), envelope and header decoding |
| poll loop | `internal/poll` | none kept | Watch |
| outcome table | `internal/outcome` | none | Classify, ClassifyCommand |
| durable write | `internal/fsx` | the file | WriteFileAtomic |
| credential store | `internal/creds` | one credentials file | Load, Put, Remove, For, Save |
| auth, keys | `internal/noun/auth`, `internal/noun/keys` | the credentials file | login, logout, whoami, keys create/list/get/revoke |
| runs verbs | `internal/noun/runs` | the ledger | list, show, resume, decline, prune |
| reads | `internal/noun/corridors`, `internal/noun/commandq` | none | list, get, watch |
| run ids | `internal/ulid` | last millisecond and entropy | New |
| directories | `internal/xdg` | the directories under `FERRY_HOME` | EnsureDir |
| entry point | `cmd/ferry` | the exit status | main |
| rendering, version | `internal/render`, `internal/version` | none | |

**Interactions.** A money command looks a caller's key up in the ledger
(unlocked), looks for orphans (reads unlocked, probes each lock), mints a run
(its lock is then held to the end of the invocation), asks for consent, writes
the pending record, sets the in-flight flag, sends, records the answer, follows
a 202 or a 409 by polling, and for `--broadcast` goes on to the execute. A
`runs resume` opens an existing run and joins the same path. The sweeps (the scrub
of `runs list`, `show` and `prune`, and prune) take a run's lock only for the length of a
probe. `runs list`, `show` and `prune` walk the directory twice or three times,
each time over the names they were given at its start, and read records they do
not lock. The wrapper runs a second goroutine that takes the first signal,
closes a channel (which the prompt, the poll loop and the money path look at)
and then cancels the context (which a request looks at); it turns the error, the
panic or the signal that ended a command into an exit code and, in JSON, a
document, and the flag has the last word between "nothing was sent" (1) and "not
established" (6). Everything kept on disk goes through one function that writes
a temporary file, syncs it, renames it and syncs the directory.

**What is hard.** flock is taken on inodes and the ledger renames and unlinks
names; every save writes a whole record from memory; a process may die between
any two system calls, and the machine lose what no fsync has asked for; a write
may fail after its rename; stdout may take a part of a document; a request may be
executed and its answer lost, or arrive after the client gave it up; signals
arrive anywhere; two invocations interleave everywhere a lock is not held. The
list, line by line, is under `hazards` in `PROJECT.json`.

**What makes each component correct.** Ledger: one owner of a run at a time,
the record never denies a request that left, nothing settled is reopened,
nothing open is deleted, no token outlives its step, no key meets two bodies.
Money path: the exit code and the record are true of the server, no second
transfer while one is unaccounted for, no execute without consent of this
invocation, and a resume can always finish. Store: a token is kept for, and
goes to, only the URL it was verified at, and a run keeps its credential. Client
and poll: what is performed is performed once, the loops keep their budgets and
end. Table: no unknown is turned into a yes or a no. Wrapper: one document, with
the process's exit code, that does not deny a request that left; a signal heard
in time sends nothing, and ends every wait. Durable write: a name carries a
whole document, and a reported success survives a power cut. Runs verbs: prune
takes nothing young or open, a decline is final, the pending list is complete,
and no verb fails because another was at work.

## 2. The modules

| module | models | state |
|---|---|---|
| `StepRecord` | `record.go` and the pure part of `ledger.go`: a step, the predicates on it, and each change as a function of it | none |
| `StepLifecycle` | the abstract promise of the ledger: what a reader of the directory may see a run do | `life`, `sent` |
| `RunLedger` | `ledger.go`, `sweep.go`, `lock.go`: the directory and the processes that work in it | `record`, `entry`, `flock`, per process `pc`, `fd`, `mem` |
| `LedgerLifecycle` | what a reader of the directory sees of `RunLedger`: the mapping under which it implements `StepLifecycle` | |
| `MCRunLedger` | the symmetry of a small directory | |
| `RunLedgerProofs`, `RunRecordProofs` | theorems about `RunLedger` and `LedgerLifecycle` | |
| `MoneyPath` | `noun/transfers`, `consent`, `flight`, the wrapper, the client and the poll loop as the money path uses them, and the FERRY server | `record`, `holder`, per invocation its position, flag and answer, `wire`, `srv` |
| `MCMoneyPath` | the command lines of a few kinds of caller | |
| `MoneyPathProofs` | theorems about `MoneyPath` | |
| `OutcomeTable` | `internal/outcome`: the table, `Classify`, `ClassifyCommand`; `api.Retryable` | none |
| `ApiClient` | `api.Client.Do`, `poll.Watch` and `followUp` around one request and its command, and the server | `call`, `watch`, `signal`, `result`, `srv` |
| `ApiClientProofs` | theorems about `ApiClient` and the table | |
| `CredStore` | `internal/creds`, `noun.Session`, and the commands that read or write the credentials file | `disk`, per process its copy `doc`, command line and request |
| `MCCredStore` | two deployments, their tokens, and the command lines | |
| `CredStoreProofs` | theorems about `CredStore` | |
| `Invocation` | `cli/root.go`, `flight`, `consent`, `cmd/ferry`, and of a command what they judge: one process with its goroutines | the main goroutine (`pc`, `op`, `ans`, `class`, `err`), the flag, the listener (`slot`, `seen`, `own`, `cancelled`), the prompt, `wire`, `stdout`, `record`, `code` |
| `InvocationProofs` | theorems about `Invocation` | |
| `AtomicFile` | what the callers of `WriteFileAtomic` build on | `home`, `now`, `may`, `task` |
| `DurableWrite` | `fsx.WriteFileAtomic` and `xdg.EnsureDir` call by call, and the disk | `home`, `entry`, `kept`, `temp`, `data`, `synced`, per writer `pc` and `call` |
| `DurableWriteProofs` | theorems about `DurableWrite` | |
| `RunsVerbs` | `noun/runs` over `sweep.go`, beside a money command | `now`, `record`, `lock`, per process its `line`, walk (`todo`, `limit`), answer (`said`, `exit`); the money command's copy |
| `MCRunsVerbs` | the records earlier commands leave, and the command lines | |
| `RunsVerbsProofs` | theorems about `RunsVerbs` | |

`MoneyPath` and `RunLedger` share `StepRecord`, so the two agree on what a
method of the ledger does to a step; `RunsVerbs` extends it too. `ApiClient` and
`Invocation` extend `OutcomeTable`. `LedgerLifecycle` composes `RunLedger` with
`StepLifecycle` by refinement, and `DurableWrite` implements `AtomicFile`, whose
`Succeed`, `Show` followed by `Fail`, and `Fail` alone are the three results a
write has in `RunLedger`, `MoneyPath` and `RunsVerbs`.
`MoneyPath` takes the client, the poll loop and the table as single actions
whose outcomes are those `ApiClient` and `OutcomeTable` detail.

**RunLedger.** One action is one system call that another process can observe:
stat, open with `O_CREATE`, `flock`, load, the durable write, each unlink. A
sidecar is a directory entry pointing at an inode (`entry`), and a process that
opened one keeps the inode (`fd`) whatever becomes of the entry; an inode is
free again when nothing points at it. `mem` is the handle's copy: the methods
change it and then write all of it, and only `Begin` takes its change back when
the write fails, as the code does. A write succeeds, fails early (old record in
place) or fails late (`WriteFileAtomic`'s directory fsync: new record in place,
error returned). `sent` is the truth about requests that left. `Crash` may
happen at every location. Whether a plan is past its grace or a record older
than the cutoff is a choice, so no clock is assumed.

**MoneyPath.** Since the ledger proofs show that a record has one owner, a
ledger call is here one action on the record under a lock `holder`, with the
same three results. An invocation walks through the positions `routing`,
`opening`, `checking`, `minting`, `resuming`, `consent`, `prompt`, `ready`,
`begun`, `sending`, `waiting`, `answered`, `closing`, `polling`, `after`,
`reporting`; each is the code between two points at which something outside can
matter. The server is external: it performs an idempotency key once and answers
what it holds ever after, but may refuse a request before it looks the key up
(401, 403, 429, 503) or fail after it (500). What may go wrong is the set
`Troubles`, and `MaxTrouble` bounds how often.

**StepLifecycle** is what a caller of the ledger may rely on without knowing of
locks: a run appears once with nothing started, a rewrite moves its steps along
the edges of `After`, a request leaves only under a record that says `pending`,
and a record disappears once, with everything settled.

**OutcomeTable** has no state. Codes are grouped by the row they have in the
table; a row gives a class for each of the four operation classes. The two
refinements (a reused key, a busy upstream), unknown codes, transport faults,
2xx answers and stopped commands follow the branches of the code in its order.

**ApiClient.** One invocation of `transfers simulate`, `transfers execute`,
`keys create` or `commands watch`. Time is two spans in seconds, what the
running `Do` has spent and what `Watch` has left. The program's steps take none,
a wait takes what it asked for, an answer takes up to `MaxLatency`. The server
performs a keyed operation once, may refuse before it looks a key up, may answer
500 after it performed it, and may hold the key for another request or another
credential. `vague` is a history variable: a money 500 was answered by a resend.

**CredStore.** A command loads the whole credentials file into `doc`, chooses a
token (`For` on the file, or on a copy of it with FERRY_TOKEN in its slot: the
`Seen` of a session), sends one request, puts what it learnt into `doc` and
saves all of it. There is no lock, so the other process does anything in
between. A URL stands for its normal form and for the deployment behind it, and
a token for its prefix, its class and its principal. `verified` is history: the
pairs of a token and a URL for which that URL answered, or which it minted.

**Invocation.** MoneyPath follows many invocations and takes what one of them
does about a signal as single steps; here there is one process and each of its
goroutines moves by itself. `pc` is the main goroutine: the wrapper (`parse`,
`finish`, `stop`, `exit`) around a command of one of five kinds, each a sequence
of requests in `RequestsOf`. The listener takes a signal from the one-place
channel, stores `seen`, closes `own`, cancels the context: four steps, between
which the main goroutine may do anything. A third goroutine reads the prompt's
line, which may be typed before the question. A request is one attempt that is
answered, lost, never sent or cut off by the context; a ledger write succeeds or
fails with the record changed or not; a document is written, or fails with some
of its bytes on stdout or none; a panic may come from every place of the
command. After `Stop` a signal kills. `left`, `passed` and `heard` are history.

**DurableWrite.** One action is one call of the `fsx.FS` interface. Contents are
safe once the file was synced and an entry once the directory was; until then a
power cut leaves any entry the name has had since the last directory sync
(`kept`), and contents that were not synced may be torn. The kernel may also
write either back early: for entries that is in `kept`, for the directory's own
entry it is `Settle`. `after` and `promised` are history: the files that were
renamed to a path since a writer's own rename, and since the newest success.

**AtomicFile** has four variables a caller can speak of: what readers of a path
are given, what a power cut may leave there, the write a process has under way
and whether it has been shown, and whether the directory is itself safe.

**RunsVerbs.** RunLedger has a process make one sweep step on one run; here a
process is a command line, from its arguments to its exit code and the runs its
answer names. A walk takes the names at its start (`todo`) and the clock
(`limit`: the scrub's now, the prune's cutoff), and one action reads, probes or
rewrites one run. `RunLedgerProofs` shows that a record has one owner whatever
becomes of its sidecar, so a lock is taken on the run. The money command has the
steps that change its record, each a save of its whole copy; the ids it mints
grow. A record of a newer schema (`Unreadable`) may appear. `--older-than` is
computed in integers of a width (`Longest`), as int64 is.

## 3. The runs

Ledger:

- `RunLedgerTwoSteps` (2 processes, 1 run of 2 steps, 3 inodes): the type
  invariant, `SentIsRecorded`, `SettledIsScrubbed`, and the refinement
  `LifecycleSpec`. Two processes suffice for a holder and a sweep, three inodes
  for a sidecar that is replaced while the old one is still open; two steps let
  the save of one step carry a stale copy of the other.
- `RunLedgerThreeProcs` (3 processes, 1 run, 1 step, 2 bodies, 4 inodes, 2
  attempts): `LockExclusion`, `SettledAndBodyStay`, `OnlySettledRecordsVanish`.
  Three processes are needed for the races around a removed sidecar: one prunes,
  one opened the old inode, one makes the new one.

In the ledger's configurations deadlock is not checked: a run id is used once,
so when all of them are pruned and every process is idle the system may stop.
Symmetry in processes, inodes and bodies is sound there, since they appear only
in equalities and no liveness is checked.

Money path:

- `MoneyPathScript` (1 invocation at a time, 2 runs, lines with and without a
  key and with other bytes, 4 troubles): `NothingSentIsTrue`, `SuccessIsTrue`,
  `SettledNoIsTrue`, `NoSecondTransferInTheDark`, `OneRunPerKey`. Four troubles
  allow a lost answer, a failed resume, a crash in the next and one more.
  `denied` is left out because of the finding `UnknownIsNotDenied`: a refusal
  before the key is looked up makes a recorded "no" wrong. No line has
  `--broadcast`, for which `NoSecondTransferInTheDark` is not stated (section 4).
- `MoneyPathBroadcast` (2 invocations, 1 broadcast run, every trouble): the
  type invariant and `StoredStateIsNotConsent`.
- `MoneyPathResume` (1 invocation, 1 run, 3 troubles): the liveness property
  `ResumeSettles`. `expiry` is left out: a plan past its grace may leave a run
  that only `runs decline` ends.

Deadlock is checked in these three.

Client and table:

- `ApiClient` (every operation, a retry budget of 3 s, a poll timeout of 9 s,
  answers within 1 s, Retry-After absent, 0 or 2): that one key has one effect
  (`PerformedOnce`), that a reported "no money" and a reported acceptance are
  true of the server (`NoMoneyIsTrueWithout500`, `AcceptedIsTrue`), that a
  stopped command is never reported as moving (`StoppedIsFinal`), that the
  retry loop overruns its budget by one answer and the poll loop its timeout by
  one read with its resends (`OverrunIsBounded`), and that an invocation `Ends`. Both limits are
  several times the longest wait, so a loop goes round often enough to meet
  each of its exits; the delays include one below the floor and one that does
  not divide the limits. `NoMoneyIsTrueWithout500` excludes the calls in which a
  500 was followed by a resend (section 4). An invocation ends, so deadlock is
  not checked.

Credentials:

- `CredStore` (2 processes, 2 profiles, 2 deployments, 2 API keys of which one
  is yet to be minted, a PAT of each deployment, 1 run): the type invariant,
  `BoundWhereVerified`, `FileTokensGoHome`, `OneCredentialPerRun`,
  `OnlyARaceLosesASlot`. Two processes give every race for the file, since a
  command saves once. Deadlock is checked, and symmetry in processes is sound
  there because no liveness is.

One process:

- `Invocation` (every kind of command, JSON or text, a prompt or none, input or
  none, two signals): an exit code 1 of a money command means that nothing left
  (`ExitOneMeansNothingSent`), exit 0 that every request's answer is on record
  (`SuccessIsRecorded`), a request that had not passed its last look when the
  interrupt was published never leaves and is not left pending
  (`HeardInTimeSendsNothing`), a request the process cut off itself is not
  recorded as FERRY's answer (`CutRequestIsNotRecorded`), a document is whole,
  single and of the process's exit code (`OneDocument`), and an interrupt ends
  the process (`SignalEnds`). Two signals are enough for one that is taken and
  one that finds the slot full or the handler gone. Deadlock is checked: an
  ended process stutters by `Ended`.

Durable write:

- `DurableWrite` (2 writers, 2 paths, 2 documents, 3 files): the invariants
  `OnlyWholeFilesAreNamed` and `AckedSurvives`, and the refinement
  `ImplementsAtomicFile`. Two writers without a lock are what the credentials
  file has; two paths show that syncing the directory for one file settles the
  other; a third file lets an old one still be under a name that a power cut
  may bring back while both writers hold new ones. Deadlock is checked, and
  symmetry in writers and files is sound since neither a formula nor a constant
  names one.

Runs verbs:

- `RunsVerbs` (a `list --pending`, `show`, `decline` or `prune` beside another
  `prune` or `decline` and a money command; 2 runs, one of them found, or both;
  a clock of 2 instants, 2 attempts): `PruneKeepsTheYoung`,
  `DeclinedNeverLeaves`, `PendingListIsComplete`, `FaultsHaveACause`. Two verbs
  are one walk and what removes or rewrites records beside it; two runs let a
  walk be between them, and the second may be minted during it. A day is one
  unit and a duration holds ten, so that one of the ages typed (two weeks)
  wraps, and another is refused. A process runs one verb, so deadlock is not
  checked.

**Fairness.** In `MoneyPathResume`: weak fairness of an invocation's own
steps: a process that can run does, and each of its waits ends, a prompt with an
answer, a poll with its timeout, a request with an answer or a fault. Weak
fairness of the server. Strong fairness of typing a resume command: the property
is about a caller who keeps typing it, and the command is not always possible
because the same terminal types others too. Nothing is assumed of trouble
except that it is finite, which is the bound `MaxTrouble`. In `ApiClient`: weak
fairness of the program, which runs, and of the network. The latter is an
assumption about the environment and not something the code provides: the client
uses `http.DefaultClient` and sets no deadline on a request, so a server that
accepts a request and neither answers nor closes holds an invocation until a
signal, whatever `--timeout` says. In `Invocation`: weak fairness of the main
goroutine in the steps that wait for nobody (`Main`) and of the listener. The
scheduler gives both; nothing is assumed of the person at the prompt, of the
server, of whatever feeds the input, or of the poll loop's waits before an
interrupt. `SignalEnds` takes an interrupted wait of the poll loop as one step:
`clock.Sleep` is not interruptible, but it is bounded (section 4). The other runs
assume no fairness.

## 4. Where the code and its documentation differ

Two of these are runs that end in a counterexample; the lines are under
`findings` in `PROJECT.json`.

1. `UnknownIsNotDenied`: a resend of a pending step that cannot connect, or is
   refused before the key is looked up, replaces "unknown" by "no money moved".
2. `ConsentIsOnThisCommandLine`: `runs resume` of a broadcast run's simulate
   goes on to the execute with the consent of the original command.

Met while reading and modelling, without a run of its own:

- A money request answered 500 and resent is classified by the last answer
  alone (`client.go:209`), so a failed dial or a 429 on the resend reports
  "nothing sent" (`class.go:38`) of a transfer that may have been made.
  `NoMoneyIsTrueWithout500` without its exception finds it.
- The resume of a pending execute on a terminal without `--yes` fails as
  `cli_fault` instead of asking, because `AwaitConfirmation` refuses the step
  (`ledger.go:373`; PLAN.md:762, AC73).
- A polled command that needs an operator is reported as pending, exit 6, when
  its read answers COMMAND_UNRESOLVED (`money.go:680`; `table.go:222`, AC51 say 7).
- A JSON document of which stdout took only a part counts as an answer
  (`root.go:394`): the command's `cli_fault`, exit 1, stands although a money
  request left. `ExitOneMeansNothingSent` excepts it.
- `keys create` interrupted with its request on the wire ends in text mode as
  "Nothing happened", exit 1; the flag is set by money requests only.
- The reads of a token, a plan token and a body do not end by a signal, and the
  handler swallows it: `SignalEnds` excepts the lines that read their input. A
  wait of the poll loop is slept out before the signal is looked at.
- A signal between `signal.Stop` and `os.Exit` kills a process whose document
  says how it ended.
- `--older-than 20000w` overflows int64 nanoseconds (`verbs.go:450`), the cutoff
  lies in the future and every settled run is pruned; `--expires-in` has the same
  product (`keys/create.go:285`). `PruneKeepsTheYoung` is stated of ages that fit.
- A prune that fails midway reports none of the runs it removed; the decline of
  a settled step answers exit 6, as of one that may have sent.
- `WriteFileAtomic` says of a failure that "the record it was trying to write
  does not exist" (`fsx.go:103`); after a failed directory sync it does, as the
  next paragraph there concedes. Nothing syncs the parent of a directory that was
  just made, so a power cut may take the first run with its directory.
- A process killed during a write leaves its temporary file, with the token in
  it, for good.
- The orphan check reports a run by a copy read before its lock was probed, and
  the momentary hold of another process's probe makes it walk past an
  unresolved run.
- A broadcast run whose plan is stored and whose execute has not begun is no
  orphan (`record.go:304`), so a later command does not stop at it, and
  `runs resume` of it makes no orphan check (`resume.go:43`; only a resume matched
  by its key has one, `resume.go:86`). CRITIQUE.md:701 argues of the first that a
  re-run "is one transfer, not two"; when the re-run's answer was lost, the resume
  sends a second while the first is unaccounted for. TLC finds this as soon as
  the lines of `MoneyPathScript` include `--broadcast`.
- A `Begin` that fails in the directory fsync leaves a pending record although
  the caller is told that nothing was written.
- Two invocations with one key may both look it up before either mints.
- A signal at the prompt is reported as `cli_fault`, although the step is
  declined.
- An execute that ended with exit 7 is settled on disk, so the orphan check does
  not stop a wrapper that repeats its command line.
- `checkCredential` does not compare the run's URL: FERRY_TOKEN with `--api` on
  an unbound profile resumes a run at another deployment.
- With FERRY_TOKEN a PAT and an API key stored, an operation that takes either
  class uses the stored key.
- A token in FERRY_TOKEN is sent to `--api` without having been verified there;
  C7 as stated holds of stored tokens only.
- When keys create `--login` fails in the directory fsync, the message says that
  the token is not stored, and it is.
- A run started under a key that keys create `--login` replaced can be resumed
  by no stored credential, and blocks money commands until `--allow-pending`.

## 5. What is proved

The theorems are about the `Spec` of `RunLedger`, `CredStore`, `DurableWrite`,
`MoneyPath`, `Invocation`, `ApiClient` and `RunsVerbs`. Their assumptions are the
named ones on the constants, which TLC evaluates in every run: that the values
standing for "none" are not values of the set they are added to, that what a
configuration lists (command lines, records found, troubles) has its type, that
bounds are natural numbers. The sets of processes, runs, inodes, steps, bodies,
profiles, URLs, tokens, command lines, paths, documents and files are arbitrary
and need not be finite; so are the bounds. Three theorems about `MoneyPath` have
a hypothesis besides, named below.

`RunLedgerProofs`: the lock. `LockExclusion` is not inductive: it says nothing
of a process that has opened a sidecar and not locked it, of one whose sidecar
was unlinked, or of an inode used again. `LockInv` is `TypeOK` and five
conjuncts: `Situated` (what each location implies of a process's own variables),
`FlockOwned` (an owner's descriptor carries its flock), `SidecarStays` (while a
record exists its sidecar does, and whoever opened it opened that inode),
`CreatingAlone` (nobody else can name a run that is being created) and
`RecordThere` (where the code relies on the record being there, or gone).
`LockInvariant` proves it inductive by one step per action, and `TypeCorrect`
and `LockIsExclusive` follow.

`RunRecordProofs`: the content. None of the record's properties is inductive
alone, because a save copies a holder's memory over the record. `RecordInv` says
the same of the record and of every copy that may still be written: each is
honest about what was sent and keeps no token it settled (`RecordsHonest`,
`CopiesHonest`), the record is never ahead of the copy that will replace it
(`RecordsBehind`), a sent request has its record (`StagesBacked`), and what is
being removed is prunable (`RemovingPrunable`). `RecordInvariant` proves it
inductive using `LockInvariant` (a writer is the only writer), and from it
`SentStaysRecorded`, `SettledStaysScrubbed` and the two action properties
`SettledAndBodyStayForever` and `OnlySettledRecordsEverVanish`.

`LedgerImplementsLifecycle`, in the same module, is the refinement. A reader sees
a run as `Seen`: its steps' states while it has a record, `Absent` until its
creator has written (`Unborn`), `Gone` after. A step that changes neither
`record`, `sent` nor who is `Unborn` is a stutter (`NothingSeen`); the others are
`Appears`, `Wastes` (an id whose first write failed), `Rewrites`, `Vanishes` and
`Sends`, one lemma each. They need three things of the invariant that the safety
properties do not: the copy of a run being created has every step not started
(`CopiesHonest`), a holder that is about to send has `pending` on disk and in
memory (`StagesBacked`), and nobody else can name a run being created
(`CreatingAlone`). A rewrite is along `After` because the record is `Behind` the
content that replaces it, and both are honest about what was sent.

`CredStoreProofs`: there is no lock here, so what protects the file is a property
each copy has by itself. `CredInv` says that the file and every copy of it are
bound (`Bound`: a token is there only under a URL it was verified at), that an
idle process holds no request (`Situated`), and that a run has carried only the
token its record names (`CarriedAsRecorded`). `PutKeepsBound` is the central
lemma: where `MayPut` allows a token, the other slot of the profile is of the
same URL or empty. `FileTokensStayHome` rests on `SeenFits`: what a session takes
from a file with FERRY_TOKEN put on it is the override, or was in the file and
bound. `OnlyRacesLoseSlots` adds `OwnChange`: a copy differs from the file as
loaded in the slots its command names. `CredStoreTyped` is the type invariant.

`DurableWriteProofs`: neither property of the runs is inductive, since both speak
of names and not of the file a writer is about to name. `DiskInv` is `TypeOK` and
six conjuncts: `TempsAreOwn` (a writer's temporary file is named by nothing else
and nobody else's), `TempsAreReady` (past `Sync` it is whole and on the disk),
`NamedAreWhole` (so is whatever a name carries or a power cut may bring back),
`EntryIsKept` (a power cut may leave things as they are), `RenamedIsAfter` (the
entry of a path is one of the files renamed there from a writer's rename on, so
its success may promise them) and `AckedSurvives`. `DiskInvariant` proves it
inductive, `NamedFilesAreWhole` and `AcknowledgedWritesSurvive` read their
property off it, and `WritesAreAtomic` is the refinement: each system call is a
step of `AtomicFile` or a stutter, where `RenamedIsAfter` gives the result of
`SyncDir` and `EntryIsKept` and `NamedAreWhole` that of a power cut.

`MoneyPathProofs`: the money path. What an exit code says of the server is known
to nobody but the server, so the invariant must carry it from the request to the
end. `PathInv` is `TypeOK` and: `Fit` of each invocation (`Flagged`: what it sent
it has flagged, before it sends; `Agreed`: an execute of a resume has this
invocation's consent, or follows a simulate it sent; and which command lines
reach which positions), `Placed` (an invocation at work holds the lock of a run on
record, and `Staged`: where it is at a step, what the record says of the step and
the server of the answer it got), `Content` of each run (which steps its command
gave it, in which order they settle, and `True`: the class of a settled execute
against what the server holds), `Held`, and `Wired` (a request under way has its
record). `MoneyPathCorrect` proves it inductive, with the server's actions and a
late arrival among the steps; `MoneyPathTyped`, `ExitOneIsTrue`, `ExitZeroIsTrue`
and the action property `ResumeNeedsConsent` follow for any number of invocations
and every kind of trouble. `SettledNo` has the hypothesis `"denied" \notin
Trouble`, which the finding `UnknownIsNotDenied` shows to be necessary.
`KeyNamesOneRun` and `NoTransferInTheDark` have the hypothesis that one process
types, which the properties are about (section 4 has the two that race). The
first adds `LookedUp` (whoever is on the way to mint under a key has found no run
of it). The second adds `DarkInv`: at most one execute is open (`ExecOpen`), an
invocation at an execute, or about to mint one, is alone (`Alone`), what is under
way to the server or with it has a record that may have sent (`Backed`), and what
the server holds under a key belongs to a run on record (`Served`); its further
hypotheses are `Cautious`, no `--broadcast` and no execute with `--allow-pending`,
and again `"denied" \notin Trouble`. TLC checked `DarkInv` with the commands of
`MoneyPathScript` before it was proved.

`InvocationProofs`: one process. `InvocationInv` says in which order things are
published: own is closed before the context is cancelled, and only a cancelled
context cuts a request off (`PublishedInOrder`); a money request is flagged before
it leaves (`MarkedBeforeSent`) and looked at for an interrupt before it is
recorded (`LookedBeforeBegun`); a class that means success has its answer on
record (`SuccessOnRecord`); until the command has ended nothing is on stdout, and
what is there afterwards fits the way it ended (`Unfinished`, `DocumentFits`).
`ExitOneSendsNothing`, `SuccessRecorded`, `HeardInTime`, `CutNotRecorded` and
`OneDocumentPerProcess` are read off it, for any number of signals.

`ApiClientProofs`: one call. The lemmas on the table (`RowTable`, `ClassifyFits`,
`CommandFits`) say of every code which class it may get; `MoneySound`, `MintSound`
and `CommandSound` say of every reply the server may give, in every state it may
be in, that its class is true of that state. `ApiInv` keeps this until it is
reported (`Heard`), with `Quiet` (nothing of an execute is with the server until a
request of it is answered or answered with a 500), `Once` and `Timely` (what `Do`
has spent is still in what `Watch` has left). `ResendsPerformOnce`,
`NoIsTrueOfOneCall`, `AcceptedIsTrueOfOneCall`, `WatchStopsAtTheEnd` and
`DeadlinesHold` follow, for all values of budget, timeout, latency and Retry-After.

`RunsVerbsProofs`: the verbs. The walks are proved with what they still have
before them: `ListCovers` (every run unresolved since the start is said or yet to
come), `CutoffInThePast` (a cutoff is behind the clock by the age, in the
machine's integers), `Known` and `MintedOnce` (what is walked over was minted, and
is so once). Locks give `VerbHolds` and `MoneyHolds` (the money command's copy is
the record), from which `SentOnRecord` and `DeclinedOnRecord`: the record of an
execute that left says that it may have, the record of one declined that it is
over, so nobody does the other. The theorems are `DeclineIsTheLastWord`,
`ListNamesThePending`, `VerbsFailForACause` and `PruneLooksBack`; the last uses
that an age which fits does not wrap.

Only model-checked: the liveness properties `ResumeSettles`, `Ends` and
`SignalEnds`, since the prover has neither ENABLED nor fairness, and the two runs
that end in a counterexample. No definition is recursive, so nothing was given
up to the provers' lack of induction over data.

## 6. What is not modelled

The text of bodies, responses, headers, reports and JSON documents, the view of
a record and the redaction of them; `--env` and the environment of a key; a wait
above 2^63 nanoseconds; a read of the disk that fails; a ledger or a credentials
file that another program edits, except a record of a newer schema. Run ids are
taken to be fresh and, in `RunsVerbs`, growing: the first rests on 80 bits of
entropy, the second on the clock, and only the order of a list depends on it.
The generator orders the ids of one process, and a process mints one, so it has
no module; that it wraps or overwrites its entropy before it refuses a call
(`ulid.go:87`, `ulid.go:113`) is met by no command. Neither have the pages of
`keys list --all`: a bounded loop of reads whose answer depends on how FERRY
pages, which the repository does not say. `--no-wait` is in `Invocation` one of
the ways a follow ends without a state, and is not in `MoneyPath`. The server is
modelled only as far as the CLI relies on it. The credential pre-check of a
money command is in `CredStore` and not in `MoneyPath`, whose invocations have
passed it. The recorded server and the process runner of the tests are not part
of the program.

## 7. Plan

Done: the step record, the ledger and its lifecycle, the money path, the table,
the client and poll loops, the credentials file, one process with its signals,
the durable write and its abstract file, the runs verbs; a proof of every safety
property and refinement above. Next:

1. `--no-wait` and the credential pre-check in `MoneyPath`, `--env` in
   `CredStore`, each with the step of its invariant.
2. What composes the proofs: that the ledger of `MoneyPath` and of `RunsVerbs`,
   where a record has an owner by construction, is the one `RunLedger` provides;
   and `KeyNamesOneRun` for several callers that never share a key.
