# A formal model of proxpass

proxpass is an SSH gateway to the guests of Proxmox hosts. A user logs in to an
ordinary `sshd`; proxpass decides which containers and virtual machines the
user may reach, shows them in a picker, connects a console, runs a command, or
serves SFTP. One `proxpass serve` process owns the database and answers a REST
interface on a local socket; every SSH session is a process of its own that
talks to it; administrators use a web page or the same commands over SSH.

This directory holds TLA+ modules translated from that code, configurations
that check them with TLC, and proofs checked with TLAPS. `PROJECT.json` lists,
for every definition that models code, the lines it stands for; for every
property a mutated definition that breaks it; and the hazards the properties
were written for. Line numbers are those of the commit this directory lives in.

## 1. Inventory of the system

| Part | State | Operations | Hard because |
| --- | --- | --- | --- |
| Discovery (`internal/proxmox`) | none of its own; one goroutine per instance and pass | `RunOnce`, `DiscoverGuests`, `StoreGuests` | passes of the loop, of REST handlers and of commands overlap; a pass is many statements; hosts change meanwhile |
| Storage (`internal/db`) | instances, guests, clients, groups, rules, policy, tokens, sessions, settings, activity | one method per operation, few of them transactions | rows refer to each other by id without foreign keys |
| Access check (`sql_repository.go` `HasAccess`, called by `api/sessiondata.go`) | none | three tiers in up to five statements | edits commit between the statements |
| REST handlers (`internal/api`) | none between requests | create, read, replace, delete | replace puts back whole rows read earlier |
| Commands (`internal/cli` over `internal/session/adminrepo.go`) | none | read, change, put back through two layers of mappers | as above; a mapper may lose a field |
| Web page (`frontend/assets/app.js`) | what it loaded and the form on screen | the same requests | forms stay open for a long time |
| Directory and key lookup (`api/server.go`, `api/idlayout.go`, `session/authorizedkeys.go`) | a layout of ids fixed at start | account by name, by uid, all; keys of everybody | uids outlive rows; the keys are listed in two statements; the name that was typed and the key that was offered need not agree |
| Session tokens (`session/token.go`, `api/session.go`) | two tables of hashes with expiry times | mint, redeem, exchange, revoke | `sshd`'s helper, `serve` and the session are three processes; each may die; a token can be presented twice |
| Login routing (`session/picker.go`, `guestcommand.go`, `sftp.go`, `cli/resolve.go`) | none | what a name leads to, with a command, without, for a transfer | names of nodes, guests, clients and ids collide; listings change and fail |
| Picker (`session/interactive.go`) | list, cursor, view, filter, sort column | keys, resize | one slice shared by list and rows, sorted in place; positions at the edges |
| Console (`internal/console`) | copying goroutines, escape state, two ends of a stream | copy, escape, tear down | either end may stop reading or vanish; everybody waits for somebody |
| Status bar (`console/statusbar.go`, `modefilter.go`) | what it believes of the terminal | observe, draw, resize, stop | four goroutines on one terminal that the guest writes to as well |
| SFTP server (`internal/sftpserver`) | open files, by path | the SFTP requests | pieces in any order; each is a command of its own |
| Transfer session (`internal/guesthelper`, `cmd/proxpass-helper`) | a stream, a mutex, a poisoned flag; two goroutines and a timer in the helper | stat, list, read, write, ... | concurrent callers share one stream without request ids; either end may vanish |
| Staging (`guesthelper/launch.go`) | two file names on a node | check, write, chmod, rename | transfers to one node run it at once |
| Activity log, filters, settings, host keys, name folding, start-up | rows, or none | single statements or pure functions | little |

How they interact: `sshd` asks the directory for an account and the key lookup
for its keys, each line of which carries a token; the session presents the token
to `serve` and calls it with the credential it got; `serve` asks the access
check before it hands out what a session needs to connect; the discovery passes
and the handlers share the tables, and nothing else. A login name is routed to a
node, a guest, the picker or the commands. For a console the session bridges
the user's terminal to the node, under the status bar; for a transfer to a
container it opens SSH to the node, stages the helper and starts it in the
container, and the SFTP server calls the helper through the transfer session.

What makes each part correct, in a sentence:

* Inventory: a rule reaches the guest it was granted for or nothing; whatever
  deletes a row deletes the rules on it; discovery costs a stored guest none of
  its grants, prunes only what it was not told of, and settles on the truth.
* Access check: the answer was right at some instant of the check.
* Editors of one row: an edit based on an up-to-date copy changes what it is
  meant to and nothing else; what belongs together is replaced together.
* Accounts: a login is whom its key identifies, whatever name was typed; what
  runs under a uid is one account's, for as long as it runs.
* Tokens: a token lets one caller in, once, and only in its time; a credential
  ends with its session or its time; no sweep locks anyone out.
* Login routing: a name means one thing however it is used, and leads to what it
  meant at one moment while rules change; nobody is connected by a guess; sharing
  a name makes no target unreachable.
* Picker: the highlight stays on the screen and on its row; the list is in the
  order the header says.
* Console: the escape hatch opens exactly when it was typed; the bridge ends
  when either end does; nothing writes to the terminal once it is given back.
* Status bar: the guest's cursor stays where the guest put it; the bar's row
  stays out of the guest's region; the bar comes back; a session that ended
  leaves the whole screen.
* Transfers: what was answered is in the file; attributes hold.
* Transfer session: a caller gets the reply to its own request or an error, an
  operation happens at most once, every call returns, the helper does not stay.
* Staging: a transfer finds a whole helper at the final name or none.

## 2. The modules

| Module | Models | Checked through |
| --- | --- | --- |
| `Inventory` | instances, guests, rules; passes and administrators | `MCInventory` |
| `AccessCheck` | one check, statement by statement, and every edit of what it reads | `MCAdministration` |
| `EditedRows` | the rows both kinds of editor work on | extended by `EditedInstance`, `EditedPolicy` |
| `EditedInstance`, `InstanceEdit` | commands and pages that replace one instance row | `MCAdministration` |
| `EditedPolicy`, `PolicyEdit` | commands and pages that replace the default policy | `MCAdministration`, `MCPolicyEdit` |
| `Directory` | the layout of uids and gids, its validation, the directory's answers | `MCSessionTokens` |
| `Accounts` | the key lookup of a login, edits of clients and keys, open sessions | `MCSessionTokens` |
| `Admission` | what the login promises: one ticket per login, one caller per ticket | abstract specification |
| `SessionTokens` | the two token tables, the minting process, the presenters | implements `Admission`; `MCSessionTokens` |
| `Login`, `LoginCases` | routing of login names; a small estate of colliding names | `MCUserSession`, `MCLogin` |
| `Picker` | the interactive picker | `MCUserSession` |
| `Console` | the bridge of a console or a node transfer, and its end | `MCUserSession` |
| `StatusBar` | the bar, the filter that reads the guest's output, the way of a size | `MCUserSession`, itself |
| `Upload`, `Transfer` | an upload: handlers of the SFTP server over calls of the helper | `MCUserSession` |
| `FileService` | what a transfer session promises: each call takes effect at most once, answered or left in doubt | abstract specification |
| `HelperSession` | client, stream and helper | implements `FileService`; `MCHelperSession` |
| `Staging` | `StageCommand` run by several transfers | itself |
| `Editing_proofs` | theorems about `InstanceEdit` and `PolicyEdit` | extends both |
| `Session_proofs` | theorems about `Login`, `Picker`, `Console` and `Transfer` | extends the four |
| `HelperSession_proofs` | theorems about `HelperSession` and `Staging` | extends both |
| other `*_proofs` | theorems about the module named | extend the module |

`MCAdministration`, `MCSessionTokens` and `MCUserSession` bundle components that
share no state into one run: a variable says which of them runs in a behaviour,
and the others stay where they began. Each component is thus explored
completely on its own instance, and the sum of the parts, not the product, is
the cost. A component that is proved about has its properties in a module that
both the bundle and the proofs extend, so that the run and the theorem are about
one and the same formula. `Login`, `Picker`, `Console` and
`StatusBar` are extended whole.
Of the others the variables and the properties claimed of them are a module
(`EditedInstance`, `EditedPolicy`, `Directory`, `Upload`) and the steps another
(`InstanceEdit`, `PolicyEdit`, `Accounts`, `Transfer`), which the bundle
instantiates, as its names would collide with those of its neighbours. Where
components do share state (passes and administrators; check and edits; tokens,
minting and presenters; client, stream and helper; copier, loop, sizes and stop
on one terminal) they are in one module and interleave.

A definition whose comment begins with *Mutant* is a deliberately wrong variant
of the definition that follows it. No specification uses one: `PROJECT.json`
names, for each checked property, the variant under which it fails.

### Inventory

One step is one SQL statement, or one transaction where the code opens one. A
pass (`pc`, `listed`, `todo`, `live`, `cur`, `hit`) is a goroutine of
`RunOnce`, `RunDiscovery` or `discover`: it lists containers, then machines
(two requests, the host may change in between), stores each running guest with
a SELECT and an INSERT or UPDATE, and prunes. `UpsertFails` and `PassFails` are
the error paths; `Crash` is a restart of `serve`. Administrators add and remove
instances, and grant from *any listing ever shown* (`shown`), as the handler
checks nothing about the ids it is given. `intent` and `nodeIntent` remember
what the administrator was looking at when granting; only properties read them.

Transactions are atomic steps and statements do not interleave inside them.
That is SQLite's behaviour (one connection, `SetMaxOpenConns(1)`), the backend
modelled. On Postgres at read committed, a statement of another transaction can
fall between the SELECT and the DELETEs of a prune; that is not modelled.

Two instances may have the same host: `AddProxmoxInstance` is ready to answer
"an instance with api-url ... already exists" (`sql_repository.go:408`), but
SQLite migration 00007 rebuilt the table without the UNIQUE of `api_url`
(00001 to 00003 and Postgres have it), so on SQLite that answer never comes.

A pass under way when its instance is removed goes on inserting guests for it.
Nothing lists or deletes those rows; `Converges` speaks of registered instances.
`GrantsSurviveDiscovery` speaks of each step of a pass and not of two passes
together: a guest that an older listing prunes, and that a later pass stores again,
comes back with a new id and without its grants.

### AccessCheck

`ClientRule`, `ReadMine`, `ReadTheirs`, `GroupRule`, `DefaultPolicy` are the
statements of `HasAccess` and `HasInstanceAccess` with their early returns. An
`Edit` is one committed statement of a handler, on any table a check reads.
`start`, `wasAllowed`, `wasDenied`, `grew` and `shrank` record what was right
when the check began and since. `RemoveTargets` is the part of a prune, or of
the removal of an instance, that a check can notice: every rule of the rows that
go, in one transaction. Removing a client or a group leaves dangling ids behind,
in the model as in the code: the entries keep their effect for whoever is still
named by the other side, and come to speak of nobody else because no id is
handed out twice, which is what `TypeOK` says of `gone`.

### InstanceEdit, PolicyEdit

An editor reads the row, changes some fields of its copy and puts the whole copy
back. `fresh`, for the policy `current`, says whether anybody wrote in between. Commands resolve the node
name again when an address flag is given; the page puts back the name it
loaded. `unpaired` marks a row a page has added or re-addressed, for which no
claim about the node name is made. `PolicyEdit.OverTheWire` is the session's
mapper, which does not carry `node_access`.

### Directory, Accounts

`Validate` is the check of a layout at start-up; `UserByName`, `UserByUID`,
`Users` and `GroupByGID` are the directory's answers, a set of at most one
entry. A login looks its account up, has the administrators' keys listed, then
the clients', and opens; every edit of clients and keys may fall in between.
There is one key, which administrators and clients hold or do not, so that the
question is always who is meant by it. Nothing orders the rows of clients, so
of two that hold the key the model lets either be first. `seen` is the history
of who held the key while the listing was under way. What is claimed of a login
is claimed for one edit during its listing: two can move a key from a client to
the administrators so that neither statement sees it, and that login is refused.
`sshd` is external: it looks the account up first, takes the first line with
the key, and runs the session under the uid it looked up.

### SessionTokens

Time is a counter. `tokens` and `sessions` hold expiry times; sweeps compare
with a time read earlier by another process, as the code does. A caller is
anything that got hold of the token in the environment of a session: `AdmitsOnce`
says that of all of them one gets in.

### Login

A session is a sequence of questions to `serve`, one per step: the nodes, the
guests, the credentials. `Starts` is the dispatch by kind: a console, a command,
a transfer, and "guest connect". Each question may fail; a listing of nodes that
fails is taken for one without the name, as in the code. Between any two steps
`RulesChange` puts any other set of guests and nodes in place of those the user may
reach. `Connects` is the last question with what follows it: access may be denied,
and a command or a transfer is *refused* where the target is a virtual machine or
its instance has no SSH host (`Serves`; `guestcommand.go:73-83`,
`sftp.go:196-214`). The two are told apart, as the first is about rules and the
second about machines: a name can mean a virtual machine for a transfer as for a
console, and only the console gets in. So what is claimed is what a name
*denotes*, and to whom a door is closed, and not that each kind of session gets in.

Names are sequences of the parts between "@"s; `ParseGuestTarget` and
`resolveGuest` are the resolution shared with the commands. A login name is split
at an instance of a guest the user may reach, and so is a client's "guest connect";
an administrator's is split at any instance (`Qualifiers`; `cli/guest.go:81`). Left
out is that `Atoi` reads "0100" as the vmid 100, so a guest has one spelling of its
vmid. `LoginAssumption` says what the code relies on of its rows: names of
instances are unique (the schema) and hold no "@" (`resolve.go:25` argues from host
names, and no code checks it), an id begins with the type of the guest and so is
never a bare vmid.

Two histories are kept of a session. `meant` is what the name has meant from the
start until it was resolved, one target for each state of the rules; `disturbed` is
what has interfered: a failure, other guests, a node given, anything taken away.
`SamePlace` says that a name leads to a member of `meant`, and that nobody is
denied what was found or listed unless something was taken away. The first is not
claimed where a listing failed (see section 6), nor where a node was given *and* the
guests changed: the nodes are asked for before they have the new one and the guests
after they have changed, and the two answers together can be what the name meant
at no moment. `NeverAGuess` is claimed even then.

### Picker

Positions count from 0 and `all` and `shown` are one slice when no filter is on,
as in the code. How a row is scored against a filter is given as a table, each
column's order as a sequence. `filterRows` sorts by score and keeps ties in order
(`sort.SliceStable`); the model says so without saying how: a row stands behind
as many as are above it.

### Console

Every goroutine of `runSSHConsole`, `connectTermProxy` and `pumpSFTP` is a
program counter. `Key` is the escape reader, a byte at a time, and `UserTypes`
its loop over the buffer: after any key the read may go on or be written, so a
read is of any length. The link holds a `Window` of input for a guest that does not
read, so a copier can be stuck in a write for ever; `Joined` says whom each
transport waits for. The remote end is external: it may stop reading, keep the
session open after its input ended, and exit at any time, but it answers a close.

### StatusBar

The terminal is external, and does what the bar assumes of it; those assumptions
are executable in the repository (`console/screenmodel_test.go`). A cursor is
its row; the screen is two buffers with a cursor, one saved cursor and a scroll
region each. `AfterGuest` is what a sequence from the guest does to it,
`Noticed` what the filter makes of the sequence, one step later.
`withCursorKept` writes around a save and restore of the cursor, unless the
guest holds the slot. `WatcherSends` and `Resize` are the two halves of the way
a new size takes, through a channel of one place. A draw that would write
nothing is not a step.

`term.origin` is the origin mode of the terminal, `modes.origin` what the filter
believes of it. A resize resets the first and not the second, as nothing in
`StatusBar.Resize` tells the filter. `BarReturns` therefore
speaks of a guest in whose origin mode the *filter* does not believe; see
section 6.

### Transfer

A file is which pieces it has, its length and which attributes are the client's.
Each handler is one or more calls of the helper; a call is answered, refused, or
lost with the connection before or after it was carried out. The SFTP library
(external) hands pieces to its workers in any order. An open file is a path:
`SomeoneMeddles` is anybody else who acts on it, and where they do nothing is
claimed of the content.

### HelperSession

`up` and `down` are the two directions of the stream; `call` is where each call
is (waiting for the mutex, sent, answered, refused, in doubt); `closed` is the
flag that poisons the client. The helper's reading goroutine has a one-place
`inbox`, its main loop a `working` request; `IdleExit` is the timer, enabled
whenever the loop waits. `Cut` is the lost connection, `Dies` the death of the
session process, `Killed` the death of the helper. A request in `Stuck` never
returns from dispatch. The handshake is a call like the others and must come
first; `match` is whether the versions agree. Frames, chunking and what an
operation does to a file system are abstracted: an operation *took effect* when
`Acts` ran.

### Staging

The script, command by command. The temporary name is quoted, so the shell does
not expand `$$` and it is one file for all.

## 3. The runs

| Run | Result | What it shows |
| --- | --- | --- |
| `InventoryConcurrent` | holds | grants, deletions and prunes under two drivers, an instance added beside the first, one failure, host change or crash |
| `InventoryConverges` | holds | stored guests settle on the running ones |
| `InventoryDuplicates` | **violated** | `OneRowPerGuest`: two passes insert the same guest |
| `Administration` | holds | access checks exact without edits, right at some instant under one, monotone under two; lost updates keep address and node together; fresh edits of an instance and of the policy change what they mean to |
| `PolicyNodeFlag` | **violated** | `CommandsKeepNodeAccess`: `policy add` clears the flag |
| `SessionTokens` | holds | tokens: single use, no lock-out, expiry, refinement of `Admission`; accounts: uids keep apart, a key is its holder |
| `UserSession` | holds | login names, picker, console, upload and status bar: the properties listed with those modules |
| `OwnName` | **violated** | `OwnNameMeansProxpass`: a command under a client's own name runs in a guest of that name |
| `LatestSize` | **violated** | `LatestSizeArrives`: the bar keeps an outdated size |
| `HelperSession` | holds | replies, versions, refinement of `FileService`, termination |
| `HelperStuck` | **violated** | `HelperGone` when dispatch never returns |
| `StagingShared` | **violated** | `SeesNoneOrWhole`: a truncated helper at the final name |

Bounds and why they suffice:

* `InventoryConcurrent`: one host, one guest number, two instance ids, two guest
  rows, one target granted, one disturbance, two administrators (exchangeable,
  hence the symmetry; an administrator can start every pass the loop can). Two
  passes of one instance, a row removed and inserted again under another id, a
  stale grant and a second instance of the host all occur. The properties
  speak of one rule and one row at a time, so one granted target is enough; it
  can be revoked and granted again. What two different hosts would add, the
  theorems cover.
* `InventoryConverges`: two guest numbers, one of each kind, one instance, two
  disturbances, the loop and an administrator. `MaxGuestRows` is 12, more than
  the rounds can insert with two disturbances, so the bound never stops a pass
  (a pass stopped by it would never end, and the property would fail).
* `Administration`: "moves" has two groups and a guest and one edit between any
  two statements; "tiers" one group, a guest and a node, every policy, two
  edits. Two commands and a page on an instance of two addresses and two
  settings, and on a policy of two entries and the flag: enough for a lost
  update, and for one that wins over two. The proofs drop these bounds.
* `SessionTokens`: two logins with two presenters each, lifetimes 1 and 2 and
  times to 4, so that tokens and credentials expire, and are swept, in all
  orders. Accounts: the smallest layout with room for two clients and every
  layout one id away from it, valid or not, so that each condition of the
  validation decides about some of them; two stored names, one of them the
  reserved one, in two spellings, and a name that is none; three rows ever, so
  that an id is retired while a session of it runs.
* `UserSession`: the bar on terminals of 3 rows (too small), 5 and 6 (so that a
  resize may also lead from one height with a bar to another), one resize, and every sequence the filter knows, alone and in the pairs that undo each
  other within a read. Login: three guests, one a virtual machine, on
  two instances, one without an SSH host, colliding by name, id and instance name,
  and one change of the rules in a session, of both sets at once, between any two
  questions; the theorem has any number.
  Picker: five rows on windows that show three or four, filters of two letters,
  four unlike orders. Console: three keys (one more than the escape), one chunk
  of output each way in flight, all three transports. Upload: three pieces, so
  that they can arrive in an order that is neither theirs nor its reverse, with
  no, two or four attributes, onto a new or an existing file.
* `LatestSize`: two resizes, the fewest that can lose one.
* `OwnName`: the estate of `LoginCases`, and no change of rules.
* `HelperSession`: three calls, so that one is out, one waits for the mutex
  behind it, and one comes after the session was poisoned.
* `StagingShared`: two transfers and a helper of two blocks.

Deadlock is checked in the runs of `Inventory`, `AccessCheck`, `PolicyEdit` and
`Login`, which never stop, and in `Administration` also for an instance row,
where `InstanceDone` names the one state in which nothing is left to do.
Elsewhere the system ends by design, as the `.cfg` files say.

## 4. Fairness

Safety is checked without any.

* `Inventory!Fairness`: the background loop ticks for ever
  (`discovery.go:35-57`), and each step of a pass is eventually taken, as each
  request has a timeout and each statement a busy timeout; failures and crashes
  are not fair, and there are finitely many of them.
* `HelperSession!Fairness`: a call that holds the mutex goes on (a write or a
  read returns or fails), the two goroutines of the helper run, and its timer
  fires when nothing else happens. Nothing is assumed of connections, of the
  session's life, or of anybody calling. Only `HelperStuck` has operations that
  never return, so `HelperGone` in `HelperSession` says: the helper ends *if
  file operations do*. Weak fairness of the callers hands the mutex to each of a
  bounded number of calls; the theorem for any number of them asks for strong
  fairness (`MutexIsFair`), which `sync.Mutex` gives: after a millisecond of
  waiting it goes to the longest waiter.
* `Console!ConsoleFairness`: goroutines that can go on do, and the remote end answers a
  close. Nobody has to type, read, write or exit; the terminal may fail, and one
  that has not is writable. A copier stuck in a write stays stuck.
* `StatusBar!Fairness`: the copier finishes the chunk it has begun, the loop
  ticks, `maxCursorHold` runs out, a signal is handled and a queued size is
  taken. Nobody has to resize, send, fall silent or stop.

## 5. What is proved

For every value of the constants, from the named ASSUMEs of the modules, which
state the types of the constants and, for `Login`, the uniqueness described in
section 2. Two hypotheses are stated with the theorems that need them:
`TransferParameters` (a file has a piece, and attributes are those of the
protocol) and `NoGuestTwice` (no two rows have the same instance and id, which is
so unless overlapping passes have doubled one: finding 1 of section 6). The
liveness theorems have hypotheses of their own, described below.

* `Inventory_proofs`: `TypeCorrect`, `GrantsAreMeant`, `NoDanglingRules`,
  `DiscoveryKeepsGrants`, `PrunesAreListed`. A rule may name a row that has
  gone, so the invariant follows every row ever shown: their ids lie below the
  sequence, no two rows share one, and each rule names a row its subject was
  meant to reach. A fresh id is therefore named by no rule. `PrunesAreListed`
  adds that what a pass has listed is live or still to do. Everything here rests
  on AUTOINCREMENT: with ids that come back, `GrantsReachOnlyTheirTarget` fails.
  `OneAtATimeIsEnough`: no doubled row as long as no two passes work on one
  instance (`NoOverlap`), as with a single driver (`OneDriverIsAlone`). What a
  pass has seen vacant stays vacant until it inserts, for nobody else inserts there.
* `AccessCheck_proofs`: `TypeCorrect`, `EditsAreMonotone`,
  `UndisturbedChecksAreExact`, `OneEditIsLinearized`. While nothing was given,
  what the check collected was held at the start; while nothing was taken, all
  that was held has been, or will be, looked at, and no tier passed could have
  granted. An edit of memberships may give and take at once, and then neither says
  anything; but one edit changes one table (rules only in one direction), and so
  all that was read agrees with the tables of one moment, the start or the present.
* `Editing_proofs`, of an instance: `TypeCorrect`, `NodeGoesWithAddress`,
  `FreshEditsAreExact`. The row alone is not inductive: any form may become it.
  The invariant says of every form that it carries the node of its address
  unless a page moved it, and of one nobody overtook that it differs from the
  row in what its editor means to change. Of the policy: `PolicyTypeCorrect`,
  `FreshStoresAreExact`. A page may tick and untick, so "differs in at most what
  is meant" is not inductive for it; "differs in exactly that" is. For a command,
  which may add what is there already, it is the other way round.
* `Accounts_proofs`: `TypeCorrect`, `KeysIdentify`, `UidsAreApart`. Sessions
  outlive rows, so the invariant says of an entry that it is the administrator's,
  an alias's, or follows from an id handed out at some time; the validation of
  the layout keeps those three apart. For the keys: an edit touches the clients
  or the administrators' keys and not both, so after one edit the clients who
  hold the key are either those of the first statement or all its holders.
* `SessionTokens_proofs`: `TypeCorrect`, `TokensAreSpentOnce`,
  `SweepsSpareTheLiving`, `CredentialsEndWithSessions`, `LoginsAdmitOnce`. Once
  anybody has redeemed a token its row is gone for good; a row present carries
  the expiry its mint or exchange gave it, so a sweep at a time no later than
  the present spares what is alive.
* `HelperSession_proofs`: `TypeCorrect`, `RepliesAreOwn`, `VersionsAgree`,
  `SessionIsService`. One call at most is out; whatever stream and helper hold
  is that call, and they hold it once.
* Of `Staging`: `AloneIsWhole`, for transfers that stage one after another. The
  temporary file is then that of the transfer at work, and holds what it has
  copied; the final one is nobody's any more.
* `StatusBar_proofs`: `TypeCorrect`, `RowStaysReserved`,
  `StopGivesTheScreenBack`, `CursorIsLeftAlone`. Between a chunk on the terminal
  and its observation the bar does not know what the guest has done, so the
  invariant speaks of `Seen`, what the filter will have made of the chunk: the
  screen it will believe to be shown is the one shown, and the bar's row is out of
  the region or the chunk will latch a repair. `Seen` forgets a cursor the guest
  saved before, as `maxCursorHold` may expire in between; and it is because
  leaving the alternate screen is latched, too, that a resize in between is
  harmless.
* `Session_proofs`, of `Login`: `LoginTypeCorrect`, `NamesLeadToOnePlace`,
  `NobodyGuesses`, `EverybodyHasAName`. `SamePlace` is not inductive: it says
  nothing while a session still asks. The invariant adds that what the name means
  *at present* is in `meant` for as long as it is asked about; that a session which
  asks for guests either finds the name on no node even now, or has been given a
  node since and, if the guests are the same, is about to get an answer from `meant`
  (`NoNodeYet`); and that what was found or listed is still to be had unless
  something was taken (`StillOpen`). That a name means one thing under any rules,
  whoever asks, is `MeansOneThing`. `FreeNameIsProxpass` says when a user's own name
  does mean proxpass: as long as no node and no single guest they reach answers to
  it. The others are about the resolution alone: a qualified name is resolved among
  the guests of its instance, and the first of vmid, id and name that finds anybody
  is, when it finds one, a way in which nobody else is meant.
* Of `Picker`: `PickerTypeCorrect`, `ListStaysInOrder`, `HighlightIsKept`, for any
  rows, scores and windows. `ListIsInOrder` is inductive with the types. What is
  hard is that filtering is well defined: "above" is a strict total order on the
  rows that match, so how many are above a row numbers them without a gap
  (`Ranks`), and the list holds each once. Scrolling is arithmetic (`Scrolled`).
* Of `Console`: `ConsoleTypeCorrect`, `HatchIsExact`, `NobodyTrails`. What the
  reader remembers is a property of everything it has seen across reads: `done`
  that the escape is in it, `pending` that it ends in Ctrl+A. What was written
  and what is held are all that was typed until the input ends, and a prefix of
  it afterwards. Output ends at the end of what there was, or for want of a
  terminal, and nobody returns before the joining is done.
* Of `Transfer`: `TransferTypeCorrect`, `AnswersAreKept`, `AttributesAreKept`, for
  files of any number of pieces. No piece is under way before the file is opened
  or after its attributes are begun, so nothing truncates behind an answer and
  no write touches the times once they are set.

Each proof has the same shape: a strengthening (`IInv`; `LoginInv`,
`PickerInv` and so on where a module holds several), which the initial states satisfy
and every step preserves, with one step or lemma per action, and the property from it.

### Liveness

The prover knows ENABLED, of which weak fairness speaks, by name only, and it
cannot count: induction over numbers and sets is out of its reach. What it can
do is reason from one step to the next and combine the steps by temporal logic.
The liveness theorems therefore have two kinds of hypotheses. The first says
that a fair action is enabled where its guard holds (`Ready`, `CallsReady`,
`BridgeReady`); the guards are those of the actions, whose other conjuncts all give
a primed variable a value. The second says that something finite comes to its
end. TLC has confirmed each of them on the instance of the run that checks the
property, by adding it to that configuration.

* `InventorySettles` (`Converges`), with `Ready`, `Undisturbed` (disturbances
  end: their budget is a natural number), `Turnover` (again and again no pass
  holds a picture from before the last of them) and `RoundsEnd` (so does every
  round of the loop; lists are finite). A quiet step removes no stored guest that
  runs and adds none that does not (`QuietRows`), whoever takes it; the loop's
  pass on an instance keeps what it has done stored (`Sound`) and ends in a prune
  that leaves the running guests and no others; ids of removed instances do not
  come back.
* `HelpersGo` (`HelperGone`) and `CallersAreServed` (`CallsReturn`), with
  `Stuck = {}`, `Ready`, and for the second `CallsReady` and `MutexIsFair`. The
  call that holds the mutex is on its way to the helper, dispatched, carried out
  or answered, one after another, and each way leads to its return; so the mutex
  is free again and again, and a call that waits gets it.
* `BridgesComeDown` (`BridgeEnds`), with `BridgeReady` and `Drains` (output in flight
  when the link goes down is shown or given up; it is of any length). Escape,
  the end of the link and the end of a transfer's input each set off the next
  goroutine in a row that leads to the return.
* `BarComesBack` (`BarReturns`), with `Ready` and `LeftAlone` (the user stops
  resizing). Signal, size, chunk and hold are dealt with one after another and
  then stay so (`Calm`); in a calm the loop paints, and `ShownKept` says that what
  counts as painted is on the row.
* `RoomIsEnough` (`LatestSizeArrives`), with the same and `RoomForEach`, no size
  finding the channel full: the present height is the bar's, or in the channel, or
  a signal stands for it.

Of the six claims section 6 refutes, four have a theorem that says what they
lack: `OneAtATimeIsEnough`, `AloneIsWhole`, `RoomIsEnough`, `FreeNameIsProxpass`;
for a fifth it is `HelpersGo`, which supposes that operations return.

Only model-checked: the hypotheses just named, and the type invariants that the
three bundled runs check (`MCAdministration!TypesOK`, `MCSessionTokens!TypesOK`,
`MCUserSession!TypeOK`), which are conjunctions of those of the components, each of
which has a theorem. Every other property of the passing runs has its theorem.

## 6. Where code and words disagree

The six violated runs, and in `PROJECT.json` the lines they refer to:

1. Overlapping passes store a guest twice; only the test's sequential case is
   protected (`InventoryDuplicates`).
2. `policy add` and `policy rm` over SSH reset `node_access`
   (`PolicyNodeFlag`).
3. A helper blocked in a file operation outlives its session for ever
   (`HelperStuck`).
4. Transfers staging at once share the temporary file (`StagingShared`).
5. A size that finds the channel full is dropped and the older one stays
   (`LatestSize`).
6. Only the administrator's name is reserved, so a client whose own name a guest
   has gives its commands to the guest (`OwnName`).

Noticed while reading, without a run.

Storage and administration:

* the dropped UNIQUE of `api_url` (above), and guest rows of a removed instance
  that nobody deletes;
* the page puts back the node name of the old address (`app.js:870`);
* a database with colliding names refuses to start, while the tools its message
  names need `serve`; folding updates names one at a time, and a restart repeats
  it;
* REST `AddClient` does not validate names: a client called `admin` is listed
  and never found by name; instance names are not validated at all;
* `match.go` claims "identical semantics" with `sql.go`: an empty `$or` or
  `$and` is `()` in SQL and an answer in `Match`, an unknown operator is an error
  in SQL and accepted by `Match`, which validates nothing when there are no rows;
* groups' gids and look-ups by uid are not held against `MaxID`, though
  `idlayout.go:16` calls it the highest id proxpass will hand out;
* an administrator's session stays one after its key is removed, up to the
  credential's twelve hours.

Words:

* `guesthelper/client.go:18-19` speaks of a fallback to a shell that does not
  exist;
* `doc/architecture.md:97-99` describes node access without the default-policy
  flag;
* `doc/configuration.md:292-305` asks for `ExposeAuthInfo yes` and says that a
  key of two identities is refused; `docker/sshd_config.d/proxpass.conf:43` and
  `WriteAuthorizedKeys` let the first line win;
* `doc/configuration.md:323-325` gives administrators and "any other non-client
  name" one uid and the group `proxpass-admin`; in `idlayout.go` other names
  have `AliasUID` and the shared group;
* `statusbar.go:92-93` has the idle tick force a repaint so that a lost bar comes
  back; `draw` skips it when the text has not changed. A comment on `Observe` lists three sequences
  where a fourth (DECSTR) resets the margins as well;
* the comment of `filterRows` says ties are alphabetical; they follow the column
  last sorted by.

Behaviour worth knowing:

* a listing longer than `MaxFrame` ends the helper session; `Stat` on a symbolic
  link answers `Lstat`;
* bar: a draw between two reads that split an escape tears it; between the
  guest's write and its observation the loop may overwrite a cursor slot just
  saved; on the alternate screen each observed change gives up the guest's own
  region; on fewer than four rows the bar is inactive and `Resize` still says
  one row less; under termproxy the handshake's early output is cleared away;
* bar: a guest that has set the origin mode and whose window is then resized
  loses the bar until it resets the mode or sends a full reset. The terminal
  leaves the origin mode by itself on a resize, as the comment at
  `statusbar.go:316-319` knows; the filter, which changes its mind only at
  `modefilter.go:304` and `:328`, goes on believing in it, so `draw` skips
  (`statusbar.go:491`), although `Resize` is said to repaint
  (`statusbar.go:313-314`). Seen when `BarReturns` was stated with `term.origin`
  in place of `modes.origin`: it is violated on heights 5 and 6;
* an escape is not heard while the copier is blocked in a write (`escape.go:24`);
* a window made lower does not scroll the picker, so Enter may take a row that
  is off the screen;
* a failed listing of nodes lets a name shared with a guest reach the guest; a
  failed listing of guests hands a command for the guest to proxpass.

## 7. What is not modelled

The repository has some 43,000 lines of implementation. Almost half
(`internal/api/openapi_gen.go`, 19,456 lines) is generated from the OpenAPI
document: types, routing and decoding without logic of the system. Of the rest a
large share is test environment, rendering, help texts, flags, TLS, HTTP, terminal
and cryptographic detail. The map names the lines the definitions do stand for.

Left out for good:

* activity log, settings, host keys, versions and start-up, which are single
  statements or I/O with no state to interleave;
* list filters, a stateless translation over data the models abstract;
* downloads, listings and single calls of the SFTP server, each one call of the
  helper, which `HelperSession` covers;
* how a filter scores a row, which characters a login name may have, the bar's
  text: given as tables, or absent;
* Postgres' isolation, and escape sequences cut by a read.

Assumed of the outside: `sshd` (`Accounts`), the user's terminal (`StatusBar`),
the SFTP library's order of requests (`Transfer`), the remote end of a console
(`Console`), Proxmox's answers (`Inventory`, `InstanceEdit`).

## 8. Plan

Done: all modules of section 2 and the proofs of section 5.

Next, the most important first:

1. `Inventory` with `InstanceEdit`: an instance re-pointed to another host while
   its guests and grants stay (`adminhandlers.go:286`).
2. `Staging` completed: an upload cut short (`launch.go:82`), which `AloneIsWhole`
   does not speak of either; what holds when temporary names differ; the launch
   that follows.
3. Name folding at start-up, with a crash between two of its updates.
