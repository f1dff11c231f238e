# A verification project for edda

edda is a self-hosted git forge: one server process (plus a CLI) over a SQL
database and a directory of bare repositories. This directory holds TLA+
specifications of its core, written from the Rust source, TLC configurations
that check them on small instances, and proofs checked by TLAPS that hold for
every value of the constants. `PROJECT.json` ties every definition to the lines
it models, every property to a mutation of the code that breaks it, and every
hazard of the code to the properties that watch it.

## 1. Inventory

Crates under `src/crates/`: `edda` (the server binary and its job handlers),
`edda-app` (HTTP routes and services), `edda-auth`, `edda-db` (repositories of
rows), `edda-domain` (types and pure rules), `edda-git`, `edda-jobs`,
`edda-ssh`, `edda-web`, `edda-render`, `edda-cli`, `edda-telemetry`,
`edda-api-types`.

| Component | State | Operations | What is hard | What makes it correct |
|---|---|---|---|---|
| **Outbox and dispatcher** (`event_repo`, `dispatcher.rs`) | `events` rows with `processed_at` | append in the service's transaction; poll; read the fan-out; one transaction that claims the event and enqueues | reads before the transaction, two dispatchers, failure and crash in between | each committed event becomes its jobs once, all of them, and eventually |
| **Job queue and poller** (`job_repo`, `edda-jobs/lib.rs`) | `jobs` rows with status, attempts, `run_at`; a semaphore, a JoinSet | enqueue, claim batch, spawn, run, succeed/retry/dead-letter, requeue, delete, drain | claim races, crash with jobs running, aborted drain, discarded write errors, administrator against poller | one holder for each job, retry budget, every job ends, nothing is lost |
| **Pull requests** (`services/pull_request.rs`, `merge.rs`) | `pull_requests`, `pr_reviews`, `commit_statuses` rows, refs of the repository | open, review, ready/draft/close/reopen, merge by four strategies, dismissal by the dispatcher | read-verify-await-write handlers, git and SQL without a coordinator, gates read before the lock | the lock covers git and SQL, what is recorded has landed, gates hold |
| **Receive path** (`protocol.rs`, `quarantine.rs`, `refs.rs`, `hooks.rs`) | refs, HEAD, packs, quarantines, `LockRegistry` | advertise, quarantine, fsck, hooks, promote, ref transaction, roll back, repair HEAD, sweep | stale advertisements, vanished clients, crashes between objects and refs, rollback of shared files | pushes are atomic compare-and-swaps, refs stay connected, a refused push leaves nothing |
| **Fetch path** (`pack.rs`, `protocol.rs`, `edda-ssh`) | the refs; nothing between the requests of one client | advertise, negotiate, walk, pack, full or shallow, over HTTP and SSH | stateless rounds between which refs move, shallow boundaries, haves with holes below them | a client ends up with every object its refs need, up to the boundary it was told |
| **Repository life cycle** (`services/repository.rs`, `edda-git/lib.rs`, `transfer.rs`) | a row and a directory for each repository, blobs below it | create, fork, delete, LFS and asset uploads, import | two stores, no coordinator; checks before locks; the lock of another name | a row has its directory and a directory its row; what was accepted stays |
| **Accounts** (`edda-auth`: signup, oauth, organization, reset, verification) | `users`, `organizations`, `oauth_identities`, two token tables | sign up, link, provision, found an organization, ask for and follow a link, approve, disable, delete | strings of statements without a transaction, cut anywhere; two tables that share a namespace | a name has one holder, a link works once, no status is granted by accident |
| **Logins** (`login_throttle`, `totp`, `webauthn`, `backend`) | counters with windows, a secret, recovery codes, passkeys with counters | log in, lock out, enrol, activate, disable, submit a code, register and use a passkey, revoke | check-then-act over several tables by overlapping requests | nothing is spent twice, a lock holds, an active factor has its recovery codes |
| **Authorization and who changes it** (`authz.rs`, `access.rs`, team, collaborator, deploy key, branch protection, LFS locks) | roles, team members, unit overrides, tokens, keys, rules with allowlists | the checks; the calls that change what the checks read | a check is several reads, and the write it guards comes later | nobody does what he was at no moment entitled to; a rule is what was asked for |
| **Tracker** (`services/issue.rs`, `release.rs`, `repo_number_repo`, `label_repo`, `watch_repo`, `notification_repo`) | a counter, issues, labels, assignees, releases and tags, watches, notifications | open, close, reopen, merge, label, assign, comment, release, watch, fan out, notify, mark read | a bounded compare-and-swap loop, statements that see others' commits, handlers that run again | numbers without gap or repetition, the right readers told, labels and tags consistent |
| **Web interface** (`edda-web`) | signals and resources of each page | load, click, await the answer, restart a resource | answers of several requests in any order; errors | no dead button, no stale page after one's own write, one-time secrets stay |
| **Maintenance** (`maintenance.rs`, `scheduler.rs`) | `scheduled_jobs` rows | tick, mark_ran, run_now, sweep, prune | two statements without a transaction; work without the lock | a task runs once for each interval; nothing live is removed |
| **Webhooks administration, milestones, profiles** | rows | single statements | - | - |
| **Secret rotation** (CLI) | the sealed columns | load all, update row by row | beside a running server | no row keeps an old key, no new secret is overwritten |
| **Git reads for pages, SSH and HTTP shell, rendering, CLI, telemetry** | none that matters here | reads, framing, presentation | - | - |

How they meet. A service commits its change and an *event* in one transaction.
The *dispatcher* turns events into *jobs*, the *poller* runs them; handlers send
mail, deliver webhooks, write notifications, run maintenance. A *push* (HTTP or
SSH, the same `run_receive_pack`) holds the repository's lock, lands, and
appends a `BranchPushed` event whose fan-out dismisses stale approvals. A
*merge* holds the same lock for git and SQL, and closes the issues it names. A
*fork* holds the lock of its source; *create* and *delete* hold none. A request
of any kind is first *resolved* to an actor and *checked* against roles, teams
and rules. Locks are in-process tokio mutexes; the database and the directories
are all that survives a crash.

## 2. Modules

| Module | Models | Depends on |
|---|---|---|
| `Outbox` | the promise: an event owes each subscriber one piece of work | - |
| `JobQueue` | outbox table, dispatcher, jobs table, poller, tasks, administrator, process life | `Outbox` (refinement) |
| `PullRequest` | one pull request, its calls, reviews, statuses, branches, the lock | - |
| `AtomicRefs` | the promise: a push is an atomic compare-and-swap, or nothing | - |
| `ReceivePack` | one repository's pushes from advertisement to sweep | `AtomicRefs` (refinement) |
| `Fetch` | clones and fetches of that repository, and the walks that make a pack | - |
| `RepositoryLife` | rows and directories under creation, forking, deletion, pushes and uploads | - |
| `Accounts` | how accounts and organizations come to be, are activated, recovered, removed | - |
| `Logins` | the throttle, both second factors, and sign-in through them | - |
| `Access` | the checks, and the calls that change what they read | - |
| `Tracker` | numbers, issues, labels, releases, watches, and their notifications | - |
| `Pages` | every page of the web interface that loads or sends something | - |
| `JobQueueProofs`, `PullRequestProofs`, `ReceivePackProofs`, `RepositoryLifeProofs`, `AccountsProofs`, `LoginsProofs`, `AccessProofs`, `TrackerProofs` | theorems (those about `Pages` are in `PullRequestProofs`) | their module, TLAPS |
| `MC...` | instances for TLC: symmetry, views, starting tables | their module |

The modules share no variables: what one leaves open, another closes. The
events that `JobQueue` moves without looking at them are the events `Tracker`
fans out by kind; the lock that `PullRequest` holds while it merges is the one
`ReceivePack` takes; the directory whose objects `ReceivePack` keeps connected
is the one `RepositoryLife` creates, copies and removes; the accounts of
`Accounts` are what `Logins` signs in and `Access` gives rights to. Composing
them would multiply the states without adding an interaction that is not in one
of them: where two components do meet on shared state (a merge and a push, a
fork and a push, an upload and a deletion, a merge and an issue, a second
factor and a reset link, a team change and a push past a rule), both sides are
in the same module.

Conventions. Each request is a record `call[c]`, whose `at` says which of its
awaits it is at; an action is what a handler does from one await that others can
see to the next. Every module's failures are bounded by constants (`MaxFaults`
and the like) that stand for no code. Variables called *history* are read by
properties and by no guard. Mutants (definitions with a suffix, such as
`WinsJob_NoCas`) stand next to the definition they replace.

### JobQueue

`events` and `jobs` are the tables; `run_at <= now` is the flag `due`, which a
retry clears and `Wake` (time) sets again. Each process has a dispatcher
(`backlog`: the batch it fetched; `fanout`: the event it is on and the targets
it read) and a poller (`candidates`: rows of its SELECT not yet tried;
`claimed`: rows it has claimed but not spawned, waiting for a permit; `tasks`:
the JoinSet, each task first running and then with a result to write). Every
await that matters separates two actions: `FetchUnprocessed`, `ReadFanOut`,
`CommitFanOut` for the dispatcher; `SelectDue`, one `ClaimRow` for each UPDATE,
`SpawnTask`, `RunHandler`, `RecordResult` for the poller. The failures are
`FanOutFails`, `ClaimFails` (an UPDATE of a batch fails and the rows already
claimed are returned to nobody), `RecordLost` (the `let _ =` of `run_one`, or a
panic), `DrainGraceExpires`, `Crash`. `runs` is a history.

Abstractions: an event fans out to the targets subscribed when it is read, one
job each; rows in one batch come in any order; a handler ends with Ok or Err;
the branch of `run_one` for a kind without a handler is left out, since the
binary registers one for every kind.

### PullRequest

The source branch is a version and how much of the target it contains; the
target branch is the list of what landed on it. A call (`call[c].at`) goes from
`loaded` (the row was read and verified) either to one unconditional UPDATE
(`FinishRewrite`: ready, draft, close, reopen) or through the review gate, the
status gate, the lock, git, and the transaction of the row and its event.
`Drop` undoes whatever is not committed: the process died, the client's
departure dropped the handler at an await, a statement failed. A push to the
source branch appends its `BranchPushed` event afterwards, or loses it.
`DispatchPush` dismisses and then claims the event, or fails in between and
repeats; lookup and dismissal are one step. Events of close and the other
rewrites touch nothing the properties speak of and are left out; so are
comments, review requests and deleting the source branch.

### ReceivePack

`call[c].at` is where a push is: with its client (`advertised`), waiting for the
lock, in the blocking section (`writing`, `quarantined`, `promoted`, `landed`),
or over. `refs`, `head`, `packs`, `incoming` are the disk. An object graph is a
set of tips with their closures (`Needs`), a pack is a file name and the tips
inside it. The name is a hash of the pack's bytes, so that whether two clients
that send the same objects produce the same name is a constant, `SamePacks`:
git's packs of equal objects are often, not always, byte-identical. `Leave` and
`Detach` are a client that goes away: while its handler waits, nothing is left
of the push; while the handler awaits the blocking section, the lock is
released and the section runs on. Hooks may reject any push early or late.
`PromoteFails` is an I/O error of the promotion, or of reopening the repository
after it. `Crash` clears everything but the disk. gix-ref's transaction is taken
at its word: all edits or none, `MustNotExist` included.

### RepositoryLife

A name has a `row` (its id), `blobs` (rows of `lfs_objects` and
`release_assets`), a `dir` (the pushes whose objects are in its `store`, those
its `refs` need, the `files` uploaded) and a `lock`. Creation is quota check,
`MakeDir`, `InsertRow` (a refused insert leaves the directory there); a fork is `CheckFork`, `LockSource`, `CopyPart` of objects and of refs
in either order, `EndCopy`, `InsertRow`; a deletion is `RemoveDir`, then
`DeleteRow`. A push opens the directory (`OpenDir`) before it waits for the lock
(`LockPush`), then promotes its pack and moves refs; an upload writes its file
and then its row. `Drop` (a client that leaves: its lock goes, what runs on the
blocking pool goes on), `Fail` and `Crash` may come anywhere. `raced` collects
the names on which a deletion, or a fork, met something (`Meet`), about which
the code promises nothing; `crowd` counts the most creations that overlapped.

### Fetch

Commits are numbers with parents, content, dates and tags; a pack is the set of
objects in it. The pure part is translated from `pack.rs`: `Closure`,
`BuildPackExcluding` (wants without what is reachable from haves) and
`BuildShallowPack` (a breadth-first walk with a queue, limited by depth or date,
that also yields the new boundary). The state is the server's `tips` and each
client: what it advertised, wants, has, asked for, holds, and its boundary.
`Advertise`, `Request`, `Chunk` (SSH buffers until the request is complete),
`Negotiate` (the first of two stateless requests over HTTP), `Receive`; `Push`
moves the refs in between and `CommitLocally` gives the client commits the
server has not got.

### Accounts

`user[n]` is the account whose e-mail address is n's; `identity` links a
provider's subject; `token` holds both kinds of link. Signup is `BeginSignup`
(policy, shape, and the look into the other table), `Register` (insert, with the
columns' defaults), `Stamp` (what the policy says), then the confirmation mail:
`Clear` (older links), `Issue`. An organization looks and inserts (`BeginOrg`,
`InsertOrg`). An OAuth callback finds its identity (`SignIn`), or provisions an
account (`Provision`, `Register`, `Stamp`, `InsertIdentity`), or links one.
Following a link is look, `Act` (set the password, confirm the address), `Use`
(mark used). `Cut` stops a call after any statement. The histories `shared`,
`crowd` and `loose` record overlaps, `earned` records a status that the policy,
an administrator or a link gave, `sets` counts the passwords a link has set.

### Logins

`attempt[k]` is the counter of the account and of each address, with a window
that `Record` starts and `Arm` lengthens from the count another statement
returned; time is in units of `BASE_LOCK_SECONDS`, and `Elapse` passes one.
`totp`, `codes`, `spent`, `passkeys` and `links` are the tables of the second
factors and of reset links. A sign-in is `Check`, `Authenticate`, then `Record`
and `Arm`, or `Clear`, and `Decide`; a second step is `BeginCode`, `Consume`, or
`BeginPasskey`, `UpdatePasskey`. Set-up is `Enroll`; `BeginActivate`,
`SwitchOn`, `DropLinks`, `DeleteCodes`, one `InsertCode` for each code; or
`Disable`. The authenticator (`Sign`) is outside the code: it makes assertions
with an increasing counter, which may be delivered late or twice.

### Access

One repository of a user or of an organization with the teams Owners and Dev.
A call goes through the reads of its check in the order the code makes them:
`Ask` (the repository's row and visibility), `ReadDirect` (the collaborator's
row), `Decide` (team roles and overrides), for a push `ReadRules` and
`ReadAllowlist`, or `Unreadable`. Then comes the write: visibility,
collaborators, deploy keys, teams and their overrides (`ClearOverride`,
`PutOverride`: two statements), the rule of a branch (`SelectRule`,
`UpdateRule` or `InsertRule`, `ClearAllowlist`, one `FillAllowlist` for each
user), LFS locks. Actors are users, a token, a deploy key and nobody. `had` is
the history of what each call's actor was entitled to in the states it lived
through; `asked` is what the last undisturbed change of the rule asked for.

### Tracker

`next` is the counter, `rows` the numbers given. An allocation makes sure of the
counter's row, reads it, and tries the conditional UPDATE, at most `MaxAttempts`
times, in the transaction that also inserts the row (`Insert`); with PostgreSQL's
READ COMMITTED a losing UPDATE waits for the winner's commit and sees it. Close,
reopen, assign, comment and merge append events; a label is applied in two
statements that see what others commit; a release resolves or makes its tag and
then inserts. `FanOut` reads who is involved, `Enqueue` commits the jobs for
watchers without those who ignore and without the actor; `Look` and `InsertNote`
are the two statements of `insert_if_new`. `torn` collects the scopes whose
applications overlapped.

### Pages

A panel is a component or a part of one that shares no signal with the rest.
What every button does is in four tables over the names of the buttons:
`Effects` (which resources the request changes on the server), `Spawned` (which
flag the handler raises; which resources it restarts, flags it lowers and secrets
it shows after success or error), `Signalled` (clicks without a request) and
`View` (when the page offers it). The machine around them is small: `Send`,
`Pick`, `Serve`, `Succeed`, `Fail`, `FetchEnds`. `db[r]` counts the versions of
what a resource would be answered with, `shown[r]` is the one on the page and
`told[r]` the one its reader knows he has written. `Untended` lists the pairs of a
button and a resource it changes without restarting it; the properties except
exactly these, and section 4 names the ones a reader notices.

## 3. Runs

| Run | Instance | Question and answer |
|---|---|---|
| `jobs_two_processes` | 2 processes, 1 event, 2 targets, 2 rows, 1 fault, 1 glitch | Can overlapping SELECTs, fetches or failures give a job to two hands, or fan an event out twice, in part, or past a standing subscriber? No. (947 k states) |
| `jobs_one_process` | 1 process, 2 permits, 1 fault, glitch, shutdown and requeue each | Is the retry budget kept, and is all of it an `Outbox`? Yes. (118 k) |
| `jobs_progress` | 1 process, batches of 1, 1 permit, a glitch, a shutdown, no kill | Is every event dispatched and does every job end? Yes, under the fairness below. (280 k) |
| `pull_request` | 2 handlers, 1 push, 1 foreign commit, 1 review, 1 fault | Do the lock, the record and the gates hold, and does every call return? Yes. (374 k) |
| `pushes` | 3 pushes, 2 branches, 2 commits, 1 fault, 1 leave | Are refs connected, rejected pushes without trace, HEAD repaired, and pushes atomic compare-and-swaps? Yes. (820 k) |
| `repositories` | 3 requests of any kind, a repository of somebody else, its fork and a second name of the account, quota 1, 1 fault, 1 leave | Do database and disk agree again, does nothing accepted or copied get lost, is the quota kept? Yes, by no more than what overlaps, and apart from a deletion that meets something. (237 k) |
| `fetches` | 1 client, 6 commits with a merge (1 of them local), 2 tags, 2 fetches, eight states of the refs | Is what a client ends up with complete, and do shallow answers agree with each other and with what was asked? Yes, for who had no boundary. (126 k) |
| `accounts` | 3 requests, 2 names, 1 cut, 1 act of an administrator or of the clock | One holder for each name, every subject linked, links that work once, statuses by right? Yes, unless requests overlap where the code says so. (1.56 M) |
| `logins` | 3 requests, 1 address and none, 2 recovery codes, 1 cut, 1 tick, 2 assertions, from three accounts close to a lock | Is a code or assertion spent once, a set-up complete, a lock held? Yes. (1.02 M) |
| `access` | 2 requests at a time by two users, a token, a key or nobody, 1 fault, from a private organization's and a public user's repository | Is there for everything a call did one moment at which its actor was entitled to it; is a rule what was asked? Yes. (693 k) |
| `tracker` | 2 requests at a time, 3 in all, 2 users, 3 labels, 2 attempts, 1 fault, from six starting points with a menu each | Numbers, notifications, labels and releases? They are right, but for overlapping label changes and moved tags. (2.18 M) |
| `pages` | every panel alone, 3 clicks (2 on the two largest), any order of answers, errors | Dead buttons, stale pages, lost secrets? None but `Untended`. (749 k) |

Bounds. Two processes and one contested row exhibit every claim race, since a
race is between two SELECTs and one row; two attempts give a retry and a dead
letter; batches of one with three rows give a limit that leaves rows behind;
one permit gives back-pressure. Two handlers give every read-verify-write race
on one row, and one foreign commit gives both fast-forward outcomes. Three
pushes give an advertisement overtaken by one push while another waits; two
branches give a push half of which is stale; a chain of two commits gives a
pack that relies on objects already there. Three names of which one is the fork
of another give every pair of operations that share a row, a directory or a
lock, and the third request is the bystander that must not suffer. A merge
whose parents have different depths and dates, a tag of a tag, and a commit the
server lacks give each branch of the walks. Three requests for two names give
two that race and one that looks on; two recovery codes give a cut in the middle
of a batch; one failure short of the threshold gives the lock, ten failures give
its growth to the cap. Two reads of a check with the change of either row in
between need two requests, no more, and levels 0 and 2 (none and write) are on
both sides of every test of a push. Two labels of one scope and one of none
give the conflict and its absence. Two clicks give two requests on one page
whose answers come in either order, the third comes while a restarted fetch is
out. All counters of faults, glitches, stops, requeues, leaves, ticks, clicks
and calls are bounds of the model only and each is a named constant.

Symmetry is used in runs without liveness only. The views of
`jobs_two_processes`, `jobs_progress` and `logins` drop what no guard and no
property of the run reads. The deadlock check is on in the three runs of
`JobQueue`; it is off elsewhere because, with the bounds used up and every call
over, nothing is left to do. For `JobQueue`, `PullRequest` and `ReceivePack`
type correctness is a theorem and is not run again.

Fairness. `JobQueue`: the loops are spawned tasks that tokio polls, so a
dispatcher, poller or task step that stays enabled is taken (weak fairness for
each process); time passes (`Wake`); a supervisor restarts a stopped process.
Nothing is assumed of services, users, administrators or faults.
`jobs_progress` grants no kill, because with one the claim is false (section 4).
`PullRequest`: a handler that can go on does (weak), and tokio's Mutex is a FIFO
queue, so a waiter that sees the lock free again and again gets it (strong
fairness of `AcquireLock`). The other modules state safety only: their requests
are strings of statements without loops or waits on each other, except the lock
of `RepositoryLife`, which is the one of `PullRequest`, and the allocation loop
of `Tracker`, which the code bounds and lets fail.

## 4. Where code and comments part

Met while modelling. No run asserts these: properties are stated as the code
keeps them, with the exception written out, and the exceptions are listed here.
Each paragraph names the property that carries the exception, if one does.

**Jobs.** A `running` row whose process is gone is never taken up again:
`claim_batch` selects pending rows (job_repo.rs:116), requeue accepts failed ones,
delete refuses running ones, although job_repo.rs:186-188 promises that work is
"never silently dropped" (`JobsSettle` is claimed without kills). A retried
webhook delivery is delivered again (jobs.rs:405), where dispatcher.rs:18-19 says
"at-most-once *effect*". The scheduler enqueues and then marks the task as run
(scheduler.rs:95-110): a crash in between enqueues it twice, and a `run_now` in
between is overwritten.

**Pull requests.** `close` and `convert_to_draft` overwrite a merge that
committed after they read the row (pull_request_repo.rs:286). A push while a
pull request is closed dismisses nothing, and its approvals count again after it
is reopened (dispatcher.rs:683): `FreshApprovals` speaks of dismissing pushes.
`require_up_to_date` is read by no gate (pull_request.rs:487).

**Pushes.** Rolling back a promoted pack deletes a file that an identical,
earlier push relies on (quarantine.rs:212): the hypothesis `~SamePacks`. The
lock is released when the client goes away although the blocking section runs on
(protocol.rs:681); the refs' compare-and-swap still keeps pushes atomic, but a
merge is no longer excluded and the push is never recorded.

**Repositories** (`raced` and `Calm`). A deletion removes the directory, then the
row; the comment at admin_routes.rs:602-604 prefers the opposite leftover. A push
that waits for the lock while its repository is deleted makes the directory
again. `fork_repo` tests for its destination before it takes a lock, and that
lock is the source's; the fork of a source deleted meanwhile is an empty
directory. A fork copies LFS files without their rows, against store.rs:24-27. A
second upload of an asset overwrites the first and adds a second row.
`copy_closure` (transfer.rs:98) writes a commit before its trees and parents and
prunes at objects that are there: an import that is cut is never completed, in
spite of the comment at lines 82-85.

**Fetches.** `build_pack_excluding` calls what is reachable from a have "objects
it already has" (pack.rs:31-33), which is not so of a shallow client that fetches
without deepening: it is left with a repository that lacks objects
(`UnboundedFetchesComplete` speaks of the others). With several wants, one of
them a tag, a clone of depth n may stop early (`CloneDepth`). Over SSH a client
with nothing to want that flushes and closes waits for the inactivity timeout.

**Accounts.** A crash between the insert and the stamp leaves an account approved
and verified by the columns' defaults (`stamped` in `StatusKept`). A callback cut
between account and identity strands the account: its address is taken and its
subject unlinked. "Only one active reset link" (password_reset.rs:61) is false of
two overlapping requests (`crowd`). The `expect` at oauth.rs:307 panics if the
account is deleted in between. `OAuthIdentityRepo::delete` has no caller.

**Logins** (`mixed`, `tangled`, `loose`). Overlapping failures may shorten a lock,
overlapping passkey sign-ins move the stored counter back. An enrolment between
the check of a code and the UPDATE activates a secret for which no code was
shown. Recovery codes are replaced without a transaction. `has_totp` and
`has_webauthn` read a database error as no second factor. Secret rotation
(edda-cli, main.rs:261) loads all and writes row by row beside a running server:
it may write an old secret over a new enrolment.

**Access.** `resolve_receive_checks` turns an error into no checks, on both
transports (`unread` in `EntitledOnce`). Two overlapping changes of a rule leave
the union of their allowlists, a cut one an old or an empty list (`asked`).
`set_unit_permission` deletes and then inserts: a reader in between sees the
team's default. A check's two reads may refuse somebody who was entitled
throughout. SSH resolves the rules when it advertises. The last member of Owners
can be removed (organization_repo.rs:33-36). Attaching a team again changes
nothing. The comments on who may release a lock (lfs/mod.rs:541-545,
lfs_repo.rs:190) and the code differ.

**Tracker.** Two overlapping closes, or a close and a merge, both announce
`IssueClosed`. "A reader must never observe" two labels of a scope
(label_repo.rs:126-131) is false of overlapping applications under READ
COMMITTED (`torn`). Two overlapping handlers write a notification twice, as the
comment there accepts (`alone`). A release for a tag that exists ignores the
target asked for; if its insert fails, the tag stays. Mentions and assignments do
not look at the watch level.

**Pages** (`Untended`). After signing in the navigation bar does not ask again who
is signed in (layouts/mod.rs:73-80), the unread badge stays after mark-read
(152), the e-mail switch is not fetched again and drops its errors
(settings.rs:551-562), administrators' actions do not refresh events and counts.
Besides: `action_error` stays after a success, `NewRepoRow` has no busy flag
(components/repo.rs:187), a double click on a directory enters it twice
(repo.rs:610-617), the previous commit's diff stays under the next one until it
arrives, sign-out ignores its answer.

## 5. Proofs

Every theorem is about the specification without fairness and for all values of
the constants that satisfy the module's named assumptions
(`JobQueueAssumption`, `PullRequestAssumption`, `ReceivePackAssumption`,
`AccountsAssumption`, `NoneIsNoAccount`, `LoginsAssumption`, `TrackerAssumption`,
`AccessAssumption`, `RepositoryLifeAssumption`), which TLC evaluates in the runs.
`TablesAssumption`, of `Pages`, is about its tables and no constant (see below).
The others say what the bounded constants are: finite sets and naturals; that requests,
names and None are different things; and where a behaviour starts. That of
`RepositoryLife` also says that a name in the account's namespace is its own
fork's name, so that the source of a fork is never one of them.

- **JobQueue**: `TypeCorrect`; `ExclusiveClaims`; `FansOutExactlyOnce`;
  `RetriesBounded`; `QueueIsOutbox`. A
  claim is exclusive because what is held is marked running and a row is only
  won from pending: the property is inductive together with typing (`ClaimIsNoTask`
  keeps rows and tasks apart). `FanOutExactlyOnce` is not inductive: the
  transaction is right only because standing subscribers stay subscribed, the
  targets a dispatcher read contain them, and unused rows name no event.
  `FanOutInv` adds these. `RetriesBounded` holds under the hypothesis that there
  is one process: of two pollers, the second may win a row that was put back
  since its SELECT, and then writes the stale number of attempts it read.
  `BudgetInv` says that what a poller and a task hold of a row still is the
  row's. `QueueIsOutbox`: each step of the queue is a step of `Outbox` or
  invisible. It needs `ExclusiveClaim` (the row whose result is recorded is
  running, so it is owed) and `FanOutInv` (an event has one row for each target,
  so the duty that ends is this row's and no other's).
- **PullRequest**: `TypeCorrect`; `MergesAreLocked`; `MergesAreRecorded`;
  `ApprovalsAreFresh`. `MergeInv` adds `Landed` to the two:
  behind the commit that a call at `landed` is about to record, something other
  than a push is on the branch; the lock keeps that commit the tip, and the
  branch only grows. `FreshInv` says that an active approval is at least as new
  as the last dismissing push, which is no newer than the branch.
- **ReceivePack**: `TypeCorrect`; `RejectedLeavesNoTrace`;
  `RefsStayConnected`, under the hypothesis `~SamePacks`, which section 4 shows
  to be needed: a ref may rely on objects its own push did not bring, because
  the client had seen them advertised, so `StoreInv` says that what refs and
  advertisements name was brought by pushes that landed, whose packs are in
  place for good; `PushesAreAtomic`: every step of `ReceivePack` is a step of
  `AtomicRefs` or invisible, with `Unasked` (a push that was not sent wishes
  nothing) as the only invariant beyond typing. `HeadIsBorn`: `HeadBorn` is
  inductive with typing, for a push that unsets HEAD keeps its repair to do.
- **Accounts**: all five of the run's properties. What every proof needs is
  `IdInv`: an account was there from the start or is the one its call inserted,
  under that call's name, so that two rows never share an id. `NamesNotShared`:
  `HolderInv` carries the race into the calls. For a name nobody raced for, a
  signup that has passed its test does not meet an organization, nor the other
  way round, nor do two such calls meet each other. `SubjectsLinked`: `Linked` is
  inductive with `IdInv`, since the account a finished callback made is found
  again by that id. `StatusByRights`: before its stamp an account has the
  defaults (`Default`) and nobody holds a link to confirm it or is about to issue
  one (`RawInv`, with `RefInv`: whoever refers to an account refers to one that
  was inserted), so the stamp takes nothing away that was earned, and afterwards
  each status is kept or earned (`StatusEarned`). `LinksOnce`: `MailInv`, for an
  account and kind without overlapping requests, has one request at most between
  clearing and issuing, with no live link while it is; `FollowInv`, for a link
  followed by one call at a time, has the link used, or its follower about to use
  it, whenever it has set a password. `AccountsTypes` adds to these what only the
  type invariant speaks of (`WideInv`): deleting an account takes its links along
  (the foreign key), so every link has its account; a follower knows its link; and
  a link has set no more passwords than there are calls that have acted.
- **Logins**: all four of the run's properties. `LocksHold`: a login past its read
  of a key found no lock there, or one that was armed while it was already under
  way (`StopInv`, key by key in the order `check` reads them). For a key without
  overlapping logins the window fits the count and the one login about to lock it
  still knows the count (`GrowInv`), and more failures never mean a shorter window
  (`WindowFacts`). `SecondFactorOnce`: a recovery code that was accepted is spent
  or gone, and a batch is numbered upwards by one activation (`CodeInv`), so no code
  comes back; while passkey sign-ins do not overlap, the stored counter is at or
  above every assertion accepted (`PassInv`). `SetupStays`: while set-ups do not
  overlap, at most one call writes and the codes on record are the part of its
  batch inserted so far (`SetupInv`); a call that has dropped the links of before
  its factor only meets links of its own era or later (`LinkInv`). `LoginsTypes`:
  a login owes each key at most one failure, so a counter is at most what it was at
  first and one for each call that is through with the key (`TallyInv`).
- **Tracker**: `NumbersAllocated`: between the conditional UPDATE and the commit
  only the transaction that won can be counted on the next number, because the
  row's lock makes every other wait; so the numbers of the rows are 1 to the
  counter's predecessor at each commit and roll-back. `EverybodyTold`: `HeardInv`
  carries an event from its commit to the notifications. Until the fan-out the
  watches and assignments of whoever has not touched his own still say who is to
  hear (`Pending`), also to a dispatcher that has read the assignments and not yet
  the watches (`FanningOut`); from then on each of them has the job or a
  notification that covers the event (`Owed`); and a notification that is still
  unread covers every event of its kind so far (`Speaks`), which is why a handler
  may skip its insert. `Overlapped` says which jobs and notifications can have been
  looked at together, so that `NoTwin` is inductive. `TrackerTypes` bounds the
  numbers: what the counter has reached, the allocators under way and the calls
  left never grow together (`Room`). `LabelsAndReleasesKept`:
  for a scope that no two applications have torn, what a call saw before it
  writes contains every label of the scope that is on; a release about to be
  inserted names the tag's commit or knows that a push moved it.

- **Access**: `ChecksWereEntitled` (`EntitledOnce`). `AllSound` says for each place
  of a call what its actor is known to have been entitled to: after the first
  read what the own row gives, past the check what the operation asks for
  (`Base`), past the rules of the branch that it may merge if none of them is
  linear. A check passes on the better of two roles read at two moments
  (`BestRole`), and each of them was less than the actor's rank when it was read
  (`RankBounds`, `EntitledByRole`). At the allowlist, the foreign key and the
  single rule make the row that was found speak for the rule as it is then
  (`RulesSound`). `LocksKnown` is for the release of a lock: ids are never
  reused, so a lock found to be one's own is still the one that is taken.
  `RuleSettles` (`RuleAsAsked`): a change of the rule that has met no other knows
  at each of its statements what rule and allowlist look like (`Alone`: after the
  upsert the row is the one asked for, after the delete the allowlist is empty,
  then it is the part inserted so far), whatever was there before it. `RowsHold`
  is typing, with one owner, one rule and one lock at most.
- **RepositoryLife**: `QuotaKept` (`Quota`). A creation was under the quota when it
  counted; `QuotaInv` says that the rows and the creations under way together
  pass it by at most the others that were under way then, so an insert only moves
  one from the second sum to the first. `HistoryKept` (`NothingLost`): `Met` turns
  two calls that are both under way on one name into membership of `raced`. For
  the pushes, `Pushed` says that beside an accepted push no fork is about to copy
  into its name. For the copies, while no fault has happened, `CopyInv` says that
  a section holds its lock (`Locked`), that a promoted pack stays until its refs
  are moved (`Promoted`), that where nobody copies the refs name what is in the
  store (`Whole`), and that where somebody does they name that or what the
  source's refs name, and that the objects copied contain the source's
  (`Halves`): the source cannot change meanwhile, for pushes and deletions wait
  for its lock and nothing is created or copied into it.
  `SettledKept` (`Settled`): `DiskInv` says, while no fault has happened and off the
  raced names, where each call stands between row and directory: one call at most
  has made one of the two and not yet the other (`Pairs`), a fork's source is still
  there (`Sources`), and an LFS row that is on record, or about to be, has its
  bytes (`Objects`). `TypesKept` is typing, with every lock held by a call that is
  inside its section and every object row belonging to a repository's row.

- **Pages**: all three of the run's properties, for every page and any number of
  clicks; they stand in `PullRequestProofs`, which takes `Pages` as an instance.
  The prover gives the operator `@@`, with which the tables are put together, no
  meaning, so what the proofs need of the tables is `TablesAssumption`: three facts
  without parameters, which TLC evaluates on the tables themselves. `FlagsGuard`: a
  request's flag disables its own button, and neither an ending nor a click without
  a request touches a flag. `WritesTended`: a success restarts what its request
  wrote, or goes away, or the pair is in `Untended`. `SecretsGuard`: each secret has
  one giver, and whoever hides one either gives the codes for the enrolment or is
  offered neither while it is on display nor beside its giver.
  `FlagsTellRequests`: a flag is up exactly if a call that raised it is under way,
  and no two such calls are (`FlagHeld`). `WritesAreShown`: a fetch under way, or
  else what is shown, is at least as new as what the page was told, which is no
  newer than the server's (`Fetched`); a call knows of no write that the server has
  not made, and what nothing ever restarts was answered before it was clicked, so
  that no fetch of it is under way (`Waiting`). `SecretsStay`: while a call whose
  success hides a secret is under way, none is on display (`Telling`), since its flag
  keeps the giver out; and what a giver brings is no older than what is on display,
  since its own flag keeps it from being clicked twice (`SecretInv`).

Only model-checked: the properties of `Fetch`, and `EventsDispatched`,
`JobsSettle` and `CallsReturn`. The last three are liveness under fairness, which
needs ENABLED and is out of the prover's reach. What the walks of `Fetch` compute
is recursive and would need induction over data, which is out of reach as well.

## 6. Not modelled, and the plan

Not modelled for good: what is pure or keeps no state (diff, blame, search,
archives, rendering, framing, the API types), single statements without a
property of their own (webhooks' fields, milestones, profiles), the browser's
side of a passkey ceremony, mail and the provider's protocol, cryptography
(its verdict is an input), and configuration read once at start.

Not modelled yet, in the order of the plan:

1. `Scheduler`: tick, `mark_ran`, `run_now`, two processes, crash. Property: a
   task is queued once for each interval, and `run_now` is not lost.
2. Secret rotation as a further actor of `Logins`. Property: no row is left
   under an old key, no enrolment is undone.
3. The import of a fork's tip (`transfer.rs`) in `RepositoryLife`: a cut copy, and
   a second one over it. `prune_empty_dirs` beside a push depends on how gix-ref
   retries mkdir, outside `src/`.

The hazards without a property (`PROJECT.json` gives the reason for each) are the
unconditional UPDATE of a pull request's state, for which only the divergence
above can be stated, and the import.
