# Vantyx in TLA+

Vantyx is a gateway for remote access: users open terminal (SSH, Telnet), RDP and
VNC sessions through it, share a running session with others, move files, and
everything is recorded and audited. This directory models the parts of it in which
several goroutines, requests, processes and stores have to agree, checks the models
with TLC and proves nearly all of their safety properties with TLAPS.

1. [The system](#1-the-system) — inventory of the components
2. [Modules](#2-modules) — what is modelled, and how state and actions correspond to the code
3. [Runs](#3-runs) — what TLC checks, on which instances, and what that shows
4. [Fairness](#4-fairness)
5. [Proofs](#5-proofs)
6. [Where the code and its documentation disagree](#6-where-the-code-and-its-documentation-disagree)
7. [What is not modelled](#7-what-is-not-modelled)
8. [Plan](#8-plan)

`PROJECT.json` has the same facts for machines: components, runs, mutants, the map
from definitions to source lines, findings, hazards and theorems.

## 1. The system

### A session and the people in it

| component | state | operations | correct when |
|---|---|---|---|
| sharing room (`sharing/registry.go`) | participants with role and invitation, write token, kicked users, write requests; a registry of rooms | EnsureRoom, Remove, AddViewer, RemoveParticipant, Unkick, RequestWrite, GrantWrite, DenyWrite, ReleaseWrite | the token is always with somebody present; a removed user stays out; the token moves only by a grant of a pending request |
| invitation store (`sharing/sqlite_store.go`, `invitations.go`) | a row per invitation, a table of consumers | Create, RecordUse, MarkRevoked, UpdateTokenHash, and predicates evaluated on copies of a row | no cap is exceeded by concurrent joins; the SQL guard is never laxer than the Go predicate |
| join, invite, kick, revoke (`httpapi/sharing*.go`, `sharing/service.go`) | copies of rows held by requests in flight | the handlers, each a sequence of calls on the room and on the store | viewers have consumed an invitation; a kick is lifted by name only |
| live bridge (`sshproxy`, `telnetproxy`, `bridge_detachable.go`) | the client map with a canWrite flag each, an attach channel of 16, a reader per client, the replay buffer | attach, detach, SetWriter, DetachUser, reading input, pumping output | one user's clients can write; a client sees all output, once from the replay and then live, and nothing after the end |
| VNC bridge (`vncproxy/bridge_detachable.go`) | a connection to the target per client, two copiers each | attach, SetWriter, DetachUser, end | no connection is left open; one user drives |
| Telnet filter (`telnetproxy/iac.go`) | the unfinished command of the last chunk | Filter | the result does not depend on how TCP cuts the stream |
| session lifecycle (`session/manager.go`, `httpapi/terminal.go`, `sshd/cli_menu.go`) | the session map, a context, the connection, a recording, a room, a bridge registration | Start, the session goroutine, Stop with its timeout | whatever way a session ends, nothing of it is left; a leak is reported; a stop takes effect |
| RDP sessions (`rdpvnc`, `httpapi/rdp*.go`) | bridges of three processes, maps by key and by session | attach, start, replace, stop, exit | no desktop runs that nothing lists; one session per user and target |

### What sessions leave behind

| component | state | operations | correct when |
|---|---|---|---|
| screen recordings (`httpapi/video_recording.go`, `recording/governor.go`) | capture slots, rows, ffmpeg processes, a registry | capture, finish (twice), kill | a session that is over is not captured on; a file is not cut off; slots come back |
| recording files (`recording/remux.go`, `httpapi/recording_remux.go`, `retention.go`, `recordings_delete_handler.go`) | a row and a media file per recording, one temporary file | remux after a stop and by the backfill, delete, retention, restart | a row has media that plays, a file has its row |
| command log (`httpapi/command_line_tracker.go`, `command_store.go`) | the line the target shows, the cursor, an unfinished escape sequence, the keys typed | output, keys, Enter | the line is the one a terminal shows, however the output is cut; a command is logged as typed |
| exports (`httpapi/recording_export.go`) | jobs, files, one goroutine per job | enqueue, run, cancel, sweep, delete the recording | every file has its job and every finished job its file |
| file transfer jobs (`filetransfer`, `httpapi/file_transfers*.go`) | a row per job, staging files, live handles | Create, the goroutines, Cancel, DELETE, reaping, trimming | no row stays active without a goroutine; what is completed can be served |
| backup and restore (`httpapi/backup.go`) | snapshots, the pending file, the database with its log | create, scrub, verify, prune; stage, apply at start | a good snapshot remains; the server comes up on a whole database, and restores no login session |
| audit forwarder (`httpapi/audit_forwarder.go`, `audit_sink.go`, `settings_*.go`) | a row, the forwarder in use, per forwarder a channel, a goroutine and a connection | PUT, send, dial, close, restart | one runs, as configured; none is closed twice or left behind |
| migrations (`db/sqlite/migrate.go`, `router.go`) | columns, marks, the first account | the start of the server, crashes, errors | requests are served on the whole schema; a one-shot migration runs once |
| webhooks (`httpapi/webhooks.go`) | the list in memory and in a row, a bounded queue, statistics | PUT, dispatch, deliver with retries, test, restart | every delivery is counted; what runs is what a restart loads |

### Who may do what

| component | state | operations | correct when |
|---|---|---|---|
| login limiter (`ratelimit/login.go`) | failures per address and account | allow, record, sweep, purge | the budget holds up to what overlaps; nothing that counts is forgotten; memory is bounded |
| signing in (`auth`, `httpapi/auth_*.go`) | password, TOTP row, passkeys, pending logins, sessions | login, second factor, enrol, confirm, reset, change password | the second factor is asked for; a recovery code works once; sessions end with the password |
| accounts (`httpapi/users*.go`, `auth/api_tokens.go`, `sshd/server.go`) | users, running sessions, API tokens | patch, delete, start a session | what runs ends with the account |
| memberships (`httpapi/access_requests_handler.go`, `auth_oidc.go`) | rows with expiry, requests, OIDC's managed groups | request, approve, deny, cancel, sync, edit | the first decision stands; a sync removes only its own |
| targets, groups, tags (`access/sqlite_store.go`, `httpapi/targets*`, `groups_handler.go`) | the tree of groups, targets, grants | create, move, delete, import, both access queries | both directions of the query agree; nothing drops out of the tree unexplained |
| credential library (`access/ssh_key_*`, `credential_identity_*`) | keys, identities, links of targets | create, update, delete, link | identities stay usable and links resolve |
| TFTP server (`tftp`, `httpapi/tftp_write_window.go`) | a reference count, the server, write windows | notify, open, write, close, expire | it runs while a target wants it; a deleted target takes no writes |
| event streams (`httpapi/sse.go`) | bounded channels | subscribe, snapshot, publish, forward | no send on a closed channel; a stream catches up |

Around these: the CLI menu, secrets, HTTP plumbing and the web frontend (section 7).

How they interact: HTTP handlers, the SSH gateway and the background goroutines share
one process. Some state is in memory behind a mutex of its own (rooms, bridges,
managers, brokers, limiter), some is in SQLite, some in child processes and files. A
handler calls one after the other and nothing spans two of the calls: there are hardly
any transactions beyond a single statement.

What is hard: decisions are taken on a copy (a row, a count, a flag, a room looked up)
and used some calls later; work is started outside the lock that registers it;
connections and events wait in channels while the world changes; a timeout gives up on
a goroutine that goes on; a row and a process are ended by several parties; the server
may die between any two writes.

## 2. Modules

One action is one critical section, one SQL statement or one system call; a handler that
makes several is several actions with a program counter, and an early return that
writes nothing is the action not being enabled. Every module's constants say which sets
they abstract. Operators whose names end in `Fault` are plausible mistakes in the
operation of the same name; no specification uses them, and `PROJECT.json` names the
property that each one breaks.

**Sharing.** `Sharing` declares users, the owner and invitations. `SharingRoom` is one
room and its registry entry, a method an action. `InvitationStore` is the two tables;
time is, per row, its position against `expires_at` (before, at, after), because the
SQL compares with `<` and the Go predicate with "not after". `RecordUse` keeps the
oddities of its UPDATE: it computes `used_at` from the old row, makes a link's first
user its invitee, and inserts the consumer by a second statement that may fail.
`JoinProtocol` (extends both) is the handlers: a join is read, validated on the copy,
consumed, ensured a room and added; a revocation marks the row, lists and disconnects.
`WriterToken` (extends `SharingRoom`) is the bridge's input side: `place` is how far a
connection has come, `canWrite` the flag, `reader` a reader between its check and its
send. `issuedTo`, `barred`, `holders` and `drove` are history.

**The session.** `SessionLifecycle` follows the session's goroutine with its deferred
calls, for a browser and for a CLI session, and the requests that stop it; it may hang at
every place where it waits for a peer without a deadline (`WorkerHangs`), and a handler that
found the session in the list makes its room anew when it was removed (`EnsureRoom`; the
history variable `reopened`). `RingBuffer`
is `session/ringbuf.go` with its head, its full flag and its array, fed writes of any
length; `ReplayTail` is the abstract specification, the last `Cap` bytes written.
`TerminalOutput` (extends `RingBuffer`) is the output side of the bridge: each pump
writes a chunk to the buffer, the recording and the clients in separate steps, while
the run loop attaches (replay first, then the map) and ends the session. No two
bytes are equal, so a gap can be told. `TelnetIac` is `iacStream.Filter` on the bytes
that matter; the reference decoder takes one byte at a time. `VncBridge` is the shared
VNC session. `RdpManager` is `rdpvnc.Manager` and the handler around it for one user and
target: a start takes place outside any lock, a goroutine per bridge clears the maps.

**Records.** `VideoRecording`: the capture goroutine (slot, ffmpeg, row, registration)
against the two callers that finish it. `RecordingFiles`: what comes after, the remux in
place with its shared temporary name, deletion, retention and the next start.
`CommandLog`: `feed` parses a chunk together with what the last one left unfinished and
applies its elements to the line one by one (`LoopAt` is the loop's state after so many);
the reference is a terminal that takes a byte at a time. A parameter is a natural number of
any size, so the theorem does not speak of one too long for an `int`. `RecordingExports`: the job fields one
assignment at a time, as the registry's lock has them. `FileTransferJobs`: `row` and
`files` survive a crash, `live`, `work` and `req` do not; `SetState` is three steps, as
in the code; a goroutine may hang while it opens the transfer as well as while it copies.
`DatabaseFile` is what a database file holds (whole or torn, with or
without sessions); `Backup` and `Restore` extend it. In `Restore` files are names bound
to inodes, since two requests write to one temporary name and a rename moves the inode
a writer still has open; the write-ahead log belongs to the name. A staging may fail, and a
start that cannot scrub the pending file rejects it and goes on without it (`BootReject`).
`Webhooks`: the list in memory and in the row, the offer of one event to the endpoints it was
read with, the queue, workers and test requests; a start without a row runs the endpoint of
the environment, and so does one that cannot read the row. `AuditForwarder`: two PUTs, each a
save and a swap, against the goroutines of the forwarders, and the starts, with a forwarder of
the environment, with settings that cannot be read and with a log file that cannot be opened;
the history variables name the overlaps and the starts in which the code leaves something
behind.

**Access.** `LoginLimiter` keeps times as ages, so the clock needs no bound. `Login` is
signing in to one account, each store call a step, with enrolment, confirmation, reset
and password changes. A store call may fail: most end the request, but reading whether there
is a TOTP secret or a passkey does not; the answer is then that there is none
(`TOTPUnread`, `PasskeysUnread`). `Accounts` is PATCH and DELETE of users against sessions that
start. `Membership` is one user's groups under administrators, access requests and
OIDC. `Catalogue` is groups (a path each), targets, tags and grants with both access
queries, which return no more rows than they were asked for (`Page`: which ones, when there
are more, is open), and with requests that fail between two of their statements, the
undoing of an import included. `Credentials` is keys, identities and links, one statement a step, the foreign
key's `SET NULL` being part of the deletion. `TftpServer` is the controller, the
windows and the target handlers that notify it, with a deletion that could not read its row
and a start that could not list the rows or make its root. `EventBroker` is one broker: the
subject is a version number, a change may come with no event at all, and of the transfers'
events `ShouldEmit` withholds those that repeat a state too soon. `Migration` is the start of the server, a statement a step,
on the database of any release, with people changing in between what it once set.

The `MC` modules add symmetry, and put modules that share no state side by side:
`MCComponents`, `MCIdentity`, `MCDirectory` and `MCSession` have a variable `focus` that
picks the one that runs, so that each is explored in full and none multiplies another.
The `Proofs` modules hold the theorems.

## 3. Runs

| run | instance | checks |
|---|---|---|
| `components` | room: 3 users, 2 invitations, 3 requests; store: caps up to 2; 3 RDP bridges and connections; 2 captures, 2 finishers, 1 slot; 1 recording with 2 remuxes, 2 deleters, 1 restart; 2 exports; outputs of up to 4 of 14 bytes in every cut, and up to 3 keys typed; 4 backups of which 1 is kept; 2 restore requests, 4 inodes | `RoomInv`, `HandoffOnlyByGrant`, `AdmitsOnlyActive`, `StoreMonotone`, `BridgesListed`, `RecordingSettles`, `RecordingFilesSound`, `ExportsConsistent`, `CommandLogSound`, `GoodBackupRemains`, `RestoreSound` |
| `identity` | 2 requests in flight everywhere; 2 addresses; 1 pending login, 2 sessions, 3 passkey ids; 2 users, 3 API tokens; 2 keys, 1 identity, 1 target; 3 columns, 3 starts; 2 forwarders with channels of 1 | `LimiterSound`, `SecondFactorSound`, `SessionsRevoked`, `AccountsSound`, `LibrarySound`, `MigrationSound`, `ForwarderSound` |
| `directory` | 1 group with 3 requests and 2 logins; a group with one below it, 1 tag, and 2 requests, 2 targets or 2 viewers, where answers are cut at 1 row; 2 streams with channels of 2; 2 devices; 1 webhook with a queue of 1; 2 requests in flight | `PendingBounded`, `DecisionFinal`, `OidcSound`, `AccessAgrees`, `StreamsSound`, `TftpSound`, `WebhooksSound` |
| `join` | 3 users of whom one is an admin; 1 invitation with caps up to 2 and 2 joins in flight, or 2 invitations of the admin, one join at a time | `UsesWithinCap`, `AdmissionsPaid`, `RejoinNeedsNamedInvite` |
| `writer_token` | 2 users, 3 connections, 2 handlers in flight, a channel of 1 | `OneWritingUser`, `InputOnlyFromHolders` |
| `session` | 2 stop requests, both origins; a buffer of 2 with writes of 1 to 3 bytes; 2 pumps, 1 client, 3 chunks; Telnet streams of up to 5 bytes in every cut; 2 VNC clients of 2 users | `EndsClean`, `StopUnlists`, `EndsUnlessHung`, `OutputComplete`, `ReplayIsTail`, `SplitIrrelevant`, `VncSound` |
| `transfers` | an upload and a download, 1 DELETE in flight, history of 1, 1 lost write, 1 crash | `WorkersOwnJobs`, `FilesAccounted`, `JobSettles` |

The other five runs show a disagreement each, see section 6.

Why the instances are large enough. *Rooms and joins*: three users allow the owner, a
holder and a rival; what can go wrong needs two requests on one row, or two invitations
of one user with a kick in between. *Bridge*: with three connections a user can have two
while another has one, two handlers are enough for two `SetWriter` calls to arrive in the
wrong order, and the channel of one place fills up. *RDP*: three bridges are a session, its
replacement and the one after. *Identity, directory*: nearly every hazard is one request
between two calls of another; caps are 1 so that two requests pass them. The catalogue is
explored three times: with two requests on one target and one viewer, and with one request
at a time on two targets or for two viewers, which are more than `ListLimit` and
`InviteLimit` (100 and 1000 in the code, 1 here) let through. Of two streams one at a time has a full
channel (`EventScope`). The forwarder starts with a datagram collector of the environment.
API tokens and connections, of which neither property reads the other's, are explored one
at a time (`AccountScope`). Recovery codes and passkeys are alike, so the second of a set is
tried after the first and the third passkey joins the other two (`LoginScope`).
*Lifecycle*: of the two stop requests, which are alike, one comes first, and the handlers
that ask for the room are followed from its removal on (`LifeScope`). *Recordings*: two
sessions compete for one slot, and each is finished twice. *Output*: a chunk is before, at or
behind the replay a client was given; a buffer of two is shorter than the output of
three. *Command log*: four bytes are the longest sequence that does something, and start in a
line with the cursor inside it. *Migration*: three columns stand for one a mark implies, one
the next mark implies and one newer than both. *Forwarder*: one in use and its replacement,
by two PUTs. *Telnet*: five bytes hold a command, a subnegotiation with an escaped IAC, and
their cuts. *Transfers*: jobs meet only in the history. For the safety properties the proofs
of section 5 cover every larger instance.

Bounds: numbers of requests in flight and of identifiers used once; `MaxLinkUses`,
`MaxTokens`, `AttachBuffer` (16 in the code), `ListLimit`, `InviteLimit`, `HookQueue`, `HookRetries`, `Capacity`,
`MaxHistory` (500 in the code), `MaxEntries`, `MaxBucket`; and bounds on how often the
environment acts (once a forwarder has been made of each identifier a PUT waits in the
model until the next restart): `MaxOutput`, `MaxStream`, `MaxTx`, `MaxVersion`, `MaxCount`, `MaxSecret`,
`MaxPassword`, `MaxRequests`, `MaxOffered`, `MaxEcho`, `MaxTyped`, `MaxCommands`, `MaxStarts`, `MaxRestarts`, `MaxFaults`, `MaxCrashes`. None of them cuts a
behaviour short other than by limiting the environment. `CHECK_DEADLOCK FALSE` stands
where finite resources may be used up: identifiers are used once, sessions end.

What the properties say:

- *Room, store, joins.* `RoomInv`: owner and writer are present, nobody is at once present
  and kicked, pending requests belong to participants, one each. `HandoffOnlyByGrant`: the
  token reaches somebody other than the owner only by the grant of their pending request.
  `UsesWithinCap`, `AdmitsOnlyActive`, `StoreMonotone`: whatever callers believe, the UPDATE
  keeps the cap, accepts nothing the Go predicate calls inactive, and nothing used becomes
  usable. `AdmissionsPaid`, `RejoinNeedsNamedInvite`: the handlers together keep the promises
  although each works on copies.
- *Bridge.* `OneWritingUser`: at every moment, also between the steps of the handlers.
  `InputOnlyFromHolders`: nobody who was never given the token reaches the host.
  `OutputComplete`: what a client has is the output from where its replay starts, without a
  gap; who gets the end message had everything before it, and all is recorded.
  `ReplayIsTail` is the refinement `RingBuffer` => `ReplayTail`. `VncSound`, `SplitIrrelevant`.
- *Ends.* `EndsClean`: after the goroutine nothing is left, but for a room that a handler made
  anew before the session left the list, and one that was given up on was reported. `BridgesListed`: a desktop whose processes run is the one the manager lists,
  unless a request is about to register or to stop it. `RecordingSettles`,
  `RecordingFilesSound`, `ExportsConsistent`, `WorkersOwnJobs`, `FilesAccounted`: processes, rows, slots and files
  end together, unless a write was lost or the session ended between two named steps.
- *Backup.* `GoodBackupRemains`: neither pruning nor a failure takes the last good snapshot.
  `RestoreSound`: a start comes up on a whole database, and on none with login sessions, over
  any crash between the renames and with two requests on one temporary file, unless a start
  refused the pending file, or could not put it in place, with the database already moved
  aside.
  `MigrationSound`: however often a start is cut short.
- *Access.* `LimiterSound`, `PendingBounded` and the caps in
  `SecondFactorSound` and `AccountsSound`: what is checked before it is recorded is passed by
  at most what overlaps, and no more. `SecondFactorSound` also says that a sign-in with a
  second factor enabled was asked for it, unless reading it failed. `SessionsRevoked`, `DecisionFinal`, `OidcSound`:
  see the modules. `AccessAgrees`: the users of a target and the targets of a
  user are one relation as far as neither answer was cut; a target without a group is
  explained by a request that stopped halfway, an import that could not be undone or a
  group deleted under it. `StreamsSound`: an idle stream shows the subject as it was at some
  moment since the last state that was to be published, unless an event was dropped,
  overtaken, or withheld for a state the job had come back to. `TftpSound`: the count is the rows
  and no deleted target takes writes, but for reads and starts that failed. `LibrarySound`: an identity has a password or a key
  and a link its source, unless it was written past the count of the deletion.
  `WebhooksSound`: offers = sent + failed + dropped + queued + being posted; memory and row
  agree unless two PUTs overlapped between them or a start could not read the row;
  `ForwarderSound` says the same of the audit forwarder (or could not open its file), and that a
  replaced one is told to stop exactly once.
- *Command log.* `CommandLogSound`: the tracked line and cursor are those of the reference
  terminal for every output and every cut, and a command echoed as typed is logged as typed.

Properties with an "unless" name precisely the overlap or the failing call in which the code
does not keep them, by a history variable that only it sets; everything outside it is
checked.

## 4. Fairness

Only goroutines the Go scheduler keeps running are fair; users, targets, crashes,
failing stores and hanging connections never have to act.

- `LifeFairness` (run `session`): weak fairness of the session goroutine's steps, of the
  goroutine that closes the connection on cancellation, of every stop request's steps (its
  timer fires at the latest), of the announcement of the start and of the browser's
  refetch. With it `StopUnlists` (a stop takes the session off the list whatever its
  goroutine does) and `EndsUnlessHung` (a cancelled session ends unless a wait for a peer or
  the cleanup of its connection hangs). The waits that have no deadline are the SSH handshake,
  `NewSession`, `RequestPty` and `Shell`, since the timeout of `ssh.Dial` bounds only the connect
  (`sshproxy/bridge.go:66`) and nothing watches the context until they are over (`:573`), and
  the writes to clients under `clientMu` (`bridge_detachable.go:84`, `:405`). At each of them
  `WorkerHangs` competes with the step that goes on, and fairness is met by either.
- `TransferSpec`: weak fairness of each job's goroutine, whose steps include hanging.
  `JobSettles`: every job ends or disappears, unless the other end hangs, the server goes down
  or a write was lost. Opening hangs because the timeout bounds only the connect
  (`sftp/client.go:52`), copying because `progressCopy` does not look at the context; the
  bytes of a browser's upload end with the server's `ReadTimeout`.
- The other specifications have no fairness; their properties are safety properties.

## 5. Proofs

The theorems hold for all sets of users, invitations, requests, connections, jobs, files,
keys and targets, all caps and all sizes of buffers, queues and histories. A model has its
bounds (`MaxFaults`, `MaxRestarts` and so on) as constants, so the theorems hold for each
value of these as well.

**Assumptions.** Each is an `ASSUME` of the module that declares the constant, and TLC
evaluates it in the runs:

- numbers are numbers: the caps, capacities and retention counts are positive, the bounds
  on the environment are naturals;
- the empty value is none of the values: `NoUser`, `NoInvitation`, `NoRef`, `Nobody`,
  `NoForwarder`; `"none"` is no bridge, size, inode or endpoint; the places of a run loop
  (`"select"`, `"done"`, ...) are no clients; `"keep"` is no key; identities and targets,
  uploads and downloads are distinct;
- requests, sessions, jobs, devices, endpoints' workers and the like are finite sets where a
  property counts them; the catalogue's paths are not empty;
- the owner is a user, administrators are users, the first connection is a connection;
  there is a request (`Login`: with none at all a bound "cap + requests - 1" says nothing)
  and a size of a desktop (`RdpManager`);
- a chunk of the output is one the ring buffer takes, single bytes are chunks (`TerminalOutput`);
- a restore finds an inode to write to: there are more than the requests and the two names
  can hold (`Restore`);
- a key is neither a control byte, which `RecordInput` skips, nor DEL, which the tracker takes
  for a backspace, nor one of the two names that stand for the parts of a prompt (`CommandLog`).

**How the proofs go.** None of the properties is inductive as it stands. Almost always the
reason is the same one that makes the code hard: a request acts on what it read some calls
ago, and the property says nothing of what is still true of that. The strengthening says,
for each place of a handler or a goroutine, what it has established there and nobody else
can undo, and of each resource who is going to give it back. There is one lemma per action
or per group of alike actions, and the theorem joins them by the cases of the next-state
relation. Three components compute over data of any length: the limiter's buckets, the
Telnet stream and the command log's line. Their loops are recursive functions in the model, and what they compute is
proved by induction stated for a set: `NatSetInduction`, `CountUp` and `UpFromZero` say that
a set that has 0 and with each number the next has them all, from the well-foundedness of
the naturals.

- **`SharingRoomProofs`**: `RoomTypeCorrect`, `RoomConsistent`, `RoomHandoff`. The
  inductive invariant is `RoomTypeOK /\ RoomInv`. None of the parts is inductive on
  its own: that the writer is present after a grant needs that the requester of a
  pending request is present, which needs that `RemoveParticipant` cancels the
  leaver's requests, and a re-opened room starts clean only because a closed one is
  empty. `HandoffOnlyByGrant` follows from the same invariant.
- **`JoinProtocolProofs`** (extends the former). *Store*: `StoreTypeCorrect`,
  `StoreCapHolds`, `StoreAdmitsOnlyActive`, `StoreOnlyGrows`. `UsesWithinCap` is not
  inductive: once a link has an invitee, the UPDATE no longer looks at the cap but at
  `used_at`. `CapHasRoom` says that a row with a cap that is not marked used has room for
  one more; `RowFacts` ties the columns of rows that were addressed by name. *Join*:
  `JoinAdmissionsPaid`, `JoinRejoinNeedsNamedInvite`, `JoinKeepsCapsAndRoom`. `Earned` says
  of a join at each place what its user has shown: after the read that the copy names whom
  the invitation was issued to, after `RecordUse` that the user is among the consumers.
  `BarredKicked`: while the session runs its room remembers every removal not pardoned. The
  lemmas of room and store serve for the handlers' calls on them.
- **`WriterTokenProofs`**: `WriterTypeCorrect`, `WriterUnique`, `InputAuthorised`. The
  inductive invariant joins `RoomInv`, `OneWritingUser` and `HoldersOnly`, which
  follows the token to everything that may still turn into input: a flag, the mode
  of a connection that waits, a reader past its check, a handler about to call
  `SetWriter`. The lemmas of `SharingRoomProofs` are reused for the steps of the room.
- **`SessionProofs`**. *Lifecycle*: `SessionEndsClean`; `GivenBack` says what the goroutine
  has let go of at each of its deferred calls, the room excepted once a handler has made it
  anew (`reopened`). *Buffer*: `RingImplementsTail`, the refinement
  `RingSpec => ReplayIsTail` for every capacity and every length of a write; the invariant
  says where head and size can be, and each branch of `Write` (longer than the buffer, past
  its edge, inside it) has a lemma on what the buffer reads afterwards, index by index.
  *Output*: `OutputIsComplete`; the buffer is the end of what was written (from the lemmas on
  `Write`), every byte is recorded or in the hands of its pump, and a client that was given a
  snapshot has every byte since its start, or its replay or a pump has it. *VNC*:
  `VncBridgeSound`; `VncInv` adds that a client without a connection to the target is in no
  list and has no copier (`Undialled`): without it a dial could give a connection to a client
  whose goroutines have come and gone. *Transfers*: `WorkersAlwaysOwnJobs`,
  `FilesAreAccounted`; the invariant ties a job's row, its goroutine with the copy it decides
  on, its handle and its staged file (`WorkOK`, `RowOK`, `HeldOK`, `DownloadOK`), for the
  goroutine writes a terminal state in one step and settles in others; the cap on the
  history is kept by counting rows against the trims still to come. *Telnet*:
  `SplitsAreIrrelevant`, for streams and reads of any length; the invariant `PendingIsTail`
  says that what is kept is the end of what was read, from a place where the decoder of
  single bytes was in the text and since which it has put out and answered nothing.
  `LoopCaught` follows the loop of `filterIACBytes` command by command against that decoder,
  by induction from the end of the buffer; `SubnegotiationRuns` a subnegotiation, by
  induction over its payload. A subnegotiation that ends with the buffer is kept and parsed
  again, which is harmless because the decoder has not put out anything for it.
- **`LoginProofs`**: `SecondFactorIsSound`, `SessionsAreRevoked`, `LimiterIsSound`. `LoginCallOK` says what a
  request has read that still holds where it is; `GuessBudget` and `KeyBudget` count the wrong
  codes with the codes still being judged, the passkeys with the registrations past their
  count, since neither the cap nor the number of requests alone is kept; `CodesUnspent`
  covers the secrets that are not generated yet. Of a request past the questions for the second
  factors the invariant says that each was answered or that its read failed. *Limiter*: the property is
  inductive once the shape of the buckets and of the attempts is known (`LimiterShape`); the
  work is in the lemmas on `Younger`, the pruning loop: what it keeps of a bucket that was
  pruned before, got a failure more or aged by a tick.
- **`IdentityProofs`**: `MigrationIsSound` (what a start has done by where it is, and that a
  written mark keeps the one-shot steps out), `ForwarderIsSound` (a forwarder is in use or
  with exactly one PUT until it is told to stop; a PUT nobody overlapped installs what it
  saved; a start installs what is configured, or could not read the row or open the file), `AccountsAreSound` (`StopComing`: while an account is not enabled, some request is
  yet to look for each connection that can be found), `CredentialReferences` (the types of
  the tables and of the calls in flight; what is behind `LibrarySound` is that the history
  variable is set by exactly the writes that a deletion in flight has not counted).
- **`DirectoryProofs`**: `PendingIsBounded`, `OidcIsSound` (what was added by hand is in
  neither OIDC's table nor a sync under way), the action property `DecisionsAreFinal`,
  `AccessAlwaysAgrees` (foreign keys, and that only a request about to assign explains a
  target without a group; for any limits, of the answers they do not cut), `StreamsAreSound` (a
  publisher that sends holds the lock and visits registered channels only; a stream that missed
  nothing shows the last state that was to be published, or a later one, or a publisher is
  about to bring it: `Brings`; what the throttle remembers is a state it has let through:
  `StatesKnown`), `TftpIsSound` (`Balance`: until it has drifted the count and the creations
  still to be told are the rows and the deletions still to be told), `WebhooksAreSound`
  (offers are counted by cardinalities of places in the queue and of workers; between two
  starts that read the row only a PUT changes what runs).
- **`OperationsProofs`**: `BridgesAreListed` (the three maps name one session, and a desktop
  that runs is theirs or is with a request that will register or stop it; one that merely
  looked it up does not count), `RecordingsAlwaysSettle` (`SomebodyStops`, `SomebodyCloses`:
  whoever will end ffmpeg and close the row, through every place of the capture goroutine
  and its two finishers; a token is out only for a goroutine that has not returned it),
  `FilesAndRowsAgree` (the temporary file is with the remux that made it, or that one died
  with the server and then no remux at the stop comes any more; while the two remuxes have not
  met and no rename was refused, one works at a time, on a file other than the one listed),
  `ExportsAreConsistent` (`Gone`: a job that nothing lists and no deletion has will produce no
  file; a deletion's jobs are cancelled or past conversion), `BackupsRemain` (the good
  snapshot is not the file being made, which sorts last, so that pruning keeps one),
  `RestoresAreSound` (what each step of `ApplyPendingRestore` has established of the pending
  file, and that a database moved aside has a whole one to take its place, until a start has
  refused that one or could not put it there),
  `CommandsAreLogged`, for output and reads of any length and any number of commands: `Keeps`
  says that the bytes the tracker kept are the end of the output, from a place where the
  terminal was in the text with the tracker's line and cursor, which it still has. `CSIRuns`,
  `OSCRuns` and `StuckRuns` follow the terminal through a sequence by induction over its bytes,
  `ElementFollowed` compares it with what `apply` does to the whole sequence, `LoopFollows`
  takes that through the loop of `feed`. `PlainShown` (plain bytes are the line) and
  `TypedFound` (what was typed is last found where the prompt ends) give the entry logged.

**Only model-checked.** Liveness: `StopUnlists`, `EndsUnlessHung`, `JobSettles` (fairness and
ENABLED are outside the prover's reach). Every safety property of the passing runs has a theorem.
The five runs of section 6 are counterexamples and have nothing to prove.

## 6. Where the code and its documentation disagree

Five have a run whose property is the sentence quoted.

| run | the text | the code |
|---|---|---|
| `kicked_consumes` | "A kicked user is refused BEFORE the invitation is consumed" (`sharing/service.go:50`) | the terminal handler still consumes first |
| `revoked_viewers` | "Revoking an invitation disconnects active viewers who joined via that invite" (`docs/collaborative-sessions.md:40`) | a join between `RecordUse` and `AddViewer` is not listed and enters afterwards |
| `holder_writes` | "One participant holds the write token" (`docs/collaborative-sessions.md:4`) | an owner who resumes from the CLI, or whose attach is taken from the channel after the sync, writes while the room names another holder |
| `cancelled_stays` | the guard of `SetState` keeps a cancelled job cancelled (`filetransfer/manager.go:306`) | the guard looks at the goroutine's copy, which `Cancel` never touches; until the DELETE has removed the row, the goroutine's write wins |
| `original_untouched` | "a failure leaves the original untouched" (`recording/remux.go:65`) | the remux after a stop and the backfill share a temporary name; one renames what the other has truncated |

Seen while modelling; the models have the behaviour, and the properties above except it by
name or do not speak of it:

- A link is open "subject to `max_uses`" (`docs/collaborative-sessions.md:24`), but its first
  use makes its user the invitee of the row (`sharing/sqlite_store.go:130`).
- Disabling an account "stops live sessions" and "a deleted account cannot keep an open
  bridge" (`users_handler.go:154`, `users_delete_handler.go`), but `stopSessionsOwnedBy`
  does not ask the RDP manager: browser RDP sessions go on.
- The last enabled administrator cannot be demoted, disabled or deleted, but `countAdmins`
  and the write are separate (`users_delete_handler.go:48`): two administrators can do it to
  each other at once.
- "memberships an admin added by hand are never touched" (`auth_oidc.go:525`), but a group
  added by hand that is in the claim is put on record as managed, and a later login
  without it removes it.
- Of the restore, the comment at `backup.go:340` says the write-ahead log is moved aside; it is
  removed (`:369`). `docs/configuration.md:239` agrees with the code.
- "a stuck viewer cannot pin the bridge" (`sshproxy/bridge_detachable.go:158`), but no write
  to a client has a deadline: one that stops reading holds `clientMu`.
- "An endpoint whose secret is omitted keeps the stored one": of two overlapping PUTs the
  later may restore the older secret, and they may leave the running list different from
  the saved one until the next restart or PUT.
- `SetCredentialSource` "records [...] which Identity / SSH Key library entry the target's
  credentials were last set from" (`access/sqlite_store.go:1256`); a PUT that names an
  identity and no secrets keeps the target's old ones (`onlyIfEmpty`,
  `targets_handler.go:532`) and records the link all the same.
- Deleting a key or an identity counts its uses first, so that nothing is orphaned
  (`ssh_key_sqlite_store.go:210`); a reference written between the count and the DELETE is.
- The promotion of the user admin is "guarded so we only run it during the initial role-column
  rollout; subsequent restarts must not re-elevate" (`db/sqlite/migrate.go:374`); the guard
  inserts the mark and then finds it, so it never refuses. Only the mark of the whole schema,
  looked at before, keeps a restart from it (`OneShot`); an upgrade does promote.
- "When stdin has bytes but the PTY did not echo them, [...] the line is dropped"
  (`command_line_tracker.go:202`); a prompt on the line counts as an echo, and keys that
  are more bytes than the line are then logged.
- A crash between `CreateUser` and `SetForcePasswordChange` leaves the first account
  without the forced rotation, or with a password that was never printed (`router.go:659`).
- A remux under way can put back the file of a recording that was deleted; a recording cut
  by a crash keeps an open row, which retention and the backfill pass over.
- A password alone signs in when reading the second factor fails: `TOTPStore.Enabled` and
  `hasPasskeys` return false on an error (`auth/totp.go:132`, `auth_webauthn.go:174`).
- The stream of a write window sends a message "each time it changes (opened, closed, [...])"
  (`tftp_write_window.go:19`); deleting the target closes it without an event (`targets_handler.go:683`), and a window that expires is
  silent too.
- The access checks see the first 100 targets and groups of a user (`access/group.go:32`), an
  invitation the first 1000 users of a target (`sharing.go:479`): beyond, somebody can be
  invited to what they are refused, and is refused a target that is theirs.
- An import takes back a row it could not assign by a Delete whose error is ignored
  (`targets_bulk.go:356`); after a cancelled request that Delete fails as well.
- The room is removed (`terminal.go:571`) before the manager forgets the session
  (`manager.go:146`): a handler in between makes a new one, which nothing removes.
- A start that cannot scrub the pending database rejects it and goes on (`backup.go:356`). When
  a crash had left the database moved aside, it goes on with an empty one.
- Settings that cannot be read count as none, so the endpoint of the environment runs instead of
  the saved ones (`webhooks.go:351`; "Seeds one endpoint when none is stored yet",
  `docs/configuration.md:283`), and an audit
  forwarder is left out (`settings_store.go:17`). A log file that cannot be opened leaves the
  forwarder's goroutine without anything that feeds or stops it (`audit_sink.go:154`).
- A TFTP server that cannot list its targets, or make its root, at the start counts from zero
  (`tftp/controller.go:133`, `:152`); a deletion whose `Get` failed neither closes the window nor tells
  the controller (`targets_handler.go:666`).
- The timeout of an SSH connection ends with the connect: a host that accepts and is silent
  holds the session or the transfer, and cancelling does not reach it (section 4).
- A cancelled transfer's goroutine publishes its own copy of the job, which still runs; when the
  job is cancelled again around that, `shouldEmit` may withhold the last event
  (`sse.go:227`).
- Smaller ones: escape sequences such as `ESC ( B` or `ESC 7` never end for the tracker, which
  keeps everything after them unread until Enter; the recorder of the command log has no
  lock; joining again under another invitation rebinds the participant
  (`registry.go:204`); a user kicked while an attach is queued is attached afterwards; a
  second `Stop` reports clean after a first one gave up; a download deleted in the moment it
  completes leaves its file; a byte written to the replay buffer and not yet broadcast when
  a client attaches is shown twice; the replay is written to a client outside the lock under
  which the live output is written to it; an endless Telnet subnegotiation grows the
  pending bytes without bound; an audit forwarder that dials after it was closed leaks the
  connection.

## 7. What is not modelled

- `patched_deps/`, more than half of the Go lines of the repository, is vendored copies of
  libraries (`golang.org/x/crypto` and others) with small patches: third-party protocol
  and cryptography code, left aside. It is why the map, which covers about three tenths of the
  program's own code under `internal/` and `cmd/`, covers a smaller share of the whole.
- The inserts of audit entries and command log lines, single best-effort calls; redaction. What
  the race between the two callers of the command recorder does to its memory.
- The CLI menu (its sessions are in `SessionLifecycle` and `WriterToken`), the web frontend
  (its refetch is in `SessionLifecycle`), HTTP plumbing, translations: no state that others
  rely on.
- The wire protocols (SSH, RFB, RDP, TFTP packets), token text, hashing, encryption,
  signatures, WebAuthn ceremonies; searching and offsets in lists (the limits of the queries
  the access checks make are in `Catalogue`); progress; window sizes.
- A failing update of a recording's end (`video_recording.go:195`), which leaves its row open as
  a crash does.
- Session keep-alive and the idle clock, which only feed a warning; retention of log rows.
- Attach requests left in the channel when the bridge's loop returns: `WriterToken`'s
  session runs for ever and `SessionLifecycle` has no channel.

## 8. Plan

1. `WriterToken` composed with `SessionLifecycle`, for the attach requests left behind.
2. The Telnet login automation, and terminal recordings.
3. Abstract specifications: a quota that `InvitationStore` implements, and a token with one
   holder that `WriterToken` implements up to `Quiet`.
4. Proofs: the theorems of `WriterToken` restated for that composition.
