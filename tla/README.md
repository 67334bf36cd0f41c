# openclaw-server: specification, model checking and proofs

openclaw-server runs one Firecracker microVM per user on a host
(`openclaw-hostctl`) and a coordinator (`openclaw-coordinatorctl`) through which
one Slack user asks for a lookup in another user's mailbox. This directory holds
TLA+ models of the code under `src/`, the TLC runs that check them and the TLAPS
proofs about them. Paths below are relative to the repository.

## 1. The system

| component | source | state it keeps | operations |
|---|---|---|---|
| coordinator store | `src/openclaw_coordinator/store.py`, `models.py` | `requests/<id>.json`, `directory.json`, `audit.jsonl` | save, load, list, find by event, append audit, upsert entry |
| coordinator service | `service.py`, `policy.py` | none of its own | submit, prepare the owner's approval (the lookup), decide, review |
| Slack runner | `slack_transport.py` | the socket, one message at a time | handle an envelope, post, acknowledge and refresh a clicked message, reconnect |
| command line | `openclaw_coordinator/cli.py` | none | the same service calls from another process |
| parsing and policy | `parser.py`, `intent_extractor.py` | none | who is the owner, is a request allowed |
| directory | `store.py:23-40`, `hostctl.py:694-729` | `directory.json` | upserted by two programs |
| host lifecycle | `openclaw_hostctl/hostctl.py:92-498`, `systemd/openclaw-vm@.service` | `vm.json`, disk images, snapshots, the systemd unit | provision, activate, snapshot, restore, start, stop |
| disk helpers | `openclaw_hostctl/disk.py` | mounts | clone, mount an image for a while |
| guest network | `hostctl.py:324-331`, `firecracker.py` | addresses in the records | allocate an address, name a tap |
| relay | `hostctl.py:526-692, 2903-3206` | none | run a lookup in the owner's guest |
| Google broker | `hostctl.py:765-1312` | authorization states, tokens, `authorized_keys` | start and finish an authorization, refresh, prune |
| owner onboarding | `hostctl.py:1791-2386, 2638-2805` (JS and shell written into guests) | the onboarding state file, blocks of AGENTS.md | ask, record, fall back, complete |
| company addendum | `hostctl.py:1784-1802, 2712-2804` | a part of a guest's AGENTS.md | write at an activation, refresh at boots |
| gateway activation | `hostctl.py:3233-3339` | a pending flag | one-shot restart of the gateway at boot |
| manifests | `hostctl.py:1360-1671`, `openclaw_hostctl/models.py` | user manifest | normalise, validate, merge |
| bootstrap | `bootstrap/`, `guest/` | the host's configuration | one-shot scripts |

How they interact. Slack hands DMs and button clicks to the runner over a
websocket; the runner is a single thread that acknowledges an envelope, calls
the service, posts the messages the call returns and, after a submission, calls
the service again for the lookup. The lookup is a subprocess
(`openclaw-hostctl shared-access execute`) that reaches the owner's guest with
ssh. Command-line processes call the same service on the same files at any
time; nothing locks them. `openclaw-hostctl` shares `directory.json` with the
coordinator, and the VM's systemd unit calls it back (`runtime prepare`,
`runtime cleanup`).

What is hard. Between the save of a record and the Slack post that tells of it
anything can stop the process; Slack delivers an envelope again when its
acknowledgement is lost; a record is read, decided on and written back without a
lock; files are rewritten in place; a unit that restarts by itself races the
operations that want the VM stopped. `PROJECT.json` lists these under
`hazards`, each at its line.

What makes each part correct:

- coordinator: a DM gives one request at most; a mailbox is searched once, after
  the requester was told; only the owner's decision releases a result, the
  stored one; a request gets one outcome, and it is final; every DM, lookup and
  decision is answered when nothing fails.
- host lifecycle: no disk image is written by two parties at once; a snapshot is
  of a stopped disk; a failed restore loses neither disk; no two guests share an
  address.
- directory: an entry written is not lost.
- relay: a search is allowed and its token lasts; whatever hangs, a lookup ends.
- broker: an authorization belongs to the user who started it; a guest reaches the
  broker with the key it has, and nobody under another's name.
- onboarding: every question is asked and processed once; the flow ends; the
  confirmed answers reach the profile.
- AGENTS.md: three programs that rewrite it keep each other's parts.
- manifests and activation: a finished activation has applied its manifest, kept
  what the user set, and goes live.

## 2. Plan

Done in this version:

1. `Coordinator` and its abstract specification `SharedRequest`;
   `CoordinatorProofs` (types), `ResultProofs` (each of its safety properties and the
   refinement).
2. `HostLifecycle` and its abstract specification `GuestDisk`: commands against
   the unit and its restarts, faults between the steps, mounts, addresses, the
   directory entry. `HostProofs`.
3. `OnboardingHook` and its abstract specification `Interview`: handlers and
   timers interleaved at their awaits, the script that starts an interview,
   restarts of the gateway. `HookProofs`.
4. `GoogleKeys`: the keys by which guests reach the broker. `KeysProofs`.
5. `SharedAccess`: the relay with its helper in the guest, and the authorizations
   and tokens it depends on, in time. `AccessProofs`.
6. `GuestConfig`: manifests, what an activation makes of a guest, and the gateway's
   restart. `ConfigProofs`.
7. `AgentsFile`: the three programs that write a guest's AGENTS.md. `AgentsProofs`.

To come, in this order:

8. Composition: the `Lookup` of `Coordinator` with `SharedAccess`, and the guests of
   `SharedAccess` and `GoogleKeys` with those of `HostLifecycle`.
9. The coordinator's directory commands against those of `openclaw-hostctl`.

The modules are written to be proved about: parameters are CONSTANTS with named
assumptions, invariants are conjunctions of named parts, there is no
RECURSIVE operator. What several modules share (a command's steps, a guest that is
off, a file that is truncated before it is filled) is modelled in the module it
matters to and simplified in the others; each module's header says how.

## 3. Coordinator

### State and actions

| variable | in the code |
|---|---|
| `file[r]` | `requests/<r>.json`: a record, `Absent`, or `Torn` (truncated by `write_text`, not filled yet) |
| `audit[r]` | the event types of `audit.jsonl` that name r |
| `registered` | the owners `directory.json` has an entry for |
| `inbox` | DMs Slack still holds |
| `pc[p]`, `work[p]` | where process p is in an operation, and its local variables |
| `card[r]` | what the owner's interactive message shows |
| `posted`, `refused`, `lookups`, `decidedBy` | observers: messages Slack accepted, events answered with an error, relay executions, users whose decision was saved |
| `faults` | how many faults of each kind there were |

A process runs one operation as a sequence of steps; a step ends wherever
another process or a fault could be noticed. `find`, `parse`, `truncate`,
`write`, `audit` are `submit_slack_request`; `load`, `lookup` and the same three
are `prepare_owner_approval`; `decide` and the same three are the two decision
handlers. The runner surrounds them with `ack_click`, `post`, `complain` and
`refresh`. The tables `StatusAfter`, `AuditAfter`, `MessageAfter` give the
status, the audit event and the message of each of the seven saves.

Abstractions. A record keeps its event, requester, owner, status and result;
timestamps, display texts and the thread are left out. A text stands for the
owner it targets (`OwnerOf`). A lookup's answer is a member of `Results` or
`NoResult`, an empty object, which `RequestRecord.from_dict` reads back as no
result. `request show`, `init-state` and the reply to a channel mention change
no request and are left out. A DM is submitted by the process `Source` says:
that an operator submits by hand a file with the id of a Slack event is not
modelled. Each event comes from one process, and a command may be repeated.

Faults. A process is killed at any step and forgets what it was doing (the unit
has `Restart=always`); a Slack Web API call raises; the disk is full, so that
`write_text` leaves an empty file or the audit log is not appended to. After such a
failure the runner loads the request again for the clicked message, finds it
unreadable and leaves the message as it is. The constant `MaxFaults` bounds each kind.

### Runs

All instantiate `CoordinatorMC`: ann owns a mailbox, bob asks.

| run | instance | shows |
|---|---|---|
| `coordinator_runner` | 1 event, 2 request ids, runner only; a kill, a failed call, a full disk; ann may leave the directory | all its safety properties, `ImplementsSharedRequest`, and without a fault the three liveness properties |
| `coordinator_cli` | 1 DM, which gets a lookup and waits for approval; 1 record an older release left in `owner_review_pending`, whose event a command submits again; decisions on both from Slack and from the command line; no faults | `OneVerdict` |

Two request ids for one event are what a duplicate record needs; one fault of each
kind lets a DM that is delivered again meet what the first delivery left; two users
are the owner and somebody else. In `coordinator_cli` a click and a command can pass
the status check at once, on the way to an approval (`service.py:229`) and in the
review of the old record. It has no faults, since with one of a kind its states are
too many to enumerate; `VerdictIsSafe` (section 10) has any faults, events and
commands.

`coordinator_unsent` expects a violation and is a finding of `PROJECT.json`: the
owner is shown "completed and sent" though the post of the result failed.

Deadlock is checked everywhere: the runner can always take another decision.

### Properties

- `OneRecordPerEvent`, `LookupOnceAfterAck`, `NoRepeatedMessage`: redelivery,
  crashes and reconnections never double a record, a lookup or a message.
- `ResultIsTheOwnersDecision`, `OneVerdict`: what the requester is told. That a
  decision is final follows from the refinement for the runner alone. With commands
  it is not, since two processes can pass the status check at once and the later
  save wins; the two properties hold nevertheless, since a late overwrite saves a
  terminal status too and only the runner posts.
- `AuditMatchesRecords`: the log has exactly the events of the path to the
  record's status, up to a fault between a save and its entry.
- `ImplementsSharedRequest`: under the mapping that reads a file being written as
  what is written, the runner's steps are steps of `SharedRequest` or stutters.
  `SharedRequest` has no files, processes, calls or log.
- `EveryRequestAnswered`, `EveryLookupEnds`, `EveryDecisionReported`: without a
  fault every DM is acknowledged or refused, a lookup that began has an answer, a
  failure or a reported error, and a decision that was accepted reaches the
  requester.

### Fairness

`Fairness` asks that the runner's steps be taken when they can be (one thread
that keeps running) and that a DM Slack keeps offering is read eventually (strong
fairness: the runner is busy in between). Nothing is asked of users, commands,
the directory or faults. The liveness properties are about behaviours without a
fault, since nothing in the code resumes what a fault cut short: a request whose
acknowledgement could not be posted is never looked up, because a redelivered DM
finds its record and stops there.

## 4. HostLifecycle

### State and actions

| variable | in the code |
|---|---|
| `home`, `record[g]`, `manifest[g]` | the user's directory, the address in `vm.json`, the stored manifest |
| `image[<<g, l>>]` | `rootfs.ext4` (`l = "disk"`) and the `rootfs.ext4` of each snapshot; `Empty` is a snapshot directory without one |
| `directory[g]` | the address in the guest's entry of the coordinator's `directory.json` |
| `mounts[g]` | what is mounted on `<loop_mount_base>/<user>`, the top one last |
| `unit[g]`, `vm[g]`, `tap` | the systemd unit, the image firecracker has open, the tap devices |
| `pc[p]`, `work[p]` | where a command is, its arguments and local variables |

An image is data and a state. The data is a number, 0 for the base image and a
new one at each write of the guest, so that two images have the same number only
when one was copied from the other. The state is `"whole"`, `"damaged"`, or the
operator whose `cp` is filling it. A copy starts and ends in two steps and is
whole if its source was and nobody wrote to either meanwhile; a power failure
leaves it as it is. A copy that `cp` has finished is taken to be on the disk: there
is no fsync in `disk.py`, and a power failure that loses what the kernel had still to
write is not modelled.

`Provision`, `RemoveHome`, `Create`, the copy, `StoreManifest`, `LoadDirectory`,
`PublishEntry`, `Mount`, `Apply`, `Unmount`, `Clear`, `SaveRecord` and a first
snapshot are `provision_user`; `activate_user` shares the middle ones and ends
with `Start`; `TakeSnapshot`, the copy, `UnlinkDisk`, `ReplaceDisk` are
`restore_snapshot`. `Boot`, `Restart`, `VmFails`, `VmExits` are the unit with its
`runtime prepare` and `runtime cleanup`. A file that is unlinked stays open for
the VM or the mount that has it (`"orphan"`).

Abstractions. Copying by reflink is quick, copying in full is not; both are the
two steps. The files written into a guest do not change `data`, which stands for
what the guest itself keeps; keys of the broker and the contents of manifests are
left out: a manifest is valid without a Slack user (`plain`), valid with one
(`listed`), or `bad`. A snapshot may be refused because its name is taken, at any
time: names have one-second resolution. The start job, the stop job and the hooks
of the unit that belong to it are atomic steps, since systemd serialises the jobs
of a unit.

Faults, each bounded by `MaxFaults`: a command is killed (what it mounted stays), the
host loses power, `cp` runs out of space, the VM process fails, `umount` fails, or a
step with the manifest raises (`Raise`: an unreadable `directory.json` or
`openclaw.json`, a broker key that is not refreshed in time), upon which the disk is
unmounted and the command ends, with the guest stopped.

### Runs

| run | instance | shows |
|---|---|---|
| `host_disk` | 1 guest, 1 operator, all commands, 3 snapshots, 1 write; a power failure, a full disk, a step that raises, a VM failure | `DiskHasOneUser`, `WholeSnapshotIsKept`, `ImplementsGuestDisk`, `FailedGuestComesBack`, `ActivatedGuestRuns` |
| `host_guests` | 2 guests, 1 operator who provisions and activates with a manifest that names a Slack user or with a bad one; a kill, a power failure, a step that raises, a failing umount | addresses differ, entries match records, a guest that exists is not replaced |

Three snapshots are the initial one, the one to restore and the `pre-restore`
one; a write tells the data before and after a snapshot apart. Two operators at
once are left to the proofs, since most properties are only true of one; the property that is
true of any number, `WholeSnapshotIsKept`, is `SnapshotIsSafe` in section 10.

`host_rollback` expects a violation and is a finding: a unit waiting to be restarted
counts as stopped, so a snapshot can be taken of a disk in use. More hazards
of this code are in the model, but no property is about them: clearing a mount
point that is still mounted removes the guest's files, a restore cut short
after the disk was unlinked cannot be repeated, and a forced activation that
rejects its manifest has stored it, and one that raises has written some of it, and
both leave the guest stopped.

### Properties

- `DiskHasOneUser`: VM, mount and copy never overlap. It needs one operator and a
  VM that does not fail by itself (`host_rollback`).
- `DistinctAddresses`, `EntryMatchesRecord`, `ProvisionedIsKept` hold for one
  operator, through kills and retries. With two none of them does: an address is
  free until its record is saved, `directory.json` is rewritten from a stale copy,
  and `rmtree` may remove what another provision has just finished.
- `ImplementsGuestDisk`: whatever is cut short, data is only given up when a whole
  snapshot has it. `GuestDisk` knows no steps, files or mounts: an owned disk is
  lost only by a restore, and put back from what is saved. A disk that is missing
  or not whole maps to lost data. As `DiskHasOneUser`, it is asked until a VM fails
  by itself.
- `WholeSnapshotIsKept`: a snapshot that was finished is never written again, though
  a name can come up a second time within its second. The run has one operator;
  commands at the same time are in the proof only.
- `FailedGuestComesBack`: a guest whose VM failed runs again, though a restore may
  have its disk removed meanwhile, unless it is stopped.
- `ActivatedGuestRuns`: an activation that stopped a guest starts it again, when its
  manifest is good, its disk is whole and nothing fails.

Fairness: a command that runs goes on, and systemd starts what it has to start.
Operators are not asked to do anything.

## 5. OnboardingHook

### State and actions

The host writes a JavaScript hook into a guest, whose gateway calls it for every
Slack message received and sent. All calls run in one Node process and interleave
at their awaits; they share one file with the script of `owner-onboarding start`.

| variable | in the code |
|---|---|
| `state` | `owner-onboarding-state.json`; `Torn` after `write_text` opened it and before it wrote |
| `profile` | the answers in `owner-profile.md` |
| `tmp[s]` | the temporary file of `writeJson` whose name (process id and millisecond) is s |
| `pc[h]`, `task[h]` | at which await a call of the hook is, and its local variables |
| `timers[t]` | how many timers `scheduleFallback` has set for a message and a question |
| `hook` | not there, on the disk, or loaded by the running gateway |
| `script` | where the script is; `held` while the file it opened is still the one under that name |
| `delivered`, `repeats`, `replies`, `starts`, `kills`, `fails` | what happened so far, for the bounds |
| `shown`, `noticed`, `fallbacks`, `lost` | observers: what the owner was asked, and by whom |

`Receive`, `AgentWrites` and `TimerFires` call the hook. `Read` is `readJson` with
all that is computed before the next await; `WriteTmp` and `Rename` are
`writeJson`; what follows is a timer or the profile (`AfterAnswer`,
`WriteProfile`), the fallback's post (`SendFallback`), or nothing. The post is a
process of its own whose end nobody looks at, so the model records that the hook set
out to ask (`fallbacks`) and not that the owner was.
`StartScript`, `WriteState`, `Install`, `ScriptRestarts` are the script:
`write_text` truncates the file and fills it in two steps, and what it writes is
lost when a handler renamed a new file into place in between.

Abstractions. Questions are numbers, the last one the summary confirmation.
Messages of others, empty ones and commands are ignored by the hook and left out;
so are wording, `asked_question_ids` (nothing reads it), the log, AGENTS.md, and
edits the agent may make to the state file by itself. What the agent writes is
abstracted to the questions it looks like (`looksLikeQuestionFor`); a text with a
question mark looks like the first question, for which no keywords are listed. A
timer fires at any time after it was set. A gateway that restarts forgets calls
and timers; the temporary files of the old process are never used again.

`Overlap` says whether a call may start while another, or the script's
`write_text`, is under way. The calls of a guest whose owner writes a message at a
time hardly ever overlap; nothing in the code prevents it.

### Runs

| run | instance | shows |
|---|---|---|
| `hook_turns` | 2 questions; three messages, one without an id and one a stop, one of them delivered again; 1 message of the agent, 2 starts, a crash, a failure of the script; calls do not overlap | all the properties below but `StopIsKept` |

Two questions are the one that is answered and the confirmation; two starts make one
interview replace another, and the second may restart the gateway. The bounds on
messages and starts end every behaviour, which is why deadlock is not checked.
In this run nothing interleaves but the script, redelivery and restarts. Calls that
overlap are covered by the proofs of `FileIsConsistent` and `ProfileIsComplete`
(section 10), for any number of them, and by `hook_stop`.

`hook_stop` expects a violation and is a finding: the handler of an earlier message,
which read the file before the handler of the owner's "stop" renamed the paused one
over it, renames last and makes the interview active again. A timer that fires in
between can do the same, in more steps.

### Properties

- `FileIsConsistent`: answers are to the questions 1, 2, ... in order, no message
  with an id answers two, the transition is that of the last answer. By its theorem it
  holds with overlapping calls too: updates are lost, but never mixed.
- `ProfileIsComplete`: a profile answers every question, and no answer in it asks
  to stop.
- `ConfirmedIsInProfile`: a confirmed interview reaches the profile. Nothing looks at
  a confirmed state again, so it does not when the gateway stops between the two
  writes; the property allows for that and for nothing else.
- `FallbackOnce`: where calls do not overlap, the hook sets out once to ask a question
  by the fallback, and not for what the agent was noticed to ask. With overlap it
  fails, as every read-modify-write here does: a timer that has read the file asks
  what the agent's handler is about to record.
- `ImplementsInterview`: `Interview` knows a status and a list of answers; no
  calls, files or timers. An unreadable file maps to no interview.
- `QuestionIsPursued`: the agent writes what looks like each question after the
  first, or the fallback sets out to ask it. It does not say that the owner gets it:
  a post that fails is not repeated, and a text that only looks like the question
  counts. Fairness: Node goes on with what it started and fires timers that are
  due, the script goes on. Nothing is asked of the owner or the agent. A restart
  of the gateway loses the timers, which the property allows for (`lost`).

## 6. GoogleKeys

### State and actions

| variable | in the code |
|---|---|
| `record`, `awake` | guests with a `vm.json`; those that run |
| `priv[g]`, `pub[g]` | the pair `<g>_vm_ed25519` and `.pub` the host keeps; `Torn` is an empty file |
| `disk[g]`, `saved[g]` | the private key on the guest's disk, and in its snapshots |
| `authorized[g]` | the key of the guest's line in the broker's `authorized_keys` |
| `pc[p]`, `work[p]` | where a command is, and its local variables; `missing` and `kept` are observers |
| `minted` | keys made by ssh-keygen |

Every provision, activation and reconcile makes a missing pair (`Keygen`,
`KeygenPub`), goes through the guests and fetches the keys of those whose pair is
missing (`SkipGuest`, `FetchKey`, `FetchFails`, `FillPriv`, `Derive`, `FillPub`, `Synced`; a
reconcile does so twice), deletes pairs of guests that have no record (`Orphans`,
`Prune`, `PrunePub`), rewrites `authorized_keys` (`Collect`, `Fill`) and writes the
private key to the disk (`Install`); a provision then saves the record (`Save`).
`FetchFails` is an ssh that ends with an error, after which the guest is passed over
in silence; `FetchHangs` one that outlives its 20 seconds, which ends the command.
`CutShort` is a command that is killed, or whose `write_text` finds the disk full
after it emptied the file; both leave what was written so far.
`StartGuest`, `StopGuest`, `Snapshot`, `RestoreGuest`, `RemoveGuest` are what
happens to guests meanwhile; `LoseBroker` is a host that is rebuilt without the
broker's directory.

Abstractions. A key is the guest it was made for (the comment ssh-keygen gets) and
a serial number. Two commands are never about one guest, and a guest is off while
a command is about it. Host names, the authorized command and the known hosts are
left out.

### Runs and properties

`google_keys`: 3 guests, 1 operator, 3 keys, one fault of each kind. Three guests are
the one a command is about, one that hangs or has lost its pair, and one whose
connection must not suffer; they carry no order, hence the symmetry.

- `KeyNamesItsGuest`: a line of `authorized_keys` names the guest its key was made
  for, so nobody opens the broker as somebody else.
- `PairMatches`: one command cut short leaves at worst an empty public key, never a
  pair of two keys.
- `InstalledKeyConnects`: a guest that is provisioned or activated gets a key that
  opens the broker, as long as one command at most was cut short.
- `ConnectionsAreKept`: a command that ends without being cut short, also because a
  guest's ssh hangs, leaves every connected guest connected. One that is cut short in
  the rewrite leaves an empty `authorized_keys`.
- `ReconcileHeals`: after the broker's directory was lost, a reconcile that reaches
  its end connects every guest that was up, with the key it has, unless the guest's
  ssh failed in the second of its two passes.

The model has, without a property: with two commands the pair of a guest that is
being provisioned, and has no record yet, is deleted as an orphan's; an empty
public key is never repaired, since only its existence is looked at.

## 7. SharedAccess

### State and actions

| variable | in the code |
|---|---|
| `asked[u]` | `state` in the user's `oauth-state.json` |
| `starter`, `codes` | whom each authorization was started for; those approved and not redeemed |
| `token[u]` | `google-gmail-token.json` in the user's guest: the authorization it is from and when its access token was obtained |
| `config[u]`, `awake` | the opt-in in the guest's `shared-access.json`; the guests that run |
| `now` | the time, in units of 5 minutes |
| `pc[x]`, `work[x]` | where a lookup or a google-auth command is, in which part of it (`phase`), and since when |
| `outcome[r]` | whether the relay returned, and what: for `EveryExecuteEnds` |
| `Offline` (a constant) | the authorizations for which Google gives a refresh token |

`Execute`, `Read`, `Exchange`, `Write` (`google_auth_status`) and `AskPaired` are
`shared_access_execute` on the host; `AskConfig`, the same check again, `AskGateway`,
and the search that begins with it and ends with `SearchEnds` are its helper in the
guest. `Timeout` is each timeout by which the relay or the coordinator stops
waiting: what runs in the guest goes on. `GiveUp` is any process that is killed or
fails. `AuthStart`, `Approve`, `AuthFinish`, `AuthStatus` are the google-auth
commands and the user's browser. `Configure` is an activation that changes the
opt-in of a guest that is off.

Abstractions. A token is written in two steps (`cat >` empties it first). What a
search answers is an answer or a failure. Google's own behaviour is external: a
code is redeemed once, gives a refresh token or none, and an exchange gives a new
access token or fails. `AuthFinish` redeems the code before it finds out whether the
guest is up, so that a code is used up for a guest that is off.

### Runs and properties

`shared_access`: 2 users, 1 lookup about ann, 1 other command, 2 authorizations, of
which the first gives a refresh token; a
token lives 4 units (20 minutes), is refreshed when less than 2 are left, and a
search takes 1 at most. The code's times are an hour, 15 and 10 minutes; what counts is
their order, `TimesAssumption`, from which the property about tokens is
proved. The bound on the time is a token's whole life, so that one obtained at
the start expires within a behaviour.

- `TokenOutlivesSearch`: when the token a search began with can be renewed, neither it
  nor one that somebody put in its place expires under the search. A token without a
  refresh token passes the check whatever its age (`hostctl.py:1268-1270`) and may.
- `SearchIsAllowed`: searches run only in guests that are up with the opt-in, though
  it was read minutes before.
- `TokenIsOfItsUser`: no guest gets the token of an authorization started for
  somebody else.
- `EveryExecuteEnds`: a lookup has an outcome at some time, whatever hangs.

Fairness: that of `Timeout` alone, since `subprocess.run` enforces its timeout.

## 8. GuestConfig

### State and actions

| variable | in the code |
|---|---|
| `files[f]` | `user-config.json` on the host (`stored`); `.env`, `openclaw.json`, `auth-profiles.json`, `slack-default-allowFrom.json`, `shared-access.json` on the guest's disk; `Torn` between `write_text`'s truncation and its write |
| `unit`, `pending` | `openclaw-gateway.service` is installed; the flag `pending-gateway-restart` |
| `awake`, `refresh`, `gateway` | the guest runs; where the one-shot refresh of this boot is; the configuration the gateway runs with |
| `mine` | observer: what the user last set in `openclaw.json` |
| `pc`, `work` | where the activation is, and its local variables |

`Activate`, then for one file after the other `SkipFile`, or `Truncate` and `Write`,
with `Validate` after the manifest was stored and normalised, `InstallUnit`,
`QueueRestart` and `Start` are `activate_user` with what it calls; `New` says what
each file becomes. `Boot`, `Shutdown`, `GatewayStarts`, `GatewayEnds`,
`RefreshStarts`, `RefreshRestarts`, `RefreshClears` and `UserSets` are the guest.

Abstractions. A manifest has environment keys, profiles that refer to them, a Slack
section in the newer and in the older place, the default model, an opt-in and an
owner. `shared_access` may be null, which is valid and leaves the guest's
`shared-access.json` as it was; so does `openclaw` for the model. What no manifest has
a say in is one value of `openclaw.json` (`own`); the default model is not part of it,
since an activation writes over what the user chose. `CutShort` is an activation that
is killed or finds the disk full. The gateway's own token is left out. One activation at a time, with the
guest off: `HostLifecycle` has the rest.

### Runs and properties

`guest_config`: six manifests (two that share nothing, the second in the older form; one
that moves a profile to another key and has both Slack sections; one that is all but
empty; two that are not valid), activated in any order and from the stored copy; a
cut, a restart of the gateway that fails.

- `SettingsSurvive`: no activation that finishes or raises loses what the user set where
  no manifest has a say. An activation that is cut short between the truncation of
  `openclaw.json` and its write does lose it, with the file (`hostctl.py:394`); the
  property says that this is the only way.
- `ActivationApplies`: a finished activation has applied every part the manifest it was
  given has, as it was before normalisation, whatever earlier ones left. A part it
  does not have stays: after a null `shared_access` an earlier opt-in is in force.
- `ActivatedIsLive`: without a fault, a finished activation is live in a guest that
  stays up.

Fairness: systemd starts the refresh, which goes on (weak fairness), and keeps
starting the gateway that ends (strong fairness).

The model has, without a property: a cut inside the write of `openclaw.json` makes
every later activation raise; a profile the new manifest does not name is kept while
the key it refers to goes.

## 9. AgentsFile

### State and actions

| variable | in the code |
|---|---|
| `file` | AGENTS.md: a sequence of the onboarding markers, the company addendum of a release, and texts |
| `awake`, `release` | the guest runs; the release of the addendum its refresh script has |
| `starts` | how often systemd started the refresh in this boot |
| `read[x]` | what the refresh, the onboarding script or the agent has read and not yet written back |

`Addendum` is `append_company_agents_addendum` and the refresh script, `Upsert` the
onboarding block of `owner-onboarding start`. `Activate` applies the first to the
disk of a guest that is off. The refresh, the script and the agent each read the file
in one step and write all of it in another. `Triggered` is the path unit:
PathExists starts the one-shot service again as soon as it ended, until systemd's
start limit stops it.

Abstractions. A marker stands for itself and what belongs to it; blanks are left out; a
write is one step. The agent inserts a text anywhere or takes out any text or
marker, which is how a file gets an onboarding marker without its end.

### Runs and properties

`agents_file`: 2 texts, 2 releases, a start limit of 2, 3 edits, 2 boots, 3 starts of
the onboarding, a file of up to 6 parts. Three edits are two texts around a marker
and a marker that is taken out; six parts are every kind once and both texts. A third
start meets what two can leave: the first writes its block, the agent takes the start
marker out, the second puts a new block before the end marker that is left, and the
third finds two end markers.

- `PartsInOrder`: whoever writes over whom, the onboarding block and the addendum
  are there once at most, the block first, so that a refresh does not cut it off.
- `RewritesKeepText`: a rewrite of a file nobody touched meanwhile keeps every text
  outside the part it replaces, in its order. The part is what stands between the
  markers; it goes on to the addendum when there is no end marker, and also when a
  stray one stands before the start marker, since `find` looks from the beginning
  of the file.
- `AddendumIsRefreshed`: after a boot the file gets the addendum of the last activation.

Fairness: systemd starts what is triggered, and the refresh, which waits for
nothing, ends. That an edit is lost when somebody else writes the older file back is
in the model; nothing in the code prevents it.

## 10. Proofs

Type correctness is proved for all seven models (`TypeCorrect`) and therefore in no
run's configuration. The proofs use the named assumptions of each model and no
bound of a run: any sets of guests, users, messages and processes, any number of
faults.

| module | theorem | rests on |
|---|---|---|
| `CoordinatorProofs` | `TypeCorrect` | what each process holds at each step |
| `ResultProofs` | `ResultIsSafe`: `ResultIsTheOwnersDecision` | preparing and deciding a request exclude each other, and all who decide agree |
| | `LookupIsSafe`: `LookupOnceAfterAck` | one process prepares a request |
| | `RecordIsSafe`: `OneRecordPerEvent` | one process submits an event, and draws an id when no record claims it |
| | `VerdictIsSafe`, `MessageIsSafe`: `OneVerdict`, `NoRepeatedMessage` | a request's stage says which messages may have been posted |
| | `AuditIsSafe`, `SharedRequestImplemented`: `AuditMatchesRecords`, `ImplementsSharedRequest`, without commands | one operation at a time holds a request, with its stored status |
| `HostProofs` | `TypeCorrect` | an image a VM or a mount has open by its name is there |
| | `SnapshotIsSafe`: `WholeSnapshotIsKept` | a copy goes to a name that was free |
| | `AddressIsSafe`, `ProvisionedIsSafe`: `DistinctAddresses`, `ProvisionedIsKept`, for one operator | a provision holds an address nobody has, and its guest has no record |
| | `EntryIsSafe`: `EntryMatchesRecord`, for one operator and manifests that name a user | nobody writes the directory between its reading and its writing |
| | `DiskIsSafe`: `DiskHasOneUser`, for one operator, no kills, and an umount that succeeds | unit and VM agree, and a mount belongs to a command that undoes it |
| | `DiskImplemented`: `ImplementsGuestDisk`, under the same assumptions | a copy holds what it reads, and a restore unlinks what it saved |
| `HookProofs` | `TypeCorrect`, `FileIsSafe`, `ProfileIsSafe` | every version of the state file records one interview |
| | `ConfirmedIsSafe`, `InterviewImplemented`: `ConfirmedIsInProfile`, `ImplementsInterview`, when calls do not overlap | what a handler read is still in the file when it renames |
| `KeysProofs` | `TypeCorrect`, `KeyIsSafe`: `KeyNamesItsGuest` | wherever a key is kept or held, it is where its guest's keys are |
| | `PairsMatch`, `KeyConnects`, `ConnectionsSafe`, `ReconcileWorks`: `PairMatches`, `InstalledKeyConnects`, `ConnectionsAreKept`, `ReconcileHeals`, for one operator | pairs are whole but for the one that is being written |
| `AccessProofs` | `TypeCorrect`, `SearchIsSafe`, `TokenIsSafe`, `TokenLasts` (of tokens that can be renewed) | what each process holds, and since when |
| `ConfigProofs` | `TypeCorrect`, `SettingsAreSafe`, `ActivationIsSafe` | each step finds what the earlier ones were to write |
| `AgentsProofs` | `TypeCorrect`, `PartsAreSafe`: `PartsInOrder` | both rewrites and every edit keep the order of what they read |
| | `TextsAreSafe`: `RewritesKeepText` | a rewrite replaces one stretch of the file |

The assumptions are those the modules declare (`ConstantsAssumption`,
`LegacyAssumption`, `HostAssumption`, `HookAssumption`, `FileAssumption`,
`KeysAssumption`, `AccessAssumption`, `TimesAssumption`, `ConfigAssumption`,
`AgentsAssumption`): sets that do not meet, bounds that are numbers, and two that
say more. `TimesAssumption` orders the times of a lookup; `HookAssumption` says that
the hook remembers at least as many message ids as there are questions (80 in the
code). Some theorems have an assumption of their own, which the run that checks the
same property meets:

- `CliProcs = {}` (`AuditIsSafe`, `SharedRequestImplemented`): no command runs beside
  the runner. With commands two processes pass a status check at once, and both
  decisions are saved and logged.
- `OneOperator` (`HostProofs`), `Operators = {op}` (`KeysProofs`): one operator uses
  `openclaw-hostctl` at a time, since its commands take no lock.
- `Listed` (`EntryIsSafe`): every manifest names a Slack user; without one, nothing is
  published.
- `Unharmed` (`DiskIsSafe`, `DiskImplemented`): no kill and no failing umount, which leave
  a mount behind. Power failures, full disks and VMs that fail remain.
- `Overlap = FALSE` (`ConfirmedIsSafe`, `InterviewImplemented`): a call of the hook begins
  when none is under way. Nothing in the code sees to that, and with overlap any of its
  updates may be lost. `FallbackIsSafe` says under the same assumption that
  `FallbackOnce` holds for any number of messages and timers; it shows nothing about
  the race of a timer and the agent and is not listed as a result.

### Coordinator

`TypeOK` is not inductive: that a save writes a record depends on what the process
holds. The inductive invariant `Typed` adds `Control` (what each process holds at
each step: at a save, a request and a draft whose status is the one the step saves,
and whose owner took the decision) and `ReviewHasResult`. There is one lemma per
action; `OneProcessMoves` reduces the control of all processes to that of the mover.

For `ResultIsSafe`: commands and clicks may decide one request at once and overwrite
each other's files, so the invariant `Settled` says why that does no harm:
*preparing* a request (submitting it, looking it up) and *deciding* it exclude each
other, everyone who decides holds the same content, and a result that was posted is
that content, so a later save cannot change it. For `LookupIsSafe`, the invariant
`Searches` counts lookups by where the preparing process is, and rests on `Settled`
for there being one such process.

The later theorems of `ResultProofs` do not look at the actions again: `StepOf` has
the ten shapes a process's step can take (it leaves, searches, opens an operation,
loads, answers, chooses, empties a file, fills it, logs, posts), and each invariant has
a lemma per shape. `Claimed` follows an event to its record: an event that is being
parsed is in no record, and no two requests claim one. `Once` orders what is posted
about a request: after the owner was asked it is `Past` being prepared, after a
verdict it has `Ended`, and nothing follows that. `Holding` says that the runner's
local copy is what is stored, with the status the operation starts from (`Origin`),
and `Logged` that the log told the path to it; the refinement maps each save to the
operation of `SharedRequest` it stands for, at the truncation of the file.

### HostLifecycle

`Typed` is `TypeOK` with what a command holds at each step (`Fits`) and `Opened`: a
mount or a VM that has `"disk"` open has an image there. Every lemma about an action
also shows `AllKept`, the action property `WholeSnapshotIsKept` of one step: a copy
writes an image it has itself begun, and `mkdir` refuses a name that is taken.

`Alone` adds, for one operator, that a guest with a record has a home and that
between the choice of an address and the saving of the record (`Holding`) nobody has
the address and the guest has no record. It fails for two operators, who can both
find one address free: with two, neither theorem's conclusion holds.

`EntryIsSafe` follows the address from its choice to the directory and to the record:
once a provision has published, the entry it will match is there (`Published`), and
a program that has read the directory holds what is still in it.

`DiskIsSafe` needs more than who has the disk now, for a unit may start at any time:
`Exclusive` says that a unit waiting to be restarted finds no disk, unless a
command waits for it (`Runs`), that a command that unlinks or copies the disk has
found the unit inactive (`Rests`), and that what is mounted is so once, by a command
that goes on to unmount it (`MountedOnce`). Until a VM fails by itself: after that a
restart may come while the disk is copied, which is the finding of `host_rollback`.

`DiskImplemented` follows the data. `Carries` says of every step what the command
relies on: a copy under way has the data of its source, which nobody writes
meanwhile; at `unlink` a whole snapshot has the data of a whole disk, since the
`pre-restore` copy of a whole disk that ended is whole; at `replace` there is no disk.
`Unsaved` (no snapshots without a record) lets a provision build again, and
`Older` (no image is newer than the last write) makes each write a new one. There is
one lemma per step of `GuestDisk` (`DiskGivenUp`, `DiskPutBack`, ...) and one per action,
that it keeps `Carries` and is such a step for its guest and a stutter for the others.

### OnboardingHook

A handler writes what it computed from a file it read earlier, so the invariant
`IInv` follows every version of the file: the one on the disk, the temporary ones,
and those held by handlers at a write or a rename, are all `Sound`. `Sound` adds to
`Consistent` what `Record` needs and keeps: there are at most as many remembered ids
as answers, so none was forgotten, and an interview that is not paused holds no
request to stop. The heart of the proof is `RecordIsSound`; that handlers interleave
then costs nothing, since none writes a mixture of two files.

When calls do not overlap, `InTurn` says more: one handler is under way, what it
holds is computed from the file that is still there (`Turn`), and the file tells of
every question that was asked (`Told`). The script may still overwrite the file
between two calls. `ConfirmedIsInProfile` is one of its conjuncts, since whether the
profile is written depends on the handler that is on its way to it. For the
refinement, a handler's rename is the answer or the end of the interview, and the
script's truncation is the moment at which the old interview is gone.

### GoogleKeys, SharedAccess, GuestConfig, AgentsFile

- `Named`: `priv`, `pub`, `disk` and the local variables of commands hold keys of the
  guest they are about, and so do the snapshots, from which a restore brings keys
  back. The order of the steps does not matter.
- `Alone`, of one command `p`: no pair is touched but the one `p` is writing, of which
  `Written` says what is there already (`PairOf` says what one cut leaves of it);
  `Served` that the guest the command is about keeps its pair, and that the lines it
  collected are those of the pairs; `KeptOf` and `Heals` that the guests that were
  connected, or had lost their pair, are passed over by the pruning. Every step but a
  cut keeps it; what the guests do meanwhile leaves pairs alone.
- `TokenLasts`, of a token that can be renewed: with `Shape`, a process has been in its part of the work for at most a
  unit (for `SearchTime` when it searches), so a token about to be written was
  obtained since then, and the checked one had `Skew` left, which is more than a
  search takes. `Lasting` says so of the token file and of everyone who will write it.
- `ActivationIsSafe`: `Done` lists what the steps before the current one have
  written, `Ready` what the next one needs, `Off` that the guest is off meanwhile.
- `SettingsAreSafe`: `Writing` says that what the activation is about to write over
  the truncated `openclaw.json` has the user's part of it.
- `PartsAreSafe`: `Typed` says that the file and every copy somebody has read are
  `Ordered`. `UpsertOrdered` and `AddendumOrdered` show it of the rewrites, with
  `PickOrdered`, that a sequence put together of parts of an ordered one in their
  order is ordered; `MinIsLeast` gives the first place of a marker.
- `TextsAreSafe`: `Tidy` adds that no text is there twice and that no end marker comes
  after the addendum, so that what is left of a text can be told. `Spliced` describes
  a rewrite by the stretch it replaces, with a map from the parts of the new file to
  those of the old; the two rewrites are splices (`AddendumSplices`, `UpsertSplices`),
  and `SpliceKeeps` is what the property says of any. The first attempt failed at a
  stray end marker: the property had taken the text behind it for safe, and held
  only within its bound. Property and bound were corrected.

### Only model-checked

Liveness under fairness, ENABLED, and induction over data are out of the prover's
reach; there are no RECURSIVE operators. Left to TLC are therefore the nine liveness
properties. Every safety property that a passing run checks, invariant, action
property or refinement, is also proved. Where a theorem has an assumption (above), the
run is within it, and neither says anything about what is outside.

## 11. Not modelled

- Bootstrap and guest images: the scripts configure a host once, and no later step
  reads back a state of theirs that could be wrong in an interesting order.
- What texts mean: the regular expressions of `parser.py`, the OpenAI call of
  `intent_extractor.py`, what a search answers, the wording of questions. A text is the
  owner it targets, a message the questions it looks like.
- `openclaw-coordinatorctl`'s directory commands, `request show`, `init-state`, and
  the read-only commands of `openclaw-hostctl` (status, list, validate).
- In a guest: the gateway's token, the edits an agent may make to the onboarding state
  by itself, whether a Slack post of the hook arrives.
- Writes the kernel has not finished when the power fails, and two programs that write
  the same token at once (the last one wins).
- Rendered network and Firecracker configuration, resizing of images.

The components these belong to are `partly` modelled in `PROJECT.json`.
