# UBO in TLA+

UBO prepares a LUKS-encrypted Debian server for unlocking over WireGuard and
Dropbear at boot (`ubo run`), and unlocks it (`ubo unlock`). This directory
holds a TLA+ model of the program, the TLC configurations that check it and the
TLAPS proofs about it. Every definition is translated from the Go source and the
shell templates; `PROJECT.json` names the lines each one stands for.

## Inventory

| Part | State it keeps | Operations | Modelled by |
|---|---|---|---|
| `internal/keygen` | six key files in the output directory | `GenerateAll`: reuse or write three pairs | `Keygen`, `AtomicKeys` |
| `main.cmdRun`, `internal/setup.Configure` | output directory: pinned host key, `ubo.toml`, `client_wg.conf`, `README.txt` | the steps of `ubo run`, its failures, `ubo status` | `Provision` |
| `SetupScriptTmpl` (runs on the server) | `/etc` files, boot images, Dropbear host key | 11 steps under `set -e` | `Provision`; step 9b in `NetDetect`, step 10 in `Bootloader` |
| `internal/setup` detection | `NetworkInfo`, `SetupScriptData` | routes, addresses, VLAN/bond/bridge, device choice | `NetDetect` |
| `InitramfsScriptTmpl` (runs in the initramfs) | network of the initramfs | address, route, VLAN, `wg0` | `BootScript` |
| `contrib/rootless`, `main.cmdUnlock` | tunnel, TCP and SSH connection, terminal | `ubo unlock`, `ubo unlock change` | `Unlock` |
| `internal/config` text, `WireGuardClientConfig`, `contrib/rootless/parse.go` | the text of `ubo.toml` and `client_wg.conf` | write, annotate, load, validate, parse, accept | `Codec` |
| `internal/config` files, `internal/tui`, config selection in `main` | `ubo.toml` and `client_wg.conf` in `.` and each output directory | init, configure, run, find by host or picker | `ConfigStore` |
| `internal/remote` | known_hosts files, sudo password, `/tmp/ubo-setup.sh` | connect, run, upload, interactive session | `RemoteClient` |
| `internal/checker` | none | PATH lookup | part of `Provision!Start` |
| `tests/` | VMs | integration tests | not part of the program |

How the parts interact. `ubo run` is one sequential client process: load config,
`GenerateAll`, connect over SSH, detect the network, render one script with every
file embedded, upload and run it, read one JSON line back, write the local
artifacts. Nothing is rolled back when a step fails. The server side is one shell
script under `set -e`; kernel packages rebuild images and `grub.cfg` on their own
at any time. `ubo unlock` reads only the artifacts, and meets a server in
whatever image it booted from. `ubo run` and `ubo unlock` share nothing but files.
(README.md describes `ubo unlock` with `wg-quick` and root; the code uses
wireguard-go and an in-process SSH client, and that is what is modelled.)

What is hard: crashes between two of many file writes, with a re-run that decides
by what exists; two sides that must agree although either can stop first; a
script that may outlive its run; edits guarded by "already done" tests; three
device names computed apart; a terminal with several readers; connections that die
silently. The list, line by line, is under `hazards` in `PROJECT.json`.

What makes each part correct:

- keygen: pairs match, a whole set is kept, six files act as one value;
- provisioning: "configuration complete!" means every kernel's image can be
  unlocked; failures lock nobody out before an image is replaced; a host key is
  pinned only when every image holds it; repeating gets through;
- bootloader: exactly one `ip=` on each boot line, and nothing else lost of a line
  the script recognises;
- detection and boot: fields of one route, one physical NIC behind three names, and
  a script that never stops for want of a device and leaves one address, one route
  and `wg0` over the right device;
- unlock: exit 0 is true, the passphrase changes once, one session per
  connection, every invocation ends;
- configuration: what is saved is loaded, what was validated comes up and leads to
  the server, unlock takes the files of one run and those of the host it was asked
  for;
- SSH client: a run executes its own whole script, and stays on one machine.

## Modules

**`Keygen`** — `files` is the content of each key file, `pc`/`next`/`draw` the
position inside `GenerateAll`, `keys` what the running `ubo run` holds. A content
is the draw of randomness it comes from: two halves belong together exactly when
their draws are equal, which is all the program relies on. `ReuseExisting` and
`StartGenerate` are the two ways through `loadExisting`; `WriteKey` is one
`os.WriteFile`; `WriteFails` an error return with its unchecked clean-up; `Crash`
kills the process inside a write. `PartialWrites` says whether a failed write may
leave its file truncated or written, `LosableFiles` which files may vanish alone.

**`AtomicKeys`** — the promise: the directory holds one set or none. `Keygen`
implements it (`AtomicKeySpec`), and `Provision` is built on it by INSTANCE, so
provisioning does not repeat the six files.

**`Provision`** — client and server of `ubo run`. A generated file is what it was
rendered from (a key set, a config, or both); an image is a copy of the `/etc`
files at the time it was built (`BuiltFrom`). Each line group of the script is one
action of `ScriptStep(r)`, for the script of run `r`; each step of `cmdRun` one
action of `RunStep`. `RunFails` and `ScriptFails` may strike at any step.
`OpenFile` is the `>` that empties a file and `WriteFile` what `base64 -d` then
writes; in between the script may stop, or a package rebuild an image.
`Opens(image)` is what `ubo unlock` needs. `Orphans` lets a script go on after the
connection that runs it is lost; `alone` records whether a run began without one.

**`Bootloader`** — step 10 on command lines as sequences of parameters.
`GrepFindsIP` is the script's test, `HasIPParam` the whole-token test of
`cmdlineHasIPParam`. `file` is the assignment of `GRUB_CMDLINE_LINUX` in effect and
`lines` how many of them have double quotes; `Edited` is what `sed`, or `printf` for
want of such a line, makes of it. `default` is `GRUB_CMDLINE_LINUX_DEFAULT`, which
GRUB adds and the script never reads. `OthersUpdateGrub` is a kernel package,
`Renumber` a new address of the server between runs.

**`NetDetect`** — one server (a stack of devices and up to `MaxRoutes` default
routes), examined once. Addresses and gateways are the device they belong to,
drivers the NIC they drive. `mute` are the queries that fail, and `static` says
whether `network.ip` is set. `DetectNetwork` and `BuildSetupScriptData` are the Go
side, `Modules` the shell side of the same decision.

**`BootScript`** — extends `NetDetect` and runs the init-premount script on the
plan it made (`PowerOn` follows `BuildSetupScriptData`): which NICs show under
their names, and whether the kernel's `ip=` had configured one, is open. `line` is
the command to be run next; `QuietFailure` and `VLANAddFails` are `|| true`,
`Halts` is `set -e`. Of the template's branches only two are ever rendered with a
plan (`setup.go:161` and `166` clear `BondSlaves`).

**`Codec`** — one configuration on its way from `config.Save` to the wireguard-go
device. A line is a sequence of tokens: program words, free letters (`Letters`),
numerals, addresses, and the separators that the parsers look for (`Special`), so that
quoting, comments and cuts mean what they mean in the code. `CodecAssumption` says that
the configurations have the types of `config.go` and that no numeral or address is a
separator. `Load` is `parseTOML` over `Default`, `ParseQuoted` a
recursive function; `Annotated` is what an operator may add by hand, `CutShort` an
`os.WriteFile` that did not finish.

**`ConfigStore`** — the same files as values, with several processes at a time. A
file is `{}` or a singleton of the configuration it was written from; `proc` is what
each process does. `InitOpen`/`InitWrite` and `OpenClientConf`/`FillClientConf` are
one `os.WriteFile` each, `SaveCopy` and `ConfigureSave` a rename. `Quits` ends a
process anywhere; `mixed` records the directories where that, a lost copy, an
edit or an overlapping run may have left files of two configurations. An unlock is two
reads with any writes between them: `UnlockLoad` loads the config, `UnlockParse` derives
the output directory anew from it and parses the `client_wg.conf` there. One unlock at a
time is enough, for it writes nothing that another could see. That a
file is loaded as it was saved is `Codec!SavedIsLoaded`.

**`RemoteClient`** — each command is a new ssh process: `Connects` checks the host
key against the known_hosts file (`accept-new`), `SudoAllows` and `Left` are what sudo
makes of the password line, `Upload` and `Execute` the two commands of
`runSetupScript`. `Moves` makes the address lead elsewhere, `OthersSudo` changes what
sudo remembers.

**`Unlock`** — the client's `pc` from `wait` (waitTunnel) over `dial`, `handshake`,
`open`, `session` and `prompt` to the end, or by `direct` to a session of `ssh -t` with
the running system's sshd; the server's life; who is blocked in a read of the terminal (`readers`). The
copying goroutine that x/crypto/ssh starts for `Session.Stdin` outlives its
session until its read returns: this library behaviour is modelled from its use
and marked external.

`MCX` modules hold the constants that a `.cfg` cannot write down; `RemoteClient` needs
none. Definitions marked "Mutant" are faulty
variants of the definition below them; no specification uses them. Each property
is known to fail for one of them.

## Runs

Passing:

| Run | Question | Bounds and why they are enough |
|---|---|---|
| `keygen` | do six writes act as one set? | 4 draws: each failure needs at most two overlapping sets, and two more show it is still right afterwards |
| `provision` | is a completed run unlockable, a failed one harmless, a re-run the same keys, also when scripts overlap? | 3 runs, 1 fault, 2 operator or package events, 2 configs, 2 kernels: an interrupted run whose script goes on under the next ones, with a change and a foreign rebuild between them; two kernels for half-rebuilt images. Configs and kernels are symmetric |
| `provision_live` | does repeating get through, and is an unsupported server left alone? | 3 runs for 2 faults, so that one always gets through; 2 configs, 1 kernel, 1 event, all server kinds, scripts that end with their runs |
| `bootloader` | exactly one `ip=` wherever the edit took, and no parameter lost? | 3 runs, 2 networks, 2 entries, lines of up to 2 parameters, an `ip=` set by hand among them, with double quotes or without, with failing and interrupted edits and lookalikes: two runs may go wrong before one completes |
| `netdetect` | do the detected fields belong together, do the device names agree, and does the boot script make of them what it should? | 2 NICs, one VLAN, bond and bridge in every supported stack, 2 routes, every override, 1 failing query, 2 commands failing by themselves (a quiet one and another) |
| `unlock` | is exit 0 true, is the passphrase changed once, one session per connection, does every invocation end? | 2 invocations, 4 server events, 2 tries: a reboot into the initramfs, an unlock elsewhere and two more within one call |
| `codec` | does a configuration survive its way from `ubo.toml` to the tunnel? | one field varied at a time from the default: every string field with each special character alone and in pairs, `ssh.key` with all strings of two and many of three, ports 0, 22, 65535, 65536, all pairs of five tunnel addresses with two masks and four forms of host; a comment at each line; a cut at each token |
| `config` | do the two files unlock reads, one after the other, belong together, and to the host asked for? | 2 processes, a plain and an IPv6 host, a chosen directory and `output.dir = "."`, 2 values for the rest, 2 runs, 2 edits: two runs into one directory, or a run beside an edit, with another command stopped between |
| `remote` | does a run execute its own script, and on one machine? | 2 machines, 3 runs, 2 moves: there and back, with a broken upload before a whole one |

Violations, each a disagreement between the code and a document, comment or test
(details under `findings`):

| Run | What TLC shows |
|---|---|
| `bootloader_substring` | `gossip=1` makes GRUB's line count as done |
| `unlock_handshake` | an SSH handshake with a silent peer never ends |
| `remote_password` | on a server with NOPASSWD, a password asked for after a failed first probe becomes the first line of the uploaded script |

Some passing properties hold only under a condition, and the condition is a limit
of the code worth knowing. Each is easily shown: change the constant or drop the
premise and TLC refutes the property.

- `Keygen!KeysMatch` needs whole writes (`PartialWrites = FALSE`): a write cut
  short leaves a file `loadExisting` takes for a key. It also needs that no file
  but `client_auth_ed25519.pub` is lost alone (`LosableFiles`).
- `Provision!CompleteMeansUnlockable`, `CompleteMeansPrivate`, `PinIsInEveryImage`
  and `OnlyANewImageLocksOut` are about runs that started while no earlier script was
  active (`alone`). Nothing keeps two scripts apart: with overlap a key is pinned
  that no image holds, and an image is built while the other script has emptied the
  UMASK file.
- `Provision!PinIsInEveryImage` says that a key is pinned only when the images hold it.
  The converse fails: a run that stops between the rebuild and the pin leaves the old
  pin beside images with a new key.
- `Bootloader!OtherParamsKept` excepts a `GRUB_CMDLINE_LINUX` without double quotes
  (`lines = 0` with a `file` that is not empty): `templates.go:514` does not recognise
  it, and the line that `templates.go:518` appends overrides it, parameters and all.
- `Bootloader!AtMostOneIP` excepts an `ip=` in `GRUB_CMDLINE_LINUX_DEFAULT`, at which
  `templates.go:512` does not look.
- `Bootloader!OnlyCutEditsBootWithoutIP` exempts the entries whose edit was cut
  (`cut`): a `sed` that fails on a systemd-boot entry is not noticed by `set -e`,
  and the run completes.
- `Bootloader!OnlyCutEditsBootWithoutIP` exempts as well a run stopped after the
  `sed` and before `update-grub`: the next run finds `ip=` in `/etc/default/grub` and
  skips both (`templates.go:512`, which the script's comments call idempotent).
- After a re-run that failed once an image was rebuilt, all files of the earlier run
  are there and `ubo status` says "ready to unlock" (`main.go:576`), although the
  pinned key is no longer the image's: `CompleteMeansUnlockable` is about the
  latest run having completed.
- `README.md:255` says a re-run "regenerates **all** keys"; the code keeps a whole
  set (`keygen.go:28`), which `CompleteSetIsKept` shows.
- `NetDetect!OneRoute` is about one default route and no `network.interface`:
  with two routes the fields of both are merged.
- `GrubInterfaceIsNic`, `TunnelOverTheRightDevice` and `NeverStopsByPlan` need the
  queries that the interface's own kind depends on (`Recognised`): a failed one is
  taken for "no". A VLAN over a bridge is not among the stacks: there `ip=` would
  name the bridge (`setup.go:138`). `TunnelOverTheRightDevice` and
  `NeverStopsByPlan` also need that the NICs show under the names they have on the
  server: the fallback to the first Ethernet device takes any NIC, and the VLAN
  branch has no fallback and halts.
- `Codec!ValidatedComesUp` is about a host given as a plain IP address and an IPv4
  tunnel. Host names, bracketed hosts (which `OutputDir` provides for) and IPv6
  tunnels pass `Validate` and `ubo run`, and are refused at unlock
  (`rootless.go:76`, `108`).
- `ConfigStore!CompletedRunIsFound`: with `output.dir` set neither the picker nor a
  host name finds the copy, and `ubo unlock HOST`, which a completed run says to
  type (`main.go:242`), does not find a host with colons or brackets, for
  `main.go:369` keeps what `config.go:185` replaces.
- `ConfigStore!DirectoryAgrees` excepts directories in `mixed`: two runs at once, a run
  stopped between its files, a lost copy, an edited one. A run's copy also overwrites
  an edit of that copy made while it ran.
- `ConfigStore!UnlockReachesTheHost` is, where the host is asked for by name, about names
  that `OutputDir` or an `output.dir` does not make another host's too (`OwnName`): `[a]`
  and `a`, `a:b` and `a-b` share a directory, and an operator may name one like a
  host's. That the tunnel is the loaded config's own is claimed if the copy is still that
  config, in a directory not in `mixed`: a run that saves both files between unlock's two
  reads leaves it with the older config and the newer tunnel of the same directory.
- `RemoteClient!RunsItsOwnScript` is, for runs that send a password line, about a
  server where sudo asks each process; where it remembers a password or needs none
  the line stays on stdin. Runs and their scripts follow one another: two at a time
  share `/tmp/ubo-setup.sh`, and a shell that outlives its run would read on in the
  script of the next. `Execute` is therefore one step; what overlapping scripts do to
  the server is `Provision`'s.
- `RemoteClient!OneMachinePerFile` is per file: `ubo unlock change` keeps its own
  (`rootless.go:308`) and trusts on first use.
- `Unlock!InvocationEnds` exempts connections that die silently, those of `ssh -t`
  included: `ConnectTimeout` bounds the connecting only.
- `Unlock` has no property that the first answer at the question counts: it may
  go to the copier of the session before (`LoseLine`), and the user answers again.

Deadlock is checked where the system never stops (`Keygen`, and `NetDetect`,
`BootScript` and `Codec`, whose last states repeat). In the other modules a behaviour
ends when its budget of runs is used up, so their configurations switch it off.

## Fairness

`Provision!FairSpec`: weak fairness of the client's steps and of the scripts'
steps (running processes go on), and of `Start` while no run has completed (the
operator repeats the command). Faults are bounded, not excluded, and nothing is
promised of them. `Unlock!FairSpec`: weak fairness of the client's steps, of the
user answering what is asked, and of a remote command that has its input. The
server owes nothing. After a silent death of the connection the handshake, the
wait for an exit status and `ssh -t` have no timeout, which `unlock_handshake` shows for the
former; `InvocationEnds` says that nothing else keeps a call from ending.

## Proofs

`KeygenProofs` (TLAPS) proves for every `MaxDraws`:

- `TypeCorrect`: the type invariant, in any environment;
- `KeysAlwaysMatch`, `PubAlwaysCommits`, `CompleteSetAlwaysKept`;
- `KeygenImplementsAtomicKeys`: `Spec => AtomicKeySpec`.

All but the first assume `Careful`: writes are whole, and only
`client_auth_ed25519.pub` may be lost alone; both halves are needed. The matching of pairs is not inductive: it needs that the last
file is absent or of the same draw as the rest (`PubCommits`), that while writing
the files before `next` are of the running draw and the last one is away
(`Writing`), and that the keys in hand are the files (`InHand`). `IInv` is their
conjunction; `InvariantStep` has one step per action. The refinement follows from
`IInv`: a write of the last file is `Generate`, an error or crash is `Abandon`, the
other writes are stutters.

`RemoteClientProofs` proves for any machines and any number of runs and moves
`TypeCorrect`, `AlwaysRunsItsOwnScript` and `AlwaysOneMachinePerFile`, assuming only
that "none" is no machine. The invariant says that what was reached is what the
known_hosts file records (`Recorded`), and that between upload and execution the
recorded machine, the only one the next command can reach, has this run's script
(`Uploaded`), which rests on a server that asks each process remembering nothing
(`NothingRemembered`) and on what sudo leaves of the sent lines (`ScriptArrives`).

`BootloaderProofs` proves for any networks, entries, parameters and number of runs,
whichever edits fail or are interrupted, `TypeCorrect`, `AlwaysAtMostOneIP`,
`OnlyCutEditsEverBootWithoutIP` and `OtherParamsAlwaysKept`, the last for the lines the
script recognises and the second for what it looks at (see above). The third is not
inductive: it needs that `grub.cfg` equals the edited file except between an edit and
the `update-grub` that passes it on, or after a run cut there (`GrubFollows`), and that
the entries the loop has visited have `ip=` or are in `cut` (`EntriesVisited`). The
second follows from `EditedOnce`: GRUB's grep finds every `ip=` parameter and some others
besides (`GrepFinds`), so it never edits a line that has one; and a line that is edited
once at most stays within the length of its type (`Bounded`). That other parameters are
kept in their order is stated by an order-preserving bijection of their places
(`SameOtherParams`), which an edit at either end of the line leaves as it is.

`ProvisionProofs` proves for any configs, kernels and server, and any number of runs,
faults and operator events, with scripts that may outlive their runs: `TypeCorrect`,
`RerunsKeepDeployedKeys`, `CompleteAlwaysMeansPrivate`, `CompleteAlwaysMeansUnlockable`,
`PinAlwaysInEveryImage` and `OnlyANewImageEverLocksOut`. `OnlyFaultsEverFailARun` assumes `~Orphans`, as its run
does: a script that outlives its run can remove the host key under the next one.
`AloneOnlyFaultsFailARun` says what is left of it otherwise. The common invariant is
`Course`: the types, which need that each run generates one host key at most
(`HostKeysSpent`, a count over the runs whose script has not yet done so), what a run has
in hand at each step of `cmdRun` (`InHand`), and that a run which is alone has the only
script (`Alone`). Each property adds what it needs. `OneKeySet`: every file, script and
image holds the directory's keys or none. `ScriptAlone`: a script
that nothing overlaps has written the files of all steps before its own, UMASK
included, and they are its own (`Written`), in `/etc` and in every image it has
rebuilt. `Deployed`: once it is done, the local files are those of its run as
far as `cmdRun` has come. `Unsupported`: the preflight stops before anything is written.

`UnlockProofs` proves for any number of tries, server events and invocations
`TypeCorrect`, `AlwaysOneSessionPerConnection`, `ChangesAtMostOnce` and
`SuccessAlwaysTellsTheTruth`. The invariant says which connection and command belong to
each step (`Connected`), and that what has happened on the server is what the remote
command's outcome says, whether the client has learnt of it or not (`Changing`,
`Unlocking`): a reported success is then a command that ended well, and a second change
would need an invocation that changes to be past its question.

`ConfigStoreProofs` proves for any hosts, processes, directories and configs
`TypeCorrect`, `DirectoryAlwaysAgrees`, `CompletedRunAlwaysFound` and
`UnlockAlwaysReachesTheHost`. `OneRun(d)` is the heart: in a directory not in `mixed`
at most one process is between the two files, the copy is that one's config and leads
back to the directory, and without such a process the files agree. `mixed` includes a
directory that `ubo init` has written in: with `output.dir = "."` its template overwrites
the run's copy. `UnlockAlwaysReachesTheHost` rests besides on `ConfsAreOwn`: whatever is written when, the
`client_wg.conf` of a directory is of a config that leads to that directory. That is why
unlock's second read may come as late as it likes. The theorem assumes nothing of the
constants; which names are a host's own is a premise of the property (`OwnName`).

`BootScriptProofs` proves of `BootSpec`, for any NICs, virtual devices, routes and
overrides, whichever queries and commands fail: `AlwaysOneRoute`,
`GrubInterfaceIsAlwaysNic`, `BootTypeCorrect`, `TunnelAlwaysOverTheRightDevice`,
`AlwaysOneAddressOneRoute` and `PlanNeverStopsTheScript`. All but the first assume
`KnownStacks`, the stacks the script is written for: below a bond or a bridge are NICs,
below a VLAN a NIC or a bond. It bounds the kinds of device, not their number; TLC
evaluates it for the run's constants. (`NewVLANAssumption` says that the name of a VLAN
the script makes is no device of the server.) `Detection` says that what is known is what
the server shows, `StackPlanned` what the plan makes of each stack, and the rest is the
script's course: whether it makes a VLAN and what `$IFACE` is (`ScriptFollowsPlan`),
that `$IFACE` is up before `wg0` is touched (`UpFirst`), and where the address and the
route are at each command (`Moved`). That the first of several lines exists is the
least element of a set of places (`FirstPlace`), which the library's well-founded order
on the naturals gives without induction.

`CodecProofs` proves for strings of any length and content, and for any numerals and
addresses: `CodecSavedIsLoaded`, `CodecTypeOK`, `CodecTunnelLeadsToServer` and
`CodecValidatedComesUp`. It assumes only `CodecAssumption`; a number must have a numeral,
for `Values` takes the integers from `Atoi`. These are facts about folds and recursive
functions, proved by induction over places: the library's induction rules take an
operator, so `Induction` takes the predicate as the set of the numbers that satisfy it
and rests on the least element that the well-founded order gives. Each fold or recursive
function is first unrolled into the sequence of its states (`ConfReadInOrder`,
`LoadInOrder`, `LaidInOrder`, `QuotedInOrder`). The argument then has three parts.

- `QuotedIsRead`: scanned from behind, the quoted form of a string yields the string and
  leaves the rest of the line, which an escape before every quote and backslash makes
  possible. With `IntIsRead`, `BoolIsRead` and `CommentOnly` it makes `ValueLine`: a line
  of the file, with or without a comment, sets its field to its value.
- `MarshalIsRead`: after the lines of the first `i` rows of the schema the fields of those
  rows are the saved ones (`ReadRows`). `InsertedIsIgnored` compares the two ways through
  a file with and without a comment line, state by state.
- `ConfIsRead`: `client_wg.conf`, cut anywhere, was read back or lacks `AllowedIPs`. A cut
  before that line leaves the field empty; a cut before its value leaves it empty or unset
  (`CutBeforeValue`); a cut within it leaves a prefix that still begins with the server's
  address (`CutWithinValue`, `AllowedStarts`), which is why the tunnel leads to the server
  even then.

`CodecInv` carries this from stage to stage: what the earlier stages wrote is what the
later ones rely on, so that none of the last three invariants is inductive without it.

`Provision` relies on `KeygenImplementsAtomicKeys`: its `store`, `answer` and `spent` are
`AtomicKeys`' variables, and change by that module's actions only, as it is written.
What is to be shown of the keys is that the six files behave so, and that is shown of
`Keygen`.

Every invariant and every action property that a passing run checks is proved, and so
is the refinement of `AtomicKeys` by `Keygen`. Model-checked only:

- liveness under fairness: `RetriesGetThrough` and `InvocationEnds`;
- that the violations of the three runs are there.

## Not modelled, and the plan

1. Two concurrent `ubo run` processes in `Provision` and `Keygen`: `ConfigStore` has
   them for the two files unlock takes a configuration from, not for the keys.
2. `internal/remote`'s pinned mode with `Close`, and `ReadFile`: the program does not
   use them (`configureGrub`, the only caller of `ReadFile`, is not called either).
3. `internal/checker` is a stateless PATH lookup before a run; `tests/` is a harness.
4. Proofs: what is left is liveness, which the provers do not reach.

Texts, formats, logging and the cryptography are left out throughout.
