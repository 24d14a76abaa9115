# eUICC simulator: TLA+ models

A verification development beside `src/`, a Python simulator of eUICCs (the chip
that holds eSIM profiles) after GSMA SGP.22 and SGP.32. It holds TLA+ modules
translated from the code, TLC configurations that check them on small instances,
and theorems that TLAPS checks for every value of the constants.

`PROJECT.json` lists components, runs, hazards, findings and theorems, and for every
definition the lines of code it models.

## 1. The system

A client (an LPA or IPA, or a test script) sends APDUs to one of several simulated
eUICCs, over a TCP port that belongs to the eUICC or through an HTTP debug endpoint.
SELECT and STORE DATA are the APDUs that matter; STORE DATA segments are assembled
into an ES10 command, which is decoded, handled and answered.

    client ── TCP ──> ApduFrameParser ─> connection handler ─┐
    client ── HTTP ─> apdu_debug ──────> ApduProcessor ──────┼─> Es10Dispatcher
                                                             │        │
    browser ─ HTTP ─> GET /api/es10/... ─────────────────────┼────────┤
                                                             │        v
                                     ES10a, ES10b, ES10c and IoT handlers
                                                             │        │
                     Database <── startup, shutdown ──> EuiccState (per EID)

| Component | State | Operations | What makes it hard |
|---|---|---|---|
| Profile store (`euicc.py`, `es10c.py`, `es10a.py`, notifications of `es10b.py`) | profile slots, free NVM, notification queue and numbers, default SM-DP+ address | enable, disable, delete, memory reset, nickname, address, remove notification, install | long mixed sequences; two ways of accounting memory; positions that move |
| RSP session (`es10b.py`, `ecdsa_engine.py`) | `active_session`: challenge, transaction, key pair, keys, two flags | challenge, authenticate, prepare, load package, cancel, rollback | one session nobody owns; repeated, delayed and mixed messages; steps that raise half-way |
| eIM packages (`es10b_iot.py`, `es10c.py`) | eIM associations with counters | add eIM, execute a package of commands, SGP.32 reset | replay; commands that act on what the ones before left |
| TCP transport (`tcp_server.py`, `tcp_protocol.py`, `apdu_codec.py`) | per connection: parser buffer, selection, segment buffer | connect, read, SELECT, STORE DATA, disconnect | streams cut anywhere; commands given up half-way; block numbers of one byte |
| HTTP APDU handler (`apdu_handler.py`, `main.py`) | one selection and segment buffer per eUICC, shared by all requests | SELECT, STORE DATA | requests of several clients interleave in one buffer |
| APDU dispatcher (`apdu_dispatcher.py`, `identify_command`) | none | tag → decode → handler → encode → status word | requests that never decode; encoding that fails after the handler acted |
| Manager and lifecycle (`euicc_manager.py`, `main.py`, `tcp_server.py`) | the instances, their dispatchers and ports | create, startup, bind, shutdown | order of creation, restoring and persisting; clients that act while the server stops |
| Database (`database.py`) | rows per eUICC | load, persist | what is persisted and what is not; partial failure |
| Laravel seeder (`laravel_seeder.py`) | – | seed | nothing calls it |
| PKI (`certificates.py`, `cert_validator.py`) | keys and certificates, on disk and in memory | initialize, save, load, validate | two modes in one directory; a process that dies between two files |
| SCP03t (`scp03t.py`) | chaining value, counter | derive, decrypt, verify | chaining over blocks |
| ASN.1 codec (`asn1_codec.py`) | none | encode, decode | pure data |
| Configuration (`config.py`) | none | read once | – |

**Concurrency.** The server is one asyncio thread. Handlers and the dispatcher contain
no `await`, so a handler call is atomic, whoever calls; between calls anything may
happen: other connections, HTTP requests, the end of a connection. That is the
interleaving the modules model: one handler call is one action, and the
next-state relation takes any of them at any time. Startup awaits nothing that gives way
before its first bind, so reading the rows is one step; binding, `read`, `drain` and waiting
for a server to close do give way.

**Correctness**, per component:

- store: at most one profile enabled; memory never credited that is not there;
  notifications numbered so that an acknowledgement cannot hit another one; every
  change of state reported, in an order that tells which profile is enabled; enabled and
  provisioning profiles protected.
- session: a profile is installed only on the strength of a message signed for the
  latest challenge, once per transaction, never after the transaction was cancelled.
- eIM: a counter is accepted once by an association, by a package that raises half-way
  too; one association per eIM; the last
  eIM stays; the store's invariants survive packages.
- transport: what is dispatched is one whole command; a client recovers; the parser
  finds the commands that were sent, and each at once.
- lifecycle: what is saved is saved as a whole, and is what clients were last told; stopping
  ends; a port that is open is served; what was saved is there after a restart (the last two
  do not hold).
- certificates: the chain in use is one; an eUICC keeps its identity; a cut save does not keep
  it from starting (only in part).
- dispatcher: what the responses tell a client is so, and starting over gets it there.

## 2. Modules

| Module | What it is |
|---|---|
| `ProfileStore` | the profile store and the local commands |
| `RspSession` | EXTENDS `ProfileStore`: the download session, and SM-DP+ servers as its environment |
| `EimPackages` | EXTENDS `ProfileStore`: eIM associations and packages, interleaved with the local commands |
| `CommandChannel` | abstract: a command is executed once, or dropped |
| `Segments` | the clients of both front ends |
| `TcpChannel` | EXTENDS `Segments`: the TCP front end; refines `CommandChannel` |
| `HttpChannel` | EXTENDS `Segments`: the HTTP front end; refines `CommandChannel` while no command is disturbed |
| `FrameParser` | frames in a TCP stream |
| `Dispatcher` | EXTENDS `RspSession`: from the command's bytes to a handler, and back to a status word |
| `ProfileDownload` | EXTENDS `Dispatcher`: a client that downloads a profile among others; liveness |
| `DurableStore` | abstract: values that are saved together, and go back together |
| `Lifecycle` | the process and the database; refines `DurableStore` for the eUICCs it restores |
| `Certificates` | one eUICC's certificate chain and its files, from process to process |
| `MC…` | the instances TLC checks; one per module |
| `SequenceLemmas` | lemmas on sequences and lookups, for the proofs |
| `ProfileStoreProofs`, `EimPackagesProofs`, `LifecycleProofs`, `CertificatesProofs` | the theorems about the module of that name |
| `RspSessionProofs` | EXTENDS `ProfileDownload`: the theorems about the session, and about the dispatcher and client in front of it |
| `TcpTransportProofs` | the theorems about `TcpChannel` and `FrameParser` |
| `HttpChannelProofs` | the theorems about `HttpChannel` and `CommandChannel` |

### ProfileStore

The variables are the fields of `EuiccState` with their names, and `result`, the
answer of the last handler. A profile's content is its length. An AID is the number
that `allocate_isdp_aid` formats. A nickname, icons and names are left out. Each handler is one
action: its refusals are disjuncts with the code it answers, its success one with all
it changes, notifications included. `AddNotifications` is `add_notification`, once or
twice in a step. The memory reset changes profiles and address and then decides whether there was nothing
to delete, as the code does. `Used` and `Survivors` are folds written as recursive functions, so
that the module can be proved about. `Install` is the commit of
`load_bound_profile_package`, which `RspSession` uses too.

### RspSession

`active_session` is the record of the code without keys' bytes: a key pair is its number in the
session, `session_keys` what they were derived from. A challenge is the number of times one was
generated. `signed` is the network: every message an SM-DP+ has signed can be presented any
number of times, in any order, by anybody, or never. `AuthenticateServer`, `PrepareDownload`
and `LoadBoundProfilePackage` have the error codes of the code, and the answer `Raised` (111)
where the handler raises and its caller answers 6F00; what the handler had assigned by then stays
assigned: an authenticated or prepared session when the answer cannot be encoded or signed, the new
key pair alone when the SM-DP+'s key is malformed. A signature is abstracted to what it establishes, and certificate
verdicts are a choice over the codes they lead to. The code installs content whose MAC
fails, so MAC verdicts only decide the length. A sequence of ICCIDs is not checked for
duplicates by the code, nor here.

### EimPackages

A package runs in one action: counter, profile commands, then eIM commands, each
on the list the one before left (`AfterPsmos`, `AfterEcos`). A malformed command raises when it
is reached: such a package is given by the commands before it and `well_formed |-> FALSE`; they are done, the counter is
used up, the answer is `Raised`. Only direct calls bring that about, since the dispatcher passes a pair, which
raises at once (`LoadNoPackage`). `accepted` is a history inside an association. The SGP.32 reset is modelled with the exception its options
cause. The commands of `es10c` and the installation of `ProfileStore` run in between.

### CommandChannel, Segments, TcpChannel, HttpChannel

A client cuts a command into segments, numbers them in P2 modulo `Blocks` (256), sends them in
order and may give up at any segment. A segment knows the command it was cut from, which
its bytes do not show, so that mixtures can be told. On TCP, sending and handling a segment are one
step: a connection keeps its order, and a segment in flight when it ends is one never sent.
`HandleStoreData` has the four outcomes of the code. SELECT of another AID deselects
on TCP and does nothing on HTTP, and resets the buffer on TCP only; both follow the code. A command
whose length field is truncated raises out of `identify_command`, which is outside the dispatcher's
`try`: that ends the TCP connection and is the choice in `Dispatch`. Other status words
carry no state and are left out.

### FrameParser

The bytes that decide about framing are modelled as bytes: header, Lc, data,
and the guess whether the next byte is an Le. A stream is a list of commands; a read takes any number of its
next bytes. Commands are those with data and without Le (Case 3), which is what
the README's examples send (`IsCase3`). `cut` remembers that a read has ended right behind a header. The loop of
`feed` is a recursive function over its turns (`ExtractAll`, `TakeFrame`), so that it can be proved about.

### Dispatcher, ProfileDownload

A command goes through four stages, each with its failure: it is identified or not, decoded or
not, handled, and its answer encoded or not. `response` is what the client reads; the handler's
`result` is what it would have read. What the code does at each tag:

| Tags | Response |
|---|---|
| `BF31`–`BF34` | always 6A80: `EnableProfileRequest` and its like are not in the schema. The handlers are reached by direct calls only |
| `BF36`, `BF41` | always 6F00, the effect done: the handler's dict does not fit the type |
| `BF3F` | 6F00: a method `Es10aHandler` does not have |
| `BF50` | 6F00: `load_euicc_package` takes the decoded CHOICE, a pair, for a dict |
| `BF2D`, `BF28` | 6F00 as soon as there is a profile, a notification, to list |
| `BF59`, `BF5A` | 9000, and nothing is kept |
| `BF2E`, `BF38`, `BF21`, `BF58`, `BF2F`, `BF29` | 9000 with the handler's code |
| others | 9000 with data, 6A80 for an unknown tag; a cut length raises out of `dispatch` |

Over this way the raw `smdpSigned2` is not passed on, so that PrepareDownload looks at no signature.
The commands with an effect are the handlers of `RspSession` and `ProfileStore`, unchanged;
those that only read, and those about eIM associations, are told apart by what they answer.

`ProfileDownload` composes the dispatcher with a client that goes through the download flow of
the repository's README, an SM-DP+ that signs for it, and others that send any commands. The client
knows only responses. The package's is 6F00 in any case, so that the client can only start over.
Others may change something up to `MaxDisturbances` times, at any moment, and look any number of times.

### Lifecycle

One action per stretch of code between two awaits. `Start` is `lifespan` up to the first bind: test
eUICCs, their dispatchers, rows. `Bind` opens a port. `Accept`, `Read`, `Drain` and `ReadEof` are the pieces
of `_handle_client`, one client a connection; what the commands of a read do to an eUICC is `AfterCommands`,
any change of content with any number of notifications, and an exception out of one ends the connection,
those before it done. `CloseServer` is one round of `stop()`, and `PersistClosed`
`persist_euiccs`, which commits or rolls back. A row is what the code's columns keep: content and the
notification number, neither queue nor session. `Crash` is the process's end at any other
time, a bind that fails included; none of them persists.

`wait_closed` of asyncio's servers returned at once up to Python 3.11, and waits for the server's
connections from 3.12.1 on; `waits_closed` is either, chosen at the start. Where it returns
at once, `stop()` and `persist_euiccs` run without giving way and are one step (`RequestStop`); connections are
then left behind, and may be handled one read more, which no row will show.

### Certificates

A key is a number, a certificate whom it certifies and who issued it, a file present, missing or cut
(`Torn`). `StartSgp` and `StartLegacy` are `initialize` in its two modes up to the first write;
`Save` is one file written, key before certificate; `Crash` ends the process before or within a write. The
SGP.26 package is in the operator's hands (`SwitchPackage`). An exception out of `initialize` is
not caught, so that no eUICC starts. `force_regenerate` is never passed by the application.

## 3. Runs

| Run | Result | What it shows |
|---|---|---|
| `profile_store` | holds | the store's eight properties under every interleaving of local commands and installations |
| `rsp_session` | holds | no replay, delay or mixture of messages installs twice, installs what was cancelled, installs without a message for the latest challenge, or brings session keys of another session in |
| `eim_packages` | holds | packages of up to two commands of a kind, among local commands, keep the store and the associations sound, those that raise half-way included |
| `tcp_channel` | holds | only whole commands are dispatched, two in a row are never both lost, and the front end implements `CommandChannel` |
| `http_channel` | holds | as long as commands do not overlap and are finished, they are dispatched whole or not at all, those longer than the block numbers reach included |
| `frame_parser` | holds | the parser returns what was sent, each command with its last byte, until a read ends right behind a header |
| `lifecycle` | holds | commits are whole and current, a connection gets one read more after `stop()`, a shutdown ends unless a client holds it, and the eUICCs restored are a `DurableStore` |
| `certificates` | holds | which chains are sound, and which starts can fail, after which histories of modes and cut saves |
| `profile_download` | holds | starting over gets the client its profile, although its one decisive response is an error |
| `isdp_aids` | violated | delete the first of two profiles and install: two profiles have the same AID, where the docstring promises a unique one |
| `state_survives` | violated | a test eUICC, the only kind the application creates, loses its state at a restart: it is created anew, and its row passed over and overwritten at the next shutdown |
| `ports_serve` | violated | an eUICC that came from the database has a port and no dispatcher, so that its connections are closed at once, until an HTTP request builds one |

The last three each check one sentence of a docstring; `PROJECT.json`, "findings", quotes it.

### Properties worth a word

- `NvmAccounted` relates three accounts of the same memory: installations debit, deletions
  credit, resets recompute from the total, while pre-installed profiles were never debited and packages
  delete without crediting. It is an inequality because those leave memory unused, never
  overcommitted.
- `NumbersNeverReused` is about notifications already removed: a late acknowledgement must
  not find a newer one under the same number.
- `ProtectedProfilesKept` covers every flag of the memory reset and every other
  command; what is kept is also no further back in the list.
- `StateChangesNotified` says that each change of state leaves a notification, the implied disabling
  included, and `QueueShowsEnabled` what a reader makes of them: the last notification of a switch, if nothing was removed
  from there on, tells which ICCID is enabled. Enabling and implied disabling are numbered in one step, and
  in the other order the queue would end with the wrong one; resets, deletions and installations come in between and
  must not contradict it. It is about local commands: packages of eIMs switch without a notification.
- `InstallAuthentic`, `InstalledOnce`, `CancelledNeverInstalled` are about the whole history of
  a session that several clients share.
- `KeysOfThisSession` bounds how stale session keys may be: a second PrepareDownload without
  `bppEuiccOtpk` replaces the key pair and keeps the keys of the old one, and a second AuthenticateServer
  keeps those of an earlier transaction, but a challenge ends them all.
- `PackagesAcceptedOnce` holds since an association was added or its counter last set. Without
  that condition it would not: a package that carries an `updateEim` for its own eIM, or one whose
  eIM is deleted and added again, is accepted a second time. It covers packages that raise half-way: the
  commands before the exception are done, and sending the package again does not repeat them.
- `DispatchedWhole` and `LosesOneAtMost`: a command given up leaves segments in the
  buffer. The block mismatch that follows drops the buffer and costs at most that next
  command, never a mixture.
- `NothingHeldBack`: the parser never waits for a byte it does not need.
- `SavedIsCurrent` is about commands that come while the servers close one by one: those to servers still
  open are served, and must be over before the commit. It holds because `wait_closed` waits; where it does not,
  the one read that `OneMoreRead` allows comes after the commit and is lost.
- `ChainSound` and `StartsAgain` say in which histories things go well, as the code does not in all: a legacy start
  takes the eUICC certificate an SGP.26 start left, issued by the other EUM (the comment at
  `certificates.py:97` covers the other direction only), and in legacy mode one cut save makes
  every later start fail, since it is enough for `ci_private.pem` to exist.
- `ClientIsRight` is what lets a client act on responses, whatever attempts cut short have left behind;
  `DownloadArrives` that starting over suffices.

### Bounds, and why they are enough

| Run | Bounds |
|---|---|
| `profile_store` | 2 ICCIDs, 1 address, 3 slots, NVM 10 of which 6 free at the start, content of 0 or 3 bytes, the empty profile 2, 3 notifications, three initial lists |
| `rsp_session` | 1 ICCID, 2 servers, 3 transactions, 3 challenges, 2 key pairs in a session, 2 slots |
| `eim_packages` | 2 eIMs, counters 0 to 2, 2 packages of up to two commands, or one before a malformed one, 2 profiles and 2 slots, 1 notification |
| `tcp_channel` | 2 clients, 4 commands of up to 3 segments, block numbers modulo 3 |
| `http_channel` | the same with commands of up to 5 segments |
| `frame_parser` | streams of up to 3 commands of 5 kinds, reads of up to 7 bytes, a buffer of 19, extended Lc from 6, and one stream with a frame longer than the buffer |
| `lifecycle` | 1 test eUICC and 2 others, 1 client, 1 content, 2 notifications in an eUICC's life; any number of processes |
| `certificates` | 9 keys: two legacy chains and an SGP.26 certificate, or one chain and four; any number of starts |
| `profile_download` | 2 disturbances, so 3 attempts, 3 transactions, 5 challenges, 1 ICCID, 1 SM-DP+, 2 slots |

Three slots make a deletion from the middle and a full store possible, and the memory
runs out both before and after the slots do. Notifications are the only unbounded
counter of the store: when `MaxNotificationSeq` is reached, commands that would notify stop,
and the others go on; three allow an implied disabling, an enabling and a third event
with removals in between. Three transactions and challenges let a message of the
first session arrive in the third, and two servers let two answer the same challenge. Two
packages are what a replay takes. The channels' four commands let one be abandoned on one connection, its
remains meet two more, and another client interleave.

Two eUICCs beside the test one are what it takes to cut a save between rows and to close one server while
another is open; the content is one value, because notification numbers already
tell a row that is stale from one that is not. Two disturbances let one spoil an attempt and the other spoil the next; the
client may try once more than others disturb, and the bounds on challenges and transactions
leave it as many as that takes.

In the channels, `CHECK_DEADLOCK FALSE`: a client that has sent its commands stops. A stream
that was read to its end stops too. The others can always refuse something.

**`MaxLength <= Blocks` is sharp.** With commands of `Blocks + 1` segments TLC finds
a violation of `DispatchedWhole`: a block number that has wrapped round to 0 meets a buffer that a mismatch has just
reset, and the tail of a command is dispatched as a command. On TCP the code needs more than 256
segments, about 65 kB, for that. On HTTP such a command leaves `expected_block` at 256, which no
byte equals: the buffer takes nothing more until the process is restarted, which `UndisturbedWhole` allows. The run
and the theorems about TCP assume that commands fit; those about HTTP do not.

**What the parser's run leaves out.** After a read that ended right behind a header the two invariants
say nothing: four bytes in the buffer are a whole Case 1 command to `frame_size`, which is returned without data, and
the rest of its frame is parsed as the head of the next, although `tcp_protocol.py:10` lists "Single APDU split across
reads (fragmented)". Frames longer than `MaxBuffer - ChunkSize + 1` may be dropped, with
any complete ones in front of them, and `FitsBuffer` excludes them. From
the code it follows further that Case 1 commands are only found when alone in a read,
Case 2 ones not at all, and that a Case 4 command whose Le is 80, 84, 00, 0C or 04, or comes
in a later read, leaves that byte to the next frame.

**What `http_channel` leaves out** is two commands at once: the buffer is shared and passes a segment over whose
number it does not expect, so segment 0 of one command and segment 1 of another are dispatched as one.

### Fairness

*Lifecycle.* `WF(Shutdown)` and, per client, `WF(Handler(c))`: the event loop runs what is ready, be it `stop()`
after a server has closed or a handler whose bytes have come. Nothing is assumed of the operator, who may
never start or stop; of clients, who may keep a connection open and silent, or never take an
answer, for ever; nor of crashes. So `ShutdownEnds` has to allow for such a client where `wait_closed` waits: the code
has no timeout on `read` or `drain`, and the process then ends without a commit only by force.

*ProfileDownload.* `WF(ClientStep)` and `WF(SignForClient)`: handlers run to their end, in the order of the bytes, so
that a command sent is executed; that the client goes on and its SM-DP+ answers is the property's premise. Nothing is
asked of the others; that they disturb at most `MaxDisturbances` times is the premise that makes starting over end.

The other specifications state no fairness: there the server only ever answers, in the action it
answers, and recovery is stated as safety, in `LosesOneAtMost` and `NothingHeldBack`, which say how soon.

### Running them

    tlc -config MCProfileStore.cfg MCProfileStore.tla     # any run of PROJECT.json, the same way
    tlapm ProfileStoreProofs.tla                          # any of the proof modules

`eim_packages`, `rsp_session` and `profile_store` take a few minutes each with two workers,
every other run a minute or less.

## 4. Proofs

All theorems hold for every value of the constants under the named assumptions: sizes are naturals,
initial lists are well formed and fit the memory, the values that stand for "nothing" are none of
the others. The theorems about `TcpChannel` assume `MaxLength <= Blocks` besides. `FrameParser` assumes of its streams
that they are case 3 commands whose data an extended Lc can announce, and of an Lc of one byte that it is a byte
(`ExtendedFrom <= 256`). TLC evaluates the assumptions in every run.

| Module | Theorems | Along which argument |
|---|---|---|
| `ProfileStoreProofs` | `TypeCorrect`, `OneEnabled`, `NvmIsAccounted`, `QueueIsOrdered`, `NumbersAreFresh`, `ProtectedProfilesStay`, `StateChangesAreNotified`, `QueueIsTruthful` | `StoreInv`, the conjunction of the four invariants |
| `RspSessionProofs` | `SessionTypeCorrect`, `SessionsAreAuthentic`, `KeysStayInTheirSession`, `TransactionsInstallOnce`, `CancelledStayCancelled`, `InstallationsAreAuthentic` | `SessionInv` |
| `RspSessionProofs` | `ClientConcludesRightly`, `DownloadsAreAuthentic` | `DownloadInv`: `SessionInv` and what the client holds |
| `EimPackagesProofs` | `EimTypeCorrect`, `EimsAreUnique`, `StoreIsSoundWithEims`, `EimsAreKept`, `AcceptedOnce` | `EimInv` |
| `TcpTransportProofs` | `TcpTypeCorrect`, `CommandsAreWhole`, `OneIsLostAtMost`, `TcpImplementsChannel` | `TcpInv` |
| `TcpTransportProofs` | `ParserInvariant`, `ParserTypes`, `ParsedInOrder`, `NoCommandHeldBack` | `ParserInv` |
| `HttpChannelProofs` | `HttpInvariant`, `WholeWhenUndisturbed`, `HttpImplementsChannel` | `HttpInv` |
| `HttpChannelProofs` | `ChannelAtMostOnce` | `ChannelInv`, of the abstract channel |
| `LifecycleProofs` | `LifecycleTypeCorrect`, `SavedStaysCurrent`, `ReadsEndWithStop`, `LifecycleImplementsStore` | `LifeInv` |
| `CertificatesProofs` | `CertificatesTypeCorrect`, `ChainsAreSound`, `StartsSucceed`, `IdentityStays` | `CertInv` |

**The store.** The invariants need each other: an enabling switches the *first* enabled
profile off, which is enough only if there is one at most; `free_nvm` stays a
natural after a reset only because what survives fits the total. `Used` is a sum along the list, so
that its behaviour under appending, removing and changing a state are lemmas by
induction over the list's length; `Survivors` gathers a part of the list, whose `Used` is no larger.
`ProtectedProfilesStay` needs more of `Survivors`, that each survivor is found no later than it was
(`SurvivorsInPlace`). `StateChangesAreNotified` needs `AtMostOneEnabled` again: `Enable` notifies of the *first*
enabled profile it switches off.
`QueueIsTruthful` is inductive with `StoreInv`: every command either adds no notification of a switch and leaves the set of enabled
ICCIDs as it was (`SameQueueShows`, `QuietEventShows`), or ends the queue with the one that tells the new set (`SwitchShows`); and removing
a notification leaves the last one that tells, or the premise fails (`RemovedShows`).

**The session.** `InstalledOnce` is not inductive: nothing in it says why a transaction
cannot come back. The strengthening `Retired` does: an installed or cancelled transaction was signed for
a challenge that no session now holds, since the session was dropped with it, and
challenges only grow. It needs that a transaction is signed once (`TransactionsUnique`) and
that a session holds the latest challenge (`ChallengesCurrent`).

**The client.** `DownloadInv` adds to `SessionInv` what the client knows: `MessageOfAttempt`, that the message it passes
on is one signed for the challenge of its attempt. While nobody disturbs, each of the client's positions goes with a
state of the session (`ClientIsRight`); a dispatched command keeps `SessionInv` because, whatever becomes of its decoding and its answer,
the state takes a step of the session or none. `ClientIsRight` is then inductive with these two, over any number of attempts.

**Packages.** A package is two folds. That the profiles stay within `ListsWithin` (one enabled at
most, no more memory than before) and the associations within `AssociationsFrom` (no eIM
twice, none beyond its accepted counters, not empty if it was not) is proved along the folds, for packages of
any length. `CountersCover`, that an association's counter is no less than any
it has accepted, is what makes `PackagesAcceptedOnce` inductive.

**TCP.** From a command's second segment on, the connection's buffer is in step with it or
empty (`InStepOrEmpty`); before its first it may still hold what an abandoned one left. A block number that matches puts the buffer in step, which is where
`MaxLength <= Blocks` is used; after a loss the buffer is ready for the next (`ReadyAfterLoss`).
`TcpImplementsChannel` maps begun commands to pending ones and dispatched ones
to executed ones, step by step: connecting and selecting stutter, the last segment executes or drops.
`CommandsNumbered` keeps the mapping's `Issue` honest. With `ChannelAtMostOnce`,
proved of the abstract channel, no command is executed twice over TCP.

**HTTP.** Without a disturbance at most one client is sending (`OneAtATime`), and the shared buffer is in step with it
(`BufferInStep`) or stuck: a command longer than there are block numbers has filled it, it waits for a block that does
not exist, and dispatches nothing any more. So nothing has to be assumed of the length. `HttpImplementsChannel` uses the
invariant at each step before the first disturbance; once disturbed, a behaviour stays so.

**The parser.** `ParserInv` says, while its premise holds, that for some `k` the first `k` commands are parsed, end in
what was read, and the buffer is the stream from there on, without a whole command. Its proof is in layers: a frame
that is there whole is found, and one that is not is not (`CompleteFrame`, `IncompleteFrame`), since the byte behind it is a class;
`decode` undoes `Encode` (`DecodedFrame`); each command lies where the ones before end (`InStream`, along the
recursion of `FlattenSeq`); the turns of the loop take one command each until the rest is incomplete (`PartExtracted`).
A read that ends behind a header breaks `IncompleteFrame`, and only that. A frame that
fits leaves room for a read (`ArrivalInStep`), so `FeedOverflow` cannot happen under the premise.

**The process.** `ConnectionsKnown` is the heart of `LifeInv`: until the commit, every connection belongs to a server
that still listens or to the one `stop()` waits for. When the last has closed there is none left, so that nobody is
there to change anything after the commit (`NobodyAfterCommit`), which is `SavedIsCurrent`. `LateIsOver`: a connection
read after `stop()` only waits for its client to take the answers, and its loop then ends. `LifecycleImplementsStore` maps
what clients see to memory, or to the rows while there is no process; starting stutters, since the rows become the memory,
and a crash reverts.

**The certificates.** A process writes its bundles one after the other, so that between two writes the files are partly
the chain in memory and partly what the directory held before. `SaveInv` says of each bundle that it is either still to be
written or equal to the one in memory; `IdentityInv` that an identity, once kept, is on the disk. What a start then finds
depends on the history: whether a save was ever cut (`CleanInv`, `SettledInv`), and whether all starts so far had one mode
(`SgpOnlyInv`, `LegacyOnlyInv`). The three properties follow from these, and none of them is inductive alone. All
starts that go on share one lemma, `StartKeepsInv`, and those that raise another, `RaiseKeepsInv`.

**Only model-checked:** the liveness properties `ShutdownEnds` and `DownloadArrives`, since the prover does not
reach fairness, and the violations. Every safety invariant, action property and refinement that a passing run checks is stated by a theorem.

## 5. Hazards

`PROJECT.json` lists each hazard at the line where it bites, with the properties that
guard it. Where the code does not withstand a hazard, the property says under which condition it does, and the text
above what happens otherwise. Two departures of this kind in eIM packages and resets: the counter
that orders an eIM's packages can be set back by the package itself (`PackagesAcceptedOnce`), and the SGP.32 memory reset
hands its options on as a tuple, on which `euicc_memory_reset` raises, so that it resets nothing. Where a property only
excludes the case a hazard is about, as with over-long commands on TCP or a trailing Le, the hazard has a note that
says so and does not claim the property.

## 6. Not modelled, and why

- `cert_validator.py`: a pure function of a chain and a clock; its verdicts are the codes of
  `AuthenticateServer`. `cryptography` itself is external.
- SCP03t: bytes, and state that lives within one call of `load_bound_profile_package`; the session keeps the
  length that decryption leaves and the case that raises.
- ASN.1: the schema decides what decodes and what encodes, which `Dispatcher` holds type by type; the bytes are
  asn1tools'.
- The seeder: nothing calls it; the rows it would write are initial rows of `Lifecycle`. Configuration: constants.
  `delete_euicc`: not called.
- An exception at `es10b.py:562`, between an installation and the end of its session: the result's encoding refuses an ICCID
  or an address that is not of the schema's type, which a decoded package and a decoded serverSigned1 never hold; a direct
  call with such values would install the profile and leave the session open. `server_signed1_raw` of
  `authenticate_server`, which no caller passes.
- Read-only answers (`GetEID`, `GetProfilesInfo` and the like) beyond their status word, and the GET endpoints
  that only read.

## 7. Plan

Done, in this order: `ProfileStore`, `RspSession`, `EimPackages`, the channels, the parser, `Lifecycle` over
`DurableStore`, `Certificates`, `Dispatcher` with `ProfileDownload`; each with its runs, most with their proofs. Next:

1. `Euicc`: `RspSession` and `EimPackages` on one store, behind the channels; the store's
   invariants again, with all actors.
2. An abstract `TransactionFate` (open, installed or cancelled) that `RspSession` refines.
3. SCP03t's chaining value and counter against a reference, over short packages.
4. Proofs about these: the store's theorems for `Euicc`, and the refinement of `TransactionFate` from `SessionInv`.
