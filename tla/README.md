# A TLA+ model of shi

shi is an SSH client with tabs and a terminal (Slint, tokio, russh) and a
server that synchronises its users' hosts and encrypted passphrases between
devices (axum, SQLite).  This directory holds a model of the program, the TLC
configurations that check it on small instances, and theorems about it that
TLAPS has checked.  Paths below are relative to `src/crates/`.

## 1. The system

| component | source | state it keeps | operations |
|---|---|---|---|
| Sync data, encryption | `protocol/src/{types,crypto,api}.rs` | none | derive the vault key, seal and open secrets, request and response types |
| Server storage and handlers | `server/src/{db,routes}.rs` | tables `users`, `hosts`, `vault` behind one mutex | register, login, read and replace the vault salt, upsert (last write wins), delete and list hosts and vault entries |
| Accounts and tokens | `server/src/{auth,main,error,lib}.rs`, `client/src/sync.rs` | the token secret and lifetime of this start; per device a token and a vault key | register, log in, issue and verify tokens, restart |
| Local store | `client/src/store.rs`, `main.rs` | `state.json`: hosts, vault, preferences | load, save, upsert, delete with pruning, merge |
| Sync client and UI event loop | `client/src/{sync,app}.rs` | `UiState` (local state, account, shown rows), the UI's `busy` and `editing-id`, tasks on the runtime, the queue of `UiEvent`s | sign in, sync (push, then pull), save and delete a host, log out, handle an event |
| SSH sessions and tabs | `client/src/{ssh,app}.rs` | `UiState.sessions` and `active`; per session a task, four channels, a buffer | connect, select, close, type, pump output and status, resize, end; select text and copy it |
| Known hosts | `client/src/{known_hosts,ssh}.rs` | the file `known_hosts`, a copy per connection | load, check, add, save |
| Terminal buffer | `client/src/terminal.rs` | grid, scrollback, cursor, parser state, pending bytes | feed, resize, reset, render |
| Translations, widgets | `client/src/i18n.rs`, `client/ui/main.slint` | current language and theme | switch, lay out |

How they interact.  The UI runs on one thread.  Its callbacks and the timer
that calls `pump` are the only code that touches `UiState`; nothing there runs
concurrently.  Work that waits (requests, SSH) is spawned on a tokio runtime
with *copies* of what it needs and answers through an unbounded channel that
`pump` drains later.  The server serves each request under the mutex of its
database, so a request is atomic, but a sync is many requests.  Each SSH
connection reads and rewrites the one `known_hosts` file on its own.

What is hard to get right, and what should hold:

* **Sync**: devices, the tasks of one device, the user, late requests and
  restarts interleave between any two requests.  A host must not refer to a
  vault entry that is not there; a sync must not lose or rejuvenate what it
  pushed; rows must stay readable for their account; replicas must only ever
  move forward, and settle; the buttons must come back.
* **Local store**: the file is overwritten in place, so it may be old or torn
  after a fault; lists must stay maps from ids.
* **Known hosts**: connections overlap, each with its own copy of the file; a
  save truncates before it writes.  A host's key must stay the one first
  trusted, and a host must not be taken for another.
* **Terminal**: any sequence of characters and resizes must leave exactly
  `height` rows with the cursor on one of them, in an order that loses no
  history, and must return.
* **Sessions**: tabs are named by their index, which shifts when a tab closes
  or a session ends by itself; the pane is redrawn only when a flag says so;
  keys and sizes travel through queues to the remote side.  Text is selected
  with the mouse while output goes on replacing it.
* **Accounts**: registrations race, time out and are retried; `login` answers
  with a salt it read before it hashed the password; a restarted server has a
  new secret or another lifetime.  A name must keep its owner, a token must
  stand for somebody who lately showed the password, and a device's key must
  be the one of the account.

## 2. Modules

| module | models | composes |
|---|---|---|
| `SyncData` | rows, ids, clocks, sealing; the row operations both sides share (`PutNewer`, `Upsert`, `Remove`) | |
| `SyncServer` | the tables and the handlers, one action each; `Request` and `Serve` for requests that arrive late | `SyncData` |
| `LocalStore` | `LocalState` as a value: upsert, delete with pruning, merge, load | `SyncData` |
| `SyncSystem` | any number of devices and the server: callbacks, tasks, events, faults | `SyncServer`, `LocalStore` |
| `SyncReplicas` | the abstract promise: replicas that exchange written versions | `SyncData` |
| `SyncClaims` | what the documentation says and the code does not do | `SyncSystem` |
| `Accounts` | registration, login, tokens, vault salt, restarts of the server | |
| `Sessions` | tabs, the pump, and the task of each SSH session | |
| `Selection` | selecting text on the pane and copying it | |
| `KnownHosts` | connections, their copies, and the two steps of a save | |
| `Terminal` | the parser and the grid | |
| `Utf8` | the decoder in front of the parser | |
| `AccountsProofs`, `SessionsProofs`, `SelectionProofs`, `KnownHostsProofs`, `TerminalProofs`, `Utf8Proofs`, `SyncSystemProofs` | theorems | the module they are named after |
| `SyncRowProofs` | theorems about rows and the refinement | `SyncSystemProofs` |
| `MC*` | symmetry for TLC; `MCTerminal` puts `Terminal` and `Utf8` together | |

### The sync core

`Option<T>` is a set of at most one element.  Lists and tables keyed by id are
sets of rows, and that ids are unique in them is an invariant that is checked
and proved (`KeysUnique`), not an assumption.  What a user types is named by
the number of the save that stored it (a *stamp*); `new_id()` draws the same
number, because it is never reused.  The vault key is derived from a user's
password and salt, so it is named by the user; a ciphertext is a record of key,
associated data and text, and opens only with the first two.

`SyncSystem` has one action for each callback (`ClickSignIn`, `ClickSync`,
`ClickLogout`, `ClickSearch`, `ClickNewHost`, `ClickEdit`, `SaveHost`,
`ClickDelete`, `SavePreferences`), one for each request of a task
(`RegisterServed`, `LoginServed`, `PushVault`, `PushHost`, `PullHosts`,
`PullVault`, `DeleteHostServed`, `DeleteVaultServed`), one for the way each kind
of task fails (`SignInFails`, `SyncFails`, `DeletionFails`), and one for each
event `pump` handles (`OnSignedIn`, `OnSignInFailed`, `OnPulled`,
`OnSyncFailed`, `OnDeleted`).  A request that timed out after 20 s may reach the
server later (`LateServed`).  Every save of the state file may fail, leaving
the old file or a torn one, because no caller stops for it; `Restart` loses
everything but the file.  The order in which `push` sends the entries of one
phase is not fixed, since it does not matter to a property: the code's order is
one of those explored.

The clock of a device never goes back but is not tied to the others', and has
the granularity of the code, one second.  `written`, `removedHosts` and
`removedVault` are history variables; no guard reads them.

`SyncReplicas` is what a user may rely on: versions of hosts that somebody
saved travel between replicas; a device takes a version only over an older one,
the server only over one that is not newer, and a host disappears from a
replica only by a deletion or a restart.  A device's replica is `local.hosts`,
its `file` the hosts in `state.json`, the server's replica the rows of
`hosts`, opened.

### Accounts

A device signs in with one request (`SignIn`), which waits on its way (`sent`),
in a login also between the look-up and the hash (`verify`), and then as an
answer.  Handlers are `RegisterServed` and `RegisterConflict`, `LoginFinds`,
`LoginVerifies` and `LoginRefuses`, `SetVaultSalt` and `SaltRefused`, `Health`.
A device may give up at any time (`GivesUp`: the timeout, or the end of the
process), and the request is served all the same.  `Restart` takes any
configuration: a secret of the operator's or a random one, and any lifetime.
`ttl_seconds` is the cast from `u64` to `i64` on numbers of four bits, and
`Issues` says when `chrono` can add it to the time; where it cannot, the handler
panics after the account was created.

A password stands for its hash and, with a salt, for the key derived from it; a
salt is named by the request that uploaded it, and one no client can use is
negative.  `proofs` and `salts` are history variables.  No client of the
repository replaces a salt; `PostSalt` is somebody who holds a token and does.

`SyncSystem` names a vault key by the account.  What justifies that is
`KeyOfTheAccount`: as long as nobody replaces a salt, it leaves one key for all
devices of an account.

### Sessions

A session is a record of the UI (`ActiveSession`) and a task with its channels
(`Task`).  A callback and the `pump` it ends with are one step (`Connect`,
`SelectTab`, `CloseTab`), as is a tick of the timer (`Timer`); `Logout` and
`Clear` do not pump.  `pump` is the code's: drain, drop what ended, move the
active index, size the buffers, redraw what the dirty flags ask for (`Chrome`,
`Redrawn`).  The loop that copies the sessions which stay is `Kept`: it takes
their indexes `InOrder`, smallest first.  The task connects, writes, takes the
next size from its queue, or ends.  Keys, buttons and pasted text (`Type`) are
counted, and go through the session's channel to its `write_task` (`WriteKey`),
which goes on after the tab was closed, because dropping the handle of a tokio
task does not abort it.  A buffer is known by what was fed to it and when it was
cleared, which tells any two texts a user could tell apart; what `Terminal` does
with the characters is not repeated here.  The size the widget has now changes
at any moment (`WindowResized`).

### Selection

The text on the pane is a sequence of rows of different lengths, which
`set_terminal_text` replaces at any moment; `SelStart`, `SelMove` and `Release`
are the mouse, `SelectAll`, `CopySelection` and `CopyShortcut` the commands.
`recompute_selection` makes one bar for each line and the text under it.
`Index` is the cast of a column to `usize`: a negative one is larger than any
row is long.

### Known hosts

A connection (`Load`, `CheckServerKey`, `ConnectFails`, `Connected`,
`Truncate`, `WriteStore`) owns a copy of the file.  The file is a sequence of
lines, an address and a fingerprint each; `Loaded` makes a copy of it, in which
the last line of an address counts, and `Contents` are the lines of a copy in any
order, which is how a `HashMap` gives them.  `Truncate` and `WriteStore` are the
two steps of `std::fs::write`.  It writes bytes from the start of the file, so if
another connection wrote a longer text since the truncation, the end of that text
stays behind (`Remains`): whole lines, and before them perhaps the end of one,
which reads as another address, as the end of `110.0.0.1:22` does (`Ends`).  How
long names are is left open, so any line may be the one that is cut; the model
allows every mixture that lengths would and more.  A save that fails halfway
leaves some of its lines and a broken one (`Broken`).  The environment changes
keys (`KeyChanges`), deletes lines as the refusal tells the user to
(`UserForgets`), and ends the process (`Crash`).

### Terminal

`feed_char` dispatches on the parser's state, as in the code.  A control
sequence collects tokens: a number (all its digits at once), a separator, or
anything else; its final character is an action per group (`CsiMove`,
`CsiErase`, `CsiDelete`, `CsiInsert`, `CsiLines`, `CsiIgnored`).  The operations
on the grid are operators with the code's names on a record that holds rows,
cursor, size and scrollback.  `resize` and `Clear` happen between any two
characters.  A call that does not return sets `outcome` and ends the behaviour,
which is why these configurations turn the deadlock check off.  `ensure_row` is
left out because `ScreenIsExact` makes it a no-op, and that is proved.
Parameters above `IntMax` do not parse, and a move adds two numbers of that
width: `Wrap` is what a release build does on overflow, `MoveOverflows` when a
debug build panics.

`Utf8` is the loop of `feed` as a function of the bytes kept so far and those
that arrive (`Packet`): `Decoded` is a recursive function on the index of the
loop.  A character is the sequence of its bytes; `Encoded` is what the remote
side makes of a code point, and `WellFormed` what `std::str::from_utf8` accepts.
What the decoder gives the parser is any character whatsoever,
and neither reads the other's state, so `MCTerminal` lets one run while the
other rests in its initial state.

## 3. Runs

| run | question |
|---|---|
| `two_devices` | Do links resolve (`LinksResolve`), does a sync bring back what it pushed (`RoundTrip`), and does the system implement `SyncReplicas` (`ImplementsReplicas`), with two devices, two changes and two clock readings? |
| `faults` | Two accounts take turns on two devices, with every way to fill in the form and one fault at any point: types (`TypeOK`), `LinksResolve`, `RoundTrip`, and does every stored row open for its account (`EveryRowOpens`)? |
| `overlap` | With two tasks of each kind on one device and a fault: do ids stay unique (`KeysUnique`), is `busy` never set with nothing running (`BusyHasCause`), and is it always reset in the end (`BusyClears`)? |
| `convergence` | Do devices that go on syncing end with the same hosts and timestamps as the server (`TimestampsConverge`)? |
| `accounts` | Does a name keep its owner (`AccountsAreStable`), is the bearer of an accepted token the owner of its account (`BearerIsOwner`), who showed the password within the lifetime and, with a random secret, since the start (`AccessIsRecent`), and is a device's key that of the account (`KeyOfTheAccount`)? |
| `tabs` | Is the tab bar the list of sessions (`TabsAreSessions`), does the pane show the active one after every callback (`PaneShowsActive`), does it stay active while others close or end (`ActiveFollows`), is the size of a buffer the last one on its way (`SizeOnItsWay`), and does a key go to the session that was shown (`KeysGoWhereShown`)? |
| `selection` | Is what would be copied what is highlighted (`SelectedIsHighlighted`), is that what lies between the ends of the drag (`DragSelectsBetween`), and is that what is copied, when anything is highlighted (`CopiesTheHighlighted`)? |
| `trust_on_first_use` | Does one key per address stay trusted while connections do not overlap (`TofuWithoutOverlap`), and has every refusal a cause even if the bytes of two saves mix (`RefusalHasCause`)? |
| `terminal_grid` | Is the screen exact (`ScreenIsExact`), is the scrollback what scrolled off (`HistoryScrollsOff`), does a resize keep the cursor's line (`ResizeKeepsCursorLine`)?  Is output decoded the same however it is cut (`CutsDoNotMatter`), does text arrive as it was sent (`TextArrives`), and how much is lost after bytes that are none (`DamageIsBounded`)? |

Three more runs check what the documentation says and the code does not do;
TLC finds a behaviour that violates each.

| run | statement | what happens |
|---|---|---|
| `stale_passphrase` | passphrases are merged by `updated_at` | `merge_remote` takes every pulled entry, so an edit made during a sync is lost |
| `lost_key` | later connections compare with the recorded key | a connection that loaded the file earlier saves it without that key, and one that loads between the two steps of a save finds none |
| `calls_return` | the buffer handles these characters and sequences | a tab from the margin (or past the last stop) puts blanks for ever; other behaviours of the model end in `ESC [ 1 K` on an empty row, which indexes cell 0, in `ESC [ @` right of a row's end, which inserts out of bounds, and, in a debug build, in a move by a number near the largest `i64` |

Smaller disagreements, met while modelling and not given a run of their own:

* Two saves in one second leave devices with different contents for good,
  because the server takes the later push and each device keeps its own
  (`TimestampsConverge` therefore speaks of timestamps).
* "Vault entries first (so host.key_password_id references resolve)"
  (`sync.rs:147`), but another device may delete host and entry between the two
  phases of a push, and leave a host on the server whose entry is gone
  (`LinksResolve` therefore allows for deleted entries).
* The repository's README says that hosts are per user, but logging out keeps
  them, and the next account that signs in on the device pushes them.
* The comment at `terminal.rs:423` speaks of scrollback and screen together, but
  only the scrollback is capped.
* The repository's README says that a live resize is not wired, while `pump`
  sends one (`SizeOnItsWay`).
* With no selection the copy shortcut "is a no-op (it must never dump the whole
  scrollback ...)" (`main.slint:609`), but a click without a drag starts a
  selection that is empty, and then it copies the whole text.  `CopyShortcut`
  does so too; `CopiesTheHighlighted` promises nothing when nothing is
  highlighted, and so takes neither side.
* "On later connects the fingerprint must match or the connection is refused"
  (`known_hosts.rs:3`), but a host that never changed its key may be refused as
  well: when two saves overlap (`known_hosts.rs:85`), the end of the longer one may
  leave `10.0.0.1:22` with the key of `110.0.0.1:22`.  `RefusalHasCause` says that
  this, a key the host had before, and a failed save are the only causes.
* A drag that ends left of the text gives column -1.  As `usize` it is larger
  than any row, so the selected text lacks the first line, or has the whole last
  one, unlike the bars; the properties of `Selection` leave these drags out.
* "Some platforms deliver the control character directly ...; pass it through
  unchanged" (`app.rs:1260`), but U+0010 to U+0018, among them Ctrl+R and
  Ctrl+W, are taken for modifier keys before that and dropped.
* `POST /vault/salt` accepts any salt but the empty one.  Rows sealed before are
  unreadable to devices that sign in afterwards, and if the salt cannot be
  decoded, no device can log in any more.
* A `--token-ttl` that does not fit an `i64` becomes a negative lifetime, and one
  `chrono` cannot represent makes every registration and login panic after its
  work is done.

### Bounds, and why they are enough

* `MaxChanges` (saves and deletions), `MaxSignIns`: two changes are a save and a
  conflicting save, edit or deletion of it; two or three sign-ins let every
  device sign in, and one of them change accounts.
* `MaxClock`: 1 gives equal and different seconds, and clocks that disagree.
* `Slots` (tasks of one kind per device): one, and two in `overlap`, where a
  deletion that ends early re-enables the buttons.
* `Users`: two in `faults`, one elsewhere.
* `MaxFaults`: one fault at any point.
* `Forms`: the four ways to fill in the secret part of the form; a run takes
  those its question needs.
* `MaxSessions`: three, so that sessions end or close before, at and after the
  active one.  `MaxEvents`: two chunks of output, keys or changes of size in all,
  which is what it takes for two sizes to be queued at once.
* `MaxRequests`: three, which is a sign-in of either device and a retry, a
  second registration, or a new salt between them.  `MaxStarts`: two, with the
  same secret or another.  `MaxTime`, `Leeway`, `MaxTtl`, `I64Max`: a token of
  lifetime 0 is fresh, in its leeway and expired; 15 is -1 as a signed number of
  four bits.
* `Cols`, `MaxCol`, `MaxLine` and the texts of `MCSelection`: rows shorter than,
  as long as and longer than the drag, up to two lines, and positions right of,
  below and left of them.
* `Bytes`, `MaxBytes`, `Scalars`: leads of every length, one that only overlong
  forms have, one that is none, a continuation and an ASCII byte, and a character
  of every length that can be made of them; four bytes are the longest character,
  and every cut of it.  The theorems about `Utf8` hold for all of them.
* `MaxConnects` (four, two at a time) is what it takes for a recorded key to be
  overwritten and looked for again, with one more connection around it.
* `Addrs` of `KnownHosts`: two, of which one ends in the other, so both an address
  that can be taken for another and one that cannot; `Keys`: two, and the keys
  change at any time and back.
* `MaxChanges` of `faults`: one, so no request there is served after a newer write
  or a deletion.  That such a request breaks nothing rests on the theorems
  (`LinksAlwaysResolve`, `SyncsBringBack`).
* `MaxParams`, `MaxLine`, `MaxRows`, `TabStop`, `Widths`, `Heights`, `Numbers`:
  screens of up to 2 by 2 cells with a scrollback of one row and a tab stop of 2
  make every comparison of cursor, size and cap come out both ways; three tokens
  make two numbers with a separator; 257 tells a parameter from its last byte,
  is also the largest number that parses (`IntMax`), and 258 is not.
  A resize between heights 1 and 2 pushes at most one row into the scrollback;
  that several arrive in order rests on `HistoryIsWhatScrolledOff`.
  `ScreenIsExact` is proved without bounds.  `MaxLine` is needed because
  `insert_chars` does not cut a row at the margin.

### Fairness

Only `overlap` and `convergence` assume fairness, and only tasks are fair: weak
fairness of each device's sign-in, sync and deletion steps.  The code justifies
it by the 20 s timeout of every request (`sync.rs:49`) and the UI's timer, which
calls `pump` all the time.  Users and faults are not fair.  `TimestampsConverge`
assumes in its statement that every device goes on completing syncs.

## 4. Proofs

All theorems are of the form `Spec => []P` or `Spec => [][A]_vars` or, for the
refinement, `Spec => Replicas!Spec`, for every value of the constants that the
named assumptions admit.  These ask that bounds are natural numbers and sets what
their names say; only two ask for more: `SelectionBounds`, that the bounds of the
mouse reach the end of the text, and `AddrsAssumption`, that addresses are finitely
many and that an end of an end of an address is an end of it.  Each inductive invariant was first checked by TLC on the
instance of a run.

* `SyncSystemProofs`: `TypeCorrect`, `KeysStayUnique`, `LinksAlwaysResolve`.  Types
  are inductive.  Uniqueness of ids is not, since a sync carries lists away and
  back: `KeysInv` adds that the copies a task holds have unique ids too.
  For the links (`LinksResolve`), `LinksInv` says where one may be
  on its way: on a device and in its file it resolves there; a task's hosts
  that are still to be pushed resolve in the task's own vault; once the vault
  phase is over, or for a host that is on the server, late or pulled, it resolves
  among what the server stores or once deleted (`Covered`).  `Grows` says that
  `Covered` never shrinks, which is what makes the order "vault entries first"
  work whatever is interleaved.
* `SyncRowProofs`: one lemma for each thing a step may do to a table, to the late
  requests, to the syncs and to a device (`HostTableNext`, `VaultTableNext`,
  `LateNext`, `SyncsNext`, `DeviceNext`), and on them five theorems.
  - `SyncsBringBack` (`RoundTrip`): between a push and the pull of the same sync
    other devices overwrite and delete.  `TripInv` says that what a sync has sent
    already is on the server, not older, or was deleted; `AtLeastStays` that this
    stays so under every upsert, late ones included.
  - `TheServerKeepsNewest`: a stored row is replaced only by one that is not older,
    and disappears only by a deletion; no run states this one, which follows for
    hosts from `AtLeastStays` and is shown for vault entries in the same way.
  - `RowsAlwaysOpen` (`EveryRowOpens`): `OpenInv` adds that rows still on their way
    in late requests open for the account they were sent to.
  - `BusyIsJustified` (`BusyHasCause`): inductive with types.
  - `HostsTravelAsSaved` (`ImplementsReplicas`).  `OriginInv` says that every host
    on a device, in a file, in a task, on the server or in a late request is a
    version somebody saved.  Then `SaveHost` is the abstract `Write`, a host that is
    stored `Publish`, what a sync pulled `Adopt`, a deletion `DeviceForgets` or
    `ServerForgets`, and `Restart` is `Restart`.  A step that only saves the file
    (`SavePreferences`, `OnSignedIn`) adopts nothing, and every other one stutters.
* `AccountsProofs`: `TypeCorrect`, `TokensNameTheirOwner` (`BearerIsOwner`),
  `TokensExpire` (`AccessIsRecent`), `KeysAreTheAccounts` (`KeyOfTheAccount`),
  `OwnersStay` (`AccountsAreStable`).  None is inductive, because a token and a salt
  are on their way as an answer before a device has them, and a login answers with
  what it found before it hashed.  `Inv` says of each request and each client that
  its token was earned (`Earned`: there is a row with the token's id and name and
  the password that was shown, and a sign-in whose lifetime reaches the token's
  expiry), and that its salt was the account's at some time since the device
  asked; rows keep ids, names and passwords, and proofs and salts only grow.
* `SessionsProofs`: `TypeCorrect`, `ThePaneIsCurrent` (`PaneShowsActive`),
  `TheTabsAreCurrent` (`TabsAreSessions`), `SizesArrive` (`SizeOnItsWay`),
  `KeysArrive` (`KeysGoWhereShown`), `TheActiveIsFollowed` (`ActiveFollows`).  `Inv`
  says that sessions are listed in the order of their ids and that their queues
  account for their sizes (`Listed`), that keys are where they should be
  (`KeysGoWhereShown`), and that the UI is what `Chrome` makes of the sessions
  (`Shown`).  Sessions end
  anywhere in the list, so the proofs rest on facts about `InOrder`: that an
  increasing enumeration of a finite set of numbers exists (by induction over the
  numbers, from the well-founded order of the library) and that the position of an
  element is the number of smaller ones (`InOrderRank`), which is what
  `recompute_active` counts.
* `SelectionProofs`: `SelectionType`, `SelectedIsShown` (`SelectedIsHighlighted`),
  `DragsSelectBetween` (`DragSelectsBetween`), `CopiesAreShown`
  (`CopiesTheHighlighted`).  `SelInv`: the bars lie on the text that is there now,
  the parts are those under the bars, and the bars are those of the drag from
  `start` to `end`, unless these were forgotten or lie off the text.
  `RankOfLines` orders positions by line and column; `PartIsUnder` and
  `PartIsPicked` compare the slice of a row, whose ends are clamped, with the
  columns between two ends.
* `KnownHostsProofs`: `KnownHostsType`, `TrustOnFirstUse`, `RefusalsHaveACause`
  (`RefusalHasCause`).  A checked connection's copy holds exactly one key for its
  address (`CheckedKeys`).  `LoadedStore`, `ContentsLines`, `RemainsLines` and
  `BrokenLines` say which lines and keys come out of loading, saving and mixing;
  addresses must be finitely many for a copy to have lines in some order.  For the
  second theorem, `TofuInv` follows the one active connection through its save.
  For the third, `RefusalInv` says that a line of the file, or an entry of a
  copy, has a key that a host whose address ends in that line's had at some time
  (`PossibleForEnds`: what is possible for an address is possible for its ends),
  whoever overwrites what.
* `TerminalProofs`: `TerminalType`, `ScreenStaysExact`, `HistoryIsWhatScrolledOff`
  (`HistoryScrollsOff`), `ResizeKeepsTheCursorLine` (`ResizeKeepsCursorLine`).  One
  lemma for each operation of the grid says that it takes an exact terminal to an
  exact one, a second that it keeps the scrollback or adds the top row to it
  (`Keeps`, `Scrolls`); `CapNewest` says what the cap leaves, and `RowsMoveUp` that
  a resize moves the cursor and the rows above it by the same number.

* `Utf8Proofs`: `CutsNeverMatter` (`CutsDoNotMatter`), `TextAlwaysArrives`
  (`TextArrives`), `DamageStaysBounded` (`DamageIsBounded`), and
  `OnlyCharactersAreFed`, for packets of any bytes and text of any characters.
  `CutsDoNotMatter` is inductive once `sent` is known to be bytes; the work is in
  what the decoder computes.  The library's induction theorems take a predicate,
  which the provers here cannot instantiate, but its theorem on well-founded orders
  speaks of a set: with it, `AllNumbers` says that a *set* which holds a number
  whenever it holds all smaller ones holds all.  By that induction, on the bytes
  that are left, the decoder exists (`DecoderExists`), what it does from a position
  on depends on the rest only (`FromIsDecoded`), and decoding goes on where it
  stopped (`Continue`); on that lemma rest all four theorems.  `TextIsDecoded` goes
  through the text character by character, `ThreeAreEnough` compares what is kept
  with what its lead announced, and `EncodedFields` and `WellFormedIsEncoded` say
  that the sequences `WellFormed` accepts are exactly the encodings of characters.

Only model-checked: the two liveness properties `BusyClears` and
`TimestampsConverge`, since liveness under fairness is out of the prover's reach.
The three violations are found by TLC and have nothing to prove.

## 5. Not modelled

* In `SyncSystem`, a rejected token is one more reason for a request to fail, and
  the salt of an account never changes: `Accounts` models both.
* `GET /vault/salt` and the requirements on names and passwords at registration
  (`routes.rs:26-34`), which change nothing.
* Argon2, AES-GCM and SQLite themselves, JSON and HTTP.
* What a call costs: `insert_chars` and `insert_lines` with a huge number
  (`terminal.rs:386`, `394`) return in the model, while the code fills memory or
  loops that often first.
* `render` beyond which text it shows, and colours.
* Which bytes a key or a button stands for (`key_to_bytes`), and the pixels of
  the pane (`compute_pty_size`): tables and arithmetic without state.
* Translations and layout: wording and looks.  The conditions under which a
  button is enabled are guards of `SyncSystem`.

## 6. Plan

Every safety property and action property of the passing runs is proved.  What is
left:

1. Under a fair timer, that sizes settle and that sessions which ended go, as
   runs.
2. The two liveness properties for larger instances: their safety part, that
   rows on the server never go back, is `TheServerKeepsNewest`.
3. The parser behind the decoder for arbitrary text: that a line of plain
   characters is on the screen as it was sent, which needs the same induction.
