# Token Town in TLA+

A model of Token Town (pixel agents): a VS Code extension that shows AI coding
agents as characters of an office, and a Go server that turns the tokens they
use into coins, sells furniture for them, and keeps the windows of a user in
step over WebSockets. The modules are translated from the source under `src/`,
checked with TLC on small instances, and proved with TLAPS for every instance as
far as safety goes: each invariant and each action property that a run checks, and
both refinements, the editor's with its exception, is a theorem. `PROJECT.json` maps each definition to the lines it models.

Paths below are short for: `go/` = `apps/servers/go-app/internal/`,
`ext/` = `apps/clients/vscode-extension/src/`,
`web/` = `apps/clients/vscode-extension/webview-ui/src/`.

## The system and its parts

| Part | State | Operations | Talks to |
|---|---|---|---|
| Coin economy: `go/economy/wallet.go`, `go/shop/purchase.go`, `go/api/economy.go` | tables users, transactions, processed_requests, furniture_products, user_furniture_inventory | token report with dedup, admin credit and debit, furniture purchase | PostgreSQL row locks; the hub, after the commit |
| Legacy shop: `go/economy/shop.go`, `go/api/admin.go` | shop_items, inventory | purchase; create, update, withdraw an item | `SpendCoins` of the wallet |
| Hub: `go/ws/hub.go`, `go/ws/client.go`, `go/rooms` | rooms, occupants, channels of each client | register, unregister, broadcast, read pump, write pump, first snapshot | every handler; the extension over WebSockets |
| Placements: `go/shop/placement.go` | room_furniture_placements | validate and replace all | the hub |
| Rate limiter, authentication, queries: `go/api`, `go/auth` | token buckets; none else | allow, sweep; sign, verify | every route |
| Token reporter: `ext/tokenReporter.ts`, `ext/economyClient.ts`, `ext/extension.ts` | pending reports, offline queue in globalState, token | report, flush, drain, start, stop | REST API of the economy; started by the WebSocket client |
| WebSocket client: `ext/wsClient.ts` | socket, timer, delay, session token | connect, reconnect, disconnect, set token | the hub; the secret storage |
| Agent activity: `ext/transcriptParser.ts`, `ext/timerManager.ts` | active tools, sub-agents, waiting, timers | process a record, fire a timer, post a late message | the webview; the token reporter |
| Agent tracking: `ext/agentManager.ts`, `ext/fileWatcher.ts`, `ext/PixelAgentsViewProvider.ts` | agents, terminals, offsets, known files, the stored list | launch, adopt, discover, restore, reassign after /clear, close | transcripts on disk; VS Code's terminals; the webview |
| Layout persistence: `ext/layoutPersistence.ts` | one JSON file shared by all windows | load with migration, write, watch | the webview |
| Furniture catalog: `ext/assetLoader.ts`, `web/office/layout/furnitureCatalog.ts` | rotation groups, states, animations | load, build, turn, switch | the editor and the office |
| Office engine: `web/office/engine`, `web/office/layout` | characters, seats, paths, games | add, remove, move, sit, play, rebuild | the messages of the extension; the mouse |
| Layout editor: `web/office/editor`, `web/hooks/useEditorActions.ts` | layout, undo and redo stacks, tools, pending save | paint, place, turn, drag, grow, undo, save, reset | layout persistence |
| Shop interface: `web/shop`, `ext/shopRelay.ts` | cart, coins, inventory, flags, dialog | open, add, buy, close | the WebSocket client and the server's handlers |
| Rendering, Angular administration, deployment | none of the protocol's | drawing, forms | |

What is hard, part by part:

- **Economy.** Requests of several windows run as concurrent READ COMMITTED
  transactions. Correct means: no debit beyond the balance, no lost update, a
  requestId paid once, no unit sold twice, no deadlock between the two lock
  orders, and all of it when a statement fails or the server dies.
- **Legacy shop.** The same purchase without a transaction around it. What does
  it still guarantee, and what does it not?
- **Hub.** One goroutine owns the rooms, but closes channels other goroutines
  send on, and sends into a bounded channel that it alone empties. Registration
  and unregistration travel in separate channels. Slow windows are cut off.
- **Token reporter.** Every `await` lets other callbacks run between taking
  reports from one place and putting them in another; answers are lost; the
  host is reloaded or killed.
- **WebSocket client.** Close events, the timer, the awaited secret and the
  disposal come in any order.
- **Agent activity.** Two state machines, in the extension and in the webview,
  must agree, though two timers guess what the transcript does not say, some
  messages are sent late, /clear changes the transcript, and the panel forgets
  everything when it is hidden.
- **Agent tracking.** Nobody tells the extension which terminal writes which
  transcript: it guesses from the focus, while /clear starts new files, three
  readers look at one file, and a reload forgets all but a stored list.
- **Layout persistence.** Windows are processes that write, rename and poll one
  file; a window must notice the others' changes and not take them for its own.
- **Office engine.** Seats, sub-agents, walks and games of two are kept in step
  by long sequences of calls, while a new layout moves everything.
- **Editor.** A stroke, a drag or a colour is one change made in many events;
  undo, the debounced save, reset and another window's layout cut in.
- **Shop interface.** Requests are sent without an identity and answered in the
  order of one connection, balances are told by different goroutines, and the
  connection may go at any time.

`PROJECT.json` lists each hazard at its line with the properties that cover it.

## Modules

| Module | Models | Checked with |
|---|---|---|
| `EconomyOps` | vocabulary: operations that move coins, their amounts and ledger rows | |
| `Wallet` | abstract economy: every operation is one atomic step | `MCEconomy`, as a refinement |
| `Economy` | the transactions, statement by statement, with row locks | `MCEconomy` |
| `EconomyProofs` | theorems about `Economy` | tlapm |
| `LegacyShop` | the non-atomic purchase and the administrator; debits are steps of `Wallet` | `MCLegacyShop` |
| `LegacyShopProofs` | theorems about `LegacyShop` | tlapm |
| `Hub` | event loop, pumps, handlers' sends, occupants | `MCHub` |
| `HubProofs` | theorems about `Hub` | tlapm |
| `TokenReporter` | one window's reporter, its registration and its host | directly |
| `WsClient` | the extension's connection | `MCWsClient` |
| `WsClientProofs` | theorems about `WsClient` and `ShopPanel`, which uses its connections | tlapm |
| `AgentActivity` | one agent: the records of its transcript, timers, and what the webview shows | `MCAgentActivity` |
| `AgentTracker` | which transcript each agent follows | `MCAgentTracker` |
| `AgentProofs` | theorems about `AgentActivity`, `TokenReporter` and `AgentTracker` | tlapm |
| `LayoutSync` | windows that share the layout file | `MCLayoutSync` |
| `OfficeGrid` | geometry: blocked tiles, seats, paths | `MCOffice` |
| `Office` | characters, seats, sub-agents, walks, games | `MCOffice`, two configurations |
| `OfficeProofs` | theorems about `Office` | tlapm |
| `OfficeLayouts` | the editor's operations on layouts, migration | `MCLayoutEditor` |
| `FurnitureCatalog` | manifests, rotation groups, states, animations | `MCLayoutEditor` |
| `Timeline` | abstract undo and redo | `MCLayoutEditor`, as a refinement but for one step |
| `LayoutEditor` | the editor under mouse, keyboard, buttons and timer | `MCLayoutEditor` |
| `LayoutProofs` | theorems about `LayoutSync` and `LayoutEditor` | tlapm |
| `ShopPanel` | the shop in several windows, its relay and the server's handlers | `MCShopPanel` |
| `Lists` | the filter of a list, in a form that can be reasoned about | with the modules that use it |
| `ListProofs` | lemmas that several proofs share: induction, recursions, that filter | tlapm |

Operators commented as *Fault* or *Slip* stand before the definition they
distort. No specification uses them: each is a plausible mistake in the mapped
code, and
replacing the definition by it makes a property fail, which shows that the
property depends on that code.

### Economy

A session is a goroutine serving one request; `pc` names its next statement.
`Begin` chooses a request that passes the validation of its handler;
`CheckDuplicate` is the EXISTS query of `EarnCoinsWithDedup` (a snapshot, no
lock); `LockProduct` and `LockUser` are the two `SELECT ... FOR UPDATE` with
the checks the code makes under each; `Record` is the insert into
processed_requests, which waits for another uncommitted row with the same key
and fails on a committed one; `Commit` makes the writes visible. `Fail` is any
statement that fails, a client that leaves or a crash, all of which roll back.
Writes are folded into `Commit` because READ COMMITTED shows them to nobody
earlier, and the rows they touch are locked. `Refused` also holds when an
addition would overflow an INTEGER column. The legacy `EarnCoins` and
`SpendCoins` are the plain credit and debit. `TokensToCoins` is an input
(`CoinsOf`), positive because the handler answers 204 to a report worth 0.

`Wallet` is what the callers rely on. `AtomicWallet` maps it to the four tables
of the same names, and `ImplementsWallet` says that every interleaving of
statements is a sequence of whole operations.

### LegacyShop

`ReadItem`, `CheckLimit`, `Spend` and `Deliver` are the four accesses of
`ShopService.Purchase`, with anything in between: the administrator's
`CreateItem`, `UpdateItem` (price and availability are updated by one statement
each) and `DeleteItem` (which only hides the item), other purchases, and
`Abort`. `Spend` is `Wallet!Apply`: the economy's theorem justifies an atomic
debit here. `ReadsMayFail` models the discarded error of the quantity query.

### Hub

`Register`, `Unregister` and `FanOut` are the three cases of the hub's select.
The first two end by announcing presence through the hub's own channel, so
`hub` holds the message until `Announce` can send it. A connection has a reader
(`Receive` enters a handler, `work` is what the handler still sends; `Publish`
and `Answer` are its sends), a writer (`Write`, `StopWriting`) and a goroutine
for the first snapshot (`Greet`). `Handlers` lists the sequences of sends of the
handlers in `client.go`. `since` is history: what the others had published when a
client entered its room. A send on a closed channel panics, which ends the
process (`crashed`). Snapshots' contents and database work are left out. The
HTTP server recovers panics of its own request goroutines only; the pumps and
the snapshot run in goroutines of their own.

### TokenReporter

Each action is what runs between two awaits. Reports are numbered; `pending`,
`batches` (POSTs awaited), `drains` (queues taken and not yet given back) and
`queue` (globalState) are the places where one can be. `durable` is what VS Code
has written of globalState (`Persist`); only a drain waits until its update is
written (`FinishDrain`), the other updates are not awaited, and what was not
written is gone with the host. `Connected`,
`Registered` and `Stored` are the handler of `_connected` in `extension.ts`:
register, store the token, `start()`. `Dispose` is the deactivation, `Exit` the
end of the host, orderly or not, which leaves `durable`, `Activate` the next window. A POST that the
server credits but whose answer is lost is an `unheard` outcome.

### WsClient

`Connect` and `SecretRead` are the two halves of `connect()`, around its await.
`DoConnect` creates a socket, or throws when the
configured URL (`urlValid`, which the user may edit: `Configure`) is wrong. `Open` and `Close` are the socket's
events, `Reconnect` the timer, `Registered` and `Stored` the session token's
way, `Dispose` the deactivation. `known` records which sockets carried a token,
that is, which connections the server knows the user of. `SendsToken` is whether
the server's answer to a registration has the field the client reads
(`ext/economyClient.ts:33`); this repository's server sends another, so
`MCWsClient.cfg` sets it to FALSE, and each registration sets the token to
undefined. Of the `ws` library it
is assumed that a socket opens at most once and closes once.

### AgentActivity

One agent, followed from its transcript. `Arrive` is the head of `readNewLines`
(new lines cancel both timers), `Record` the cases of `processTranscriptLine`
and `processProgressRecord`, `Finish` the end of the batch; timers fire only
between batches, as the code is synchronous. `later` holds the messages that a
`setTimeout` will post (`agentToolDone`, `subagentToolDone`, `subagentClear`);
their delays differ, so they come in any order. A message is handled by the
webview as of the moment it is posted: messages are delivered in order and
nothing flows back. `shown`, `shownSubs` and `status` are the React state of
`useExtensionMessages.ts`, `helpers` the sub-agent characters of the office,
`bubble` and `helperBubbles` their speech bubbles.

`Reassign` is /clear. `Reload` is the second `webviewReady` of a panel that was
hidden: an agent that has a terminal gets a new `AgentState`, which starts at
the end of the file (`Skip`: what was written but not read is lost), while a
discovered agent keeps its state, and tools and status are sent again. A record
holds one block; one with several equals several records. About the transcript
it is assumed that a tool has one use and at most one result, after it, that a
sub-agent's records are written while its parent runs, and that a new
transcript begins with what the user said.

### AgentTracker

The extension's state `ext` holds the agents with their file, offset and
timers, the known files, the active agent and the stored list; the world holds
the terminals, the focus, the session each terminal runs and the lines of each
file. `Launch`, `Focus` and `Close` are the user's and VS Code's events,
`ReadNewLines` the one function all three readers of a file call,
`ScanForNewJsonlFiles` the periodic scan, which reassigns the active agent
(/clear) or adopts the focused terminal; `Ready` is `webviewReady` (restore,
discovery, start of the scan), `ReloadWindow` the end and restart of the host:
`dispose` removes the agents one by one, by age, and stores the list after each
removal, so the list found by the next host is that of the youngest agents from
any one on, all of them (a crash) or none. `Say`, `StartSession` and `Elsewhere` are what Claude sessions write.
`astray` is history: the terminals for which the scan or the restoring had to
guess and may have guessed wrong.

### LayoutSync

Every file access is an action: `Truncate`, `Write` and `Rename` are the steps
of `writeLayoutToFile`, during which the extension of that window does nothing
else (`job`) while other windows go on. `Ready` is `migrateAndLoadLayout`, with
the migration from the workspace state and the newer bundled default; `Watch`
is the start of the watcher, after the layout has been sent; `checkForChange`
is what watching and polling call. `Edit`, `Save`, `SaveFires` and
`ImportLayout` are the panel's; `LayoutLoaded` is its handler. `Fail` is a write
that throws, `Crash` a window that ends at any step. `clash` records that two
windows wrote at once, `behind` the windows for which a change was skipped or a
write failed. In `checkForChange` the stat of the file and its reading are one
step: a write between the two would leave the window an older time than that of
what it read, so that the next poll reads and delivers the same layout again.

### OfficeGrid and Office

`OfficeGrid` is the pure part: footprints, seats with their facing,
walkability, and `findPath` as a breadth-first search by levels. `PathsAreShortest`
compares it with a reference definition on offices of three by three tiles.

`Office` has one action per message (`AgentCreated`, `ExistingAgents`,
`AgentClosed`, `SubtaskStart`, `SubagentClear`, `ToolsClear`, `SetActive`,
`FirstLayout`), per click (`SelectCharacter`, `ClickTile`), `EditLayout`, and
`Frame`, which is `update(dt)`: the games, then every character in the order of
the map, then the vanished ones. Time is counted in frames. `haunted` (seats
given to a vanishing character by a new layout), `stale` (paths found in an
older layout) and `ghosts` (agents added though they had been closed while
buffered) are history variables: they name the three things the code gets
wrong, so that the properties can say what else holds. Each `webviewReady` sends
`existingAgents` twice in a row, and the panel skips those it has, so
`ExistingAgents` happens once; a panel built anew starts from `Init`.

### OfficeLayouts, FurnitureCatalog, Timeline and LayoutEditor

`OfficeLayouts` has the functions of `editorActions.ts`. They return the very
layout they got when nothing is to be done; here the result is a set, empty
then. `FurnitureCatalog` builds the catalog from manifests as the loader and
`buildDynamicCatalog` do; the editor's run takes its catalog from there
(`Builds`). `LayoutEditor` has one action per tool, key, button, mouse event and
timer.

`Timeline` is what undo and redo promise for any document. Its last change may be
left `open`, and can then be adjusted until anything else moves the present: the
first step of a colour is remembered, and the ones that follow replace it. What
the editor believes to be open is `ColorOpen` (an item's colour session, or the
walls'). The history variable `fresh` says that nothing moved the layout since
the last remembered change, and the refinement maps `open` to both together.
`ImplementsTimeline` says that every event of the editor is a move on that line,
an adjustment by colours only, a replacement, a reset, or a margin grown, with
one exception, named `OvertakenStep`: undo, redo, reset and an arriving layout do
not end a colour session, and its next colour is then applied with nothing
remembered and the redo stack kept. `LineIsWhole` is the same without the
exception, and does not hold.

### ShopPanel

The windows of one user. `panel` is the state of `useShopState` with the
dialogs of `ShopModal`; `up` and `down` are what is on its way on the
connection; `handling` is the handler that a connection's read pump runs, which
may be between the commit and the messages that tell it; `broadcasts` is the
hub's channel. `HandlePurchase` is the transaction (atomic: see `Economy`),
`TellBuyer` the result, `SendInventory` the inventory after it and `TellRoom` the
balance for the room.

The view is registered without `retainContextWhenHidden`, so `HidePanel` destroys
the panel's state, and messages that come while it is hidden reach nobody;
`ShowPanel` starts it anew. A client's channel holds `SendBuffer` messages: an
`Answer` that finds it full is dropped while the connection lives (`hub.go:166`),
and a window that the hub finds full is cut off (`HubSends`, `Ended`), which also
leaves a handler at work with nobody to answer. `Drop` loses what is on its way.

History: `lost` (a request or an answer of the window was lost), `bare` (its
panel is new and was not opened since), `missed` (it did not hear of the balance
last told, or forgot it), `told` (that balance), `left` (balance after the last
sale), `raced` (a sale was committed while another was yet to be told) and
`bought`. One narrowing: the requests of a window's next connection wait until
the handler of the old one is done, which in the code may still run.

## Runs

| Run | Instance | Shows |
|---|---|---|
| `economy` | 2 sessions, 2 users, 1 requestId, 1 product with 3 units and limit 2, quantities 1 and 2, columns of 3 coins | `NoOverdraft`, `LedgerExplainsBalance`, `CreditedOnce`, `LimitsKept`; `ImplementsWallet`: the transactions implement the atomic wallet; `HandlersFinish`: the row locks never deadlock nor starve |
| `legacy_shop` | 2 sessions, 1 user, prices 0 to 2, limit 1 | `EveryItemPaid`, `OvershootBounded` |
| `hub` | 2 windows of a user, one publishes 2 events and the other follows, client buffer 1, hub channel 1 | `RoomsAreOpen`, `NothingSkipped`, `PumpsEnd` |
| `reporter` | 3 reports, queue of 2, 2 connections per life of the host | `ReportsKept`: nothing vanishes unexplained, nothing is in two places; `ReportsSettle` |
| `ws_client` | 2 sockets, 5 doublings, 2 registrations awaited, the server of this repository | `OneConnection`, `StateIsTrue`, `NeverStranded`, `Reconnects` |
| `agent_activity` | 2 tools that spawn sub-agents, 1 that may need a permission; a sub-agent's tool that may, one that is exempt | `ToolsAgree`, `HelpersAgree`, `WaitingAgrees`, `BubblesAgree`, `NoOrphans`, `SilenceIsWaiting` |
| `agent_tracker` | 2 terminals, 3 files of 2 lines, 2 starts of the panel, 1 reload | `NoLineTwice`, `ListIsTrue`, `FollowsItsSession` |
| `layout_sync` | 2 windows, 3 layouts, 2 edits, 1 fault, 2 openings | `FileIsWhole`, `NobodyMissesChanges` |
| `office_seats` | 2 agents, up to 2 sub-agents, 2 chairs, 2 changes of layout, 2 clicks | `SeatsAgree`, `HelpersTracked`, `AgentsShown` |
| `office_walks` | 2 agents who wander, play, work and rest in 3 by 2 tiles, while a desk appears | `GamesHaveTwoSides`, `NobodyWalksThroughWalls`, `WorkersType` |
| `editor` | five scopes of tools, rooms and changes (below), 5 furniture types, stacks of 2 | `NothingUnsaved`, `OnlySurfacesOverlap`, `ImplementsTimeline`; the assumptions check the catalog and the layout functions on larger inputs |
| `shop_panel` | 2 windows, one product of 1 coin, buffers of 1, 2 openings, 2 confirmed purchases, 1 fault or hiding | `CoinsShown`, `OwnPurchasesShown`, `WaitsEnd` |

`PumpsEnd` excepts two ends that the code has, a panic and a hub that waits for
itself (`HubStuck`); see below. The type
invariants of the modules about which there are proofs (`TypeOK`, in
`OfficeProofs` `FloorOK`) are proved, not run.

### Bounds, and why they are enough

- Economy: a race, or a cycle of waiting, needs two sessions on the same rows;
  for more sessions there are the theorems. Two users tell apart a debit from a
  bystander. The stock of 3 is more than one user may own and less than two
  may, so both limits bite. `CoinMax = 3` bounds the ledgers, as INTEGER does,
  and makes the overflow happen.
- Legacy shop: the overshoot appears with two sessions and limit 1; `CoinMax`
  bounds what a user earns and so the purchases.
- Hub: all races are inside a room, so one user suffices; capacity 1
  instead of 256 and 1024 makes the full buffer happen within few events, and
  the hub wait for itself. `MaxEvents` bounds what each window publishes: one
  publishes and the other follows, and two events, next to the messages of
  presence, are one for the buffer and one too many.
- Reporter: a queue of 2 overflows with 3 reports, also while one of them is in a
  batch in flight. Two connections make `start()` be called twice. `SendsToken` is
  TRUE here, for with this repository's server nothing would ever be posted; the
  theorems hold for both.
- WebSocket client: it may have one socket; two names let a second appear.
  `MaxBackoff = 5` is 1 s doubled up to the 30 s cap. At most `MaxAwaiting`
  registrations wait, as HTTP requests end much faster than reconnections.
- Agent activity: each kind of tool once, two parents so that one may end while
  the other's sub-agent works; a tool is used once, so behaviours are finite up
  to prompts, /clear and reloads. The theorems cover every other instance.

- Agent tracking: a wrong guess needs two terminals; three files let both have
  a session and one go on after /clear. Two lines distinguish what was read,
  skipped and left. `MaxReadies` and `MaxReloads` bound the restarts: a second
  start of the panel restores again over living agents.
- Layout: two windows, as the file is all they share; two edits so that one can
  overtake the other's; a fault is a failed write or a crash. The file starts
  absent or of an older revision.
- Office: more characters than seats, one seat that a change of layout removes;
  for the walks, a desk put on the tile between two agents. Effects last one
  frame, a step two, a phase of a game one or two: the order of events matters,
  not their length.
- Editor: `MCSpec` runs five scopes side by side, each a first layout, a set of
  tools and a bound of the changes, because all tools with three changes are too
  many states. All tools with one change, in a room of one tile that may grow;
  painting and erasing with two changes there; placing and picking with two;
  moving, turning and placing in a room of two tiles with two desks and a computer;
  and colours of a poster and of the wall behind it, with deleting and painting,
  for three changes. There the stacks of two drop one layout of three, so that
  oldest and newest differ, and two steps can be undone. The rules of placing and
  growing are also checked on rooms of two by two with every pattern of walls and
  void, and the catalog on every manifest of at most three members.
- Shop: two windows to race two sales, which `Funds` = 2 pay. A buffer of one
  instead of 256 is filled by one answer, so that the next is dropped or the hub
  cuts the window off. `MaxFaults` counts lost connections, failed reads and
  hidden panels together.

### Fairness

- `Economy`: a goroutine goes on by itself (WF), and PostgreSQL queues the
  waiters of a row, so a lock that is free again and again is granted (SF).
- `Hub`: the hub's loop, a started handler and the write pump go on (WF);
  handlers have a context of 5 s and writes a deadline of 10 s. Nobody has to
  connect, read, send or leave.
- `TokenReporter`: the interval timer ticks, and what is awaited is answered or
  fails, and VS Code writes the state it was given (WF). Nothing forces a report, a connection, or a success.
- `WsClient`: awaited secrets come, timers fire, a handshake ends (WF); and a
  handshake tried again and again succeeds one day (SF): the server is not down
  for ever. Without this last one nothing could promise a reconnection.
- `AgentActivity`: timers that are set fire, late messages are posted, a batch
  ends (WF). No record has to come.

- `Office`: frames go on (WF of `Frame`, stated through `tick`, which only frames
  flip): the animation loop runs while the panel is open. No message has to come.
- `ShopPanel`: the read pump and its handlers, the hub and the extension's event
  loop go on (WF). Nobody has to click, and a lost connection need not return.

Deadlock checking is off where the modelled system really stops: `Hub` and
`WsClient` (every connection closed, the process crashed, disposal), and where
the bounds end what users do (`AgentTracker`, `LayoutSync`, `LayoutEditor`,
`ShopPanel`).

## Proofs

TLAPS proves, for every value of the constants that meets the named assumptions:

- `EconomyProofs`: `TypeCorrect`, `NeverOverdrawn`, `LedgerAudits`,
  `ReportsPayOnce`, `PurchaseLimits` (`LimitsKept`: `NeverOversold` and
  `WithinLimit`), and `Refinement` (Economy implements Wallet). The invariants are not inductive by themselves: what makes them true
  is that a session holds the lock of each row it has read, and that what it
  checked under the lock still holds. `SessionOK` says so statement by
  statement, `KeysDistinct` that an uncommitted requestId has one owner. `IInv`
  is their conjunction with the properties. Each statement of a handler has its
  lemma; all but the commit change one session only (`LocalStep`). For the
  refinement, only `Commit` changes the tables, and under `IInv` its balance is
  the current one, so it is the wallet's `Apply`.
- `HubProofs`: `HubTypes` (no channel exceeds its capacity),
  `HubSendsSafely` (`RoomsAreOpen`: the hub itself never sends on a closed
  channel nor closes one twice), `HubLosesNothing` (`NothingSkipped`: what was
  published since a member of a room entered it has been received, is in its
  buffer or in the hub's channel) and `HubLeavesNoGaps` (the action property
  `NoGaps`). For the first two, the strengthening `HInv` adds that a client
  registers at most once, and that a client not yet registered is in no room
  and not closed (`RegisteredOnce`), and that clients are in their own user's
  room (`OwnRoom`). For the other two, `FollowInv` treats the events of a client as
  sets of numbers: those in the hub's channel are the newest, in order; and what
  a window has received and what its buffer holds are, together, all numbers up
  to where the hub's channel goes on.
- `WsClientProofs`, the connection: `ClientTypes`, `ClientConnectsOnce`, `ClientTellsTruth`
  and `ClientNeverStranded`, for both values of `SendsToken`.
  The strengthening `CInv` adds that before `connect()`
  is over there is neither socket nor timer, that a socket that is opening or
  open is `this.ws`, and that only a disposal closes intentionally.
- `WsClientProofs`, the shop: `CoinsShownHolds` and `OwnPurchasesShownHolds`.
  Both properties speak of quiet states, so the invariant `ShopInv` must say of
  every other state where the news still is. `WillShow`: a window that lost
  nothing shows what it bought, or an inventory read late enough is the last one
  on its way, or what will make it ask for one is. `WillCount`: the balance told
  last is last on the way to a window that missed none, or shown there, whichever
  sales overlapped. `ToldInv` and `OneSale`: while no sales have overlapped, only
  one handler could tell others, and what is told last, or will be, is what the
  last sale left.
- `AgentProofs`, activity: all six invariants of `AgentActivity`. They hold
  together or not at all; what must be added is `LateIsOver` (a late message is
  about a tool that is over, and an active tool is not) and `TurnFlags` (active
  tools imply `hadToolsInTurn`, and no permission is believed awaited while a
  batch is read).
- `AgentProofs`, reporter: `ReporterTypesHold` and `ReportsAreKept` (`ReportsKept`).
  The invariant says of each pair of places (pending, queue, every batch and
  every drain under way) that they are disjoint (`Apart`), and of each report
  made that it is in one of them, credited or explained (`Kept`). What was
  written of the queue needs no more than having been one (`Durable`).
- `AgentProofs`, tracking: `NoLineTwiceHolds`, `ListIsTrueHolds` and
  `FollowsItsSessionHolds`, from `TrackerInv`. `WellKept` says of the extension
  that no two agents follow one file, that nobody's offset is behind what was
  processed of its file, that ids grow, and that the stored list is the agents'
  or, before the panel has restored them, theirs to come. `AtHome` says that
  agents have the names of their terminals and that the active agent is that of
  the focus, but for terminals of one name after a restart, which is what makes
  the guess of the scan right. What each operation promises is a lemma
  (`ensureProjectScan`, `persistAgents`, restoring, the scan), and each step of
  the world one more.
- `LegacyShopProofs`: `ShopTypes`, `NothingIsFree` (`EveryItemPaid`) and
  `OvershootStaysBounded` (`OvershootBounded`). A user's units are compared with
  the debits before them, so the invariant counts the requests between two
  statements too: units and requests about to deliver are at most the debits
  (`IInv`); units together with the requests that passed the check are at most
  the limit and one for every other session (`Overshoot`). The second assumes
  `~ReadsMayFail`; without it the bound is false (see below).
- `LayoutProofs`, the file: `LayoutTypes`, `LayoutIsWhole` (`FileIsWhole`) and
  `WindowsShowTheFile` (`NobodyMissesChanges`). `LInv` is the conjunction of the
  types; `DiskOK`: without a clash one window writes, the temporary file is its
  own and newer than the layout file; `WatcherRuns`; and `AllInStep`: a window
  that is not in `behind` is at a known stage on its way to the file's layout.
- `LayoutProofs`, the editor: `NothingUnsavedHolds`, `OnlySurfacesOverlapHolds`
  and `EditorImplementsTimeline`. That nothing overlaps in the layout shown is
  not inductive: undo and reset bring back older ones. `EditorInv` says that
  every layout in play (shown, saved last, on a stack) is `Sound`: besides the
  rule of overlaps, its items have distinct uids, none of those still to be
  made, and only items of walls reach above the map, without which growing
  upwards could push two items into each other. Placing, moving, turning,
  switching, recolouring, deleting and growing each have a lemma that they keep
  that. `EditorImplementsTimeline` states the refinement with its exception
  (`OvertakenStep`). Every action is then shown to be of one of nine kinds (`Kind`), and the
  three theorems follow by kinds. That growing the room is a stutter of
  `Timeline`, or part of the change made by the same stroke, rests on the lemma
  that trimming a layout's empty margins forgets what was grown.
- `OfficeProofs`: `HelpersAreTracked` (`HelpersTracked`), `ListedAreShown`
  (`AgentsShown`), `SeatsStayAgreed` (`SeatsAgree`), `GamesStayTwoSided`
  (`GamesHaveTwoSides`) and `NobodyEverWalksThroughWalls` (the action property
  `NobodyWalksThroughWalls`), in layers, each inductive once the first is
  known. `IInv`: every character is in the order of the map once, its id was
  announced or counted, and the two maps of sub-agents are inverse to each other
  with keys of listed parents. Then the seats: to `SeatsAgree` is added only that
  no seat is `None`. Then the games (`GInv`): to `GamesHaveTwoSides` is added that
  games are played by those without an effect once a layout is shown, and that
  an opponent is never an id that is still to come (`Used`), so nobody who
  appears is taken for the opponent of someone who vanished. Then the walks
  (`Roads`): what blocks the layout stays blocked, everyone stands on a
  tile, and everyone whose path is not from an older layout follows one of
  neighbouring tiles, free but for the own seat. That needs what `findPath`
  returns (`FindPathFacts`): the lists of its search are trails of free
  neighbouring tiles, by induction over the levels of the search. Each action is
  then one where everybody stays, walks on by a tile at most, or is moved by a
  new layout (`Stayed`, `Went`, `Reshaped`). What the recursive functions of the
  module return (`AddOne`, `rebuildFromLayout`, `Steps`, `findPath`) is
  proved by taking the set of the numbers for which a claim holds, and the least
  number outside of it.
- `ListProofs`: that least number, the existence of a function defined by
  recursion up to a number, and what `Among` keeps of a list.

Assumptions are those declared as ASSUME in the modules; TLC evaluates them in
the runs. They are the types of the constants, `None` and `Unlimited` distinct
from values, and:

- `LegacyShop`: finitely many sessions (they are counted).
- `LayoutSync` (`LayoutAssumption`): a truncated or mixed file is no layout.
- `LayoutEditor`: the layouts that the editor loads are sound, that is, they were
  made by such an editor (`LayoutsAssumption`; the code does not examine them, so
  a file written by hand may break the rules at once); what was turned or
  switched in them before is named, by `TurnedBefore`. Furniture has a size
  (`CatalogAssumption`), uids of the editor's are numbers and `None` is not one.
- `Office`: ids of agents are positive and finitely many (the extension counts
  them from 1, the webview's sub-agents from -1); edits lead to layouts that are
  named, and shift by whole tiles; a layout has whole
  numbers of columns and rows, and its seats are on whole tiles (`LayoutsAreGrids`); the seats of a layout have distinct
  ids, as keys of a Map do (`SeatsAreAMap`).

Model-checked only, and why:

- Liveness (`HandlersFinish`, `PumpsEnd`, `ReportsSettle`, `Reconnects`,
  `SilenceIsWaiting`, `WorkersType`, `WaitsEnd`): fairness and ENABLED are outside
  the prover's reach.
- That no shorter path exists than the one `findPath` returns
  (`PathsAreShortest`), and the larger inputs on which the editor's functions are
  compared with what they promise (`Grows`, `Places`, `Migrates`): these are
  evaluated as assumptions of `MCOffice` and `MCLayoutEditor`.
- `FurnitureCatalog` has a recursive operator, so nothing can be proved about
  it or in a module that uses it.

## What the code does not keep

These formulas say what a document or a comment says, or what one would expect,
and the code does not keep. They are defined in the modules and no run lists
them; TLC finds each of them violated when it is named, alone, in the
configuration given here.

| Formula | In | What happens |
|---|---|---|
| `LimitRespected` (invariant) | `MCLegacyShop.cfg` | two simultaneous purchases pass "Check max_per_user limit" together (`go/economy/shop.go:45`) |
| `PaidIsOwned` (invariant) | `MCLegacyShop.cfg` | a legacy purchase can take the coins and deliver nothing (`go/economy/shop.go:66`) |
| `OvershootBounded` (invariant) | `MCLegacyShop.cfg` with `ReadsMayFail = TRUE` | a quantity that cannot be read counts as none, so the limit is passed again and again (`go/economy/shop.go:48`) |
| `NoPanic` (invariant) | `MCHub.cfg` | a client cut off as slow whose handler, or first snapshot, then answers makes the server panic (`go/ws/hub.go:140`) |
| `HubNeverStuck` (invariant) | `MCHub.cfg` | the hub announces presence into its own full channel and waits for itself (`go/ws/hub.go:157`); with the real capacity of 1024 it takes that many messages at once |
| `RoomsAreActive` (invariant) | `MCHub.cfg` | a connection that ends at once may be unregistered before it is registered, and stays in its room (`go/ws/hub.go:202`) |
| `EveryoneIsListed` (invariant) | `MCHub.cfg` | closing one of two windows removes the user from the occupants (`go/rooms/manager.go:68`) |
| `UsageIsCredited` (property) | `MCTokenReporter.cfg` with `SendsToken = FALSE`, `Outcomes = {"refused"}` and `StoreMayFail = FALSE` | this server answers `token` where the client reads `sessionToken` (`ext/economyClient.ts:33`), and expects one report where the client posts a list, so no usage is credited, in spite of docs/architecture/economy-backend.md:451 |
| `DrainedOnReconnect` (property) | `MCTokenReporter.cfg` | the offline queue is drained once per window, not at each reconnection (`ext/tokenReporter.ts:32`) |
| `StopPersists` (invariant) | `MCTokenReporter.cfg` | a drain overtaken by `stop()` leaves its reports in memory only (`ext/tokenReporter.ts:131`) |
| `StaysDisconnected` (invariant) | `MCWsClient.cfg` | `dispose()` during the await of `connect()` is undone (`ext/wsClient.ts:60`) |
| `StaysKnown` (property) | `MCWsClient.cfg` | this server answers `token` where the client reads `sessionToken`, so each registration sets the token to undefined (`ext/wsClient.ts:103`): a client known from its stored secret reconnects unknown |
| `ConnectedAsUser` (invariant) | `MCWsClient.cfg` with `SendsToken = TRUE` | even with a server that sends the field, a new user's first connection stays anonymous after the registration (`ext/wsClient.ts:101`) |
| `StuckIsFlagged` (invariant) | `MCAgentActivity.cfg` | any line read cancels the permission timer, and few records start it again: a sub-agent stuck on a permission is then not flagged, in spite of `ext/transcriptParser.ts:362` |
| `UnsavedEditsStay` (property) | `MCLayoutSync.cfg` | the handler of layoutLoaded keeps the `isEditDirty` of the first render (`web/hooks/useExtensionMessages.ts:408`), so another window's layout replaces unsaved edits, in spite of the comment in line 111 |
| `LineIsWhole` (property) | `MCLayoutEditor.cfg` | a colour that goes on being chosen after an undo, a redo, a reset or another window's layout changes the layout with nothing to undo, and keeps a redo stack that no longer follows from it (`web/hooks/useEditorActions.ts:227`) |
| `NewestShown` (invariant) | `MCShopPanel.cfg` | a panel that was hidden shows 0 coins again until the next sale (`web/shop/useShopState.ts:48`); with `MaxFaults = 0`, of two sales that overlap the older balance may be told last and stays shown (`go/ws/client.go:304`) |
| `NeverAskedTwice` (invariant) | `MCShopPanel.cfg` with `Windows = {w1}`, `Products = {desk, "lamp"}` and `MaxOpens = 4` | a purchase dialog left open by a click beside it lets Confirm ask for the same product again (`web/shop/components/ShopModal.tsx:232`) |

Other things met while modelling, which the models show as they are:

- Office: a new layout may give a seat to a vanishing character, which nobody
  frees until the next change (`haunted`); it moves characters but leaves their
  paths, which may then lead through furniture (`stale`); an agent closed while it
  was buffered appears with the first layout (`ghosts`).
- Editor: a stroke may grow
  the room without painting; a layout that arrives does not cancel the pending
  save of the one it replaces; turning and switching do not ask whether the item
  fits; items of walls overlap above the map.
- Catalog: an item that is on and turns to a side without that state is off from
  then on; a rotation group without a front disappears from the palette; a side
  whose picture cannot be read makes the turned item invisible.
- Layout file: the mark of an own write may hide another window's; a file that
  cannot be parsed is not read again until it changes; the windows share the name
  of the temporary file.
- Tracking: an orderly end of the host stores ever shorter lists, an empty one at
  last; a second
  `webviewReady` restores agents over the living ones; agents of terminals with
  one name are all restored to the first; after a reload no agent is active until
  the focus changes, so /clear is then taken for a new terminal.
- Shop: the panel's coins are zero until the first sale, so the first product
  must be free or put in the cart after a sale elsewhere; a click in the dialog closes the shop; the first success empties a
  cart with several products; an error stays shown; nothing is asked again after a
  reconnection.

## Not modelled, and why

- Rendering, the Angular forms, deployment: no protocol state. Of the assets,
  only the furniture manifests: the rest is decoding of pixels.
- Authentication, routes, read-only queries: stateless. The rate limiter is
  sequential under one mutex.
- `go/shop/placement.go`: nothing in the repository asks the server for
  placements; the panel's "place in office" posts a message that the extension
  does not handle.
- `ext/agentBroadcaster.ts`: nothing calls it.
- Two windows sharing one globalState: how VS Code propagates it between
  processes is outside the repository.
- The shop's inventory view and filters; the editor's wall sets and zoom; the
  appearance of characters; contents of snapshots and messages.
- In the shop: coins earned meanwhile (the server tells them as
  `economy:coinsUpdate`, the extension waits for `coins_update`).

## Next

1. `TokensToCoins` against a reference definition; placements, once a client asks
   for them.
2. The windows of one user together: `WsClient` under `ShopPanel`, instead of the
   connections that come and go there.
