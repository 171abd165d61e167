# attacker-service: TLA+ models, model checking and proofs

## 1. The system and its components

`attacker-service` is a JSON-RPC service that modified Prysm validator clients
call at fixed hooks (before/after making, signing, proposing and broadcasting a
block or an attestation). It answers each hook with a command (`CMD_NULL`: go
on, `CMD_RETURN`: stop here, ...) and, for some hooks, with modified data.

| component | source | state | operations | hard behaviour |
|---|---|---|---|---|
| block hooks | `server/apis/block.go` | `blockCacheContent` LRU | 10 hooks, `modifyBlock`, `UpdateStrategy` | hooks of one slot are separate RPCs; each re-reads duties and the head from the beacon node, which may fail or move in between |
| attestation hooks | `server/apis/attest.go` | - | `AfterSign`, `BeforePropose`, ... | runs concurrently with `modifyBlock` |
| validator/attestation store | `validatorSet/validatorSet.go` | `ValidatorByIndex`, `ValidatorByPubkey`, `AttestSet`, `BlockSet`, `lock` | add / get | the map of one slot escapes the lock |
| role strategy | `strategy/strategy.go` | `Validators`, `Block`, `Attest` | `GetValidatorRole`, `ParseStrategy` | role windows that start or end inside an epoch |
| backend / duty monitor | `server/server.go` | `strategy`, `validatorSetInfo` | `monitorDuties`, backend getters | goroutine without recover |
| beacon gateway client | `beaconapi/beaconclient.go` | `config` cache map | `GetIntConfig`, duties, headers | cache filled without a lock by several goroutines; failures turned into empty maps |
| attestation lists | `types/atts.go` | - | `Dedup`, `SortByProfitability`, `LimitToMaxAttestations` | in-place removal while iterating; errors inside a loop drop everything |
| reward collector (not modelled) | `reward/reward.go` | output file, `.bak` file | `GetRewards` | crash / error between writing and renaming |
| RPC client | `rpc/client.go` | channels, `writeConn`, `idCounter` | call, batch, notify, subscribe, close, `dispatch`, `read` | rendezvous channels between callers, dispatch and reader; reconnect; close |
| RPC handler | `rpc/handler.go` | `respWait`, `clientSubs`, `serverSubs`, `callWG` | `handleMsg`, `handleBatch`, `close`, ... | timeout goroutine races the worker |
| server subscriptions | `rpc/subscription.go` (`Notifier`) | `buffer`, `activated`, `sub` | `Notify`, `activate`, `unsubscribe` | notifications produced before the reply is written |
| client subscriptions | `rpc/subscription.go` (`ClientSubscription`) | `in`, `quit`, `err`, buffer | `deliver`, `forward`, `Unsubscribe`, `close` | everyone waiting on everyone |
| RPC server | `rpc/server.go` | `codecs`, `run` | `ServeCodec`, `serveSingleRequest`, `Stop` | stop races connection set-up |
| HTTP stack | `server/rpcstack.go` | `httpHandler`, `wsHandler`, `listener` | enable/disable/start/stop, vhost, gzip | lifecycle order |
| WebSocket codec | `rpc/websocket.go` | ping timer, pong channel | `pingLoop`, `writeJSON`, `close` | one timer channel, drained and reset by a loop that two goroutines feed |
| service registry (not modelled) | `rpc/service.go` | `services` | `registerName`, `callback`, `call` | panics turned into errors |
| JSON codec | `rpc/json.go` | `closeCh`, `encMu` | `readBatch`, `writeJSON`, message classification | - |
| attackclient, config, cmd, gRPC client, metrics, versions | | | thin wrappers, start-up | not modelled |

The parts meet in three places. Every request of a validator client comes in
through the HTTP stack, the RPC server and the handler, in a goroutine of its
own, and reaches a hook; hooks therefore run concurrently with each other and
with `monitorDuties`. The block and attestation hooks share the
validator/attestation store. And every hook looks the world up again (duties,
head, role), so that two hooks of one proposal may see different answers.

What makes each part correct:

- hooks: of the attackers of an epoch only the last one proposes, its block is
  held back into the next epoch, and normal proposers are left alone, whatever
  lookups fail;
- store: writes exclude each other; what a block collects is exactly what the
  attackers signed in its epoch; nothing stored was also broadcast;
- handler: one response per request, in order, complete, not after the
  connection was given back, and in time if there is a timeout;
- client: one writer at a time across reconnects, no double close of a channel,
  no forgotten request, no call and no `Close` that waits for ever;
- subscriptions: notifications in order without gaps, the id first, silence
  after `Unsubscribe`, every subscription ended when its connection is;
- attestation list of a block: no vote is lost by deduplication and no
  redundant attestation is left;
- configuration cache: nobody divides by a missing `SLOTS_PER_EPOCH`;
- WebSocket: a peer that answers is kept, a dead one is noticed, close ends all
  goroutines;
- HTTP stack: a request is served only by a running server and under that
  server's configuration; nothing outlives a stopped server.

`PROJECT.json` lists the hazards line by line, with the properties that cover
each.

## 2. Modules

| module | models | run by | proofs |
|---|---|---|---|
| `Roles` | slot arithmetic, `GetValidatorRole` | through its users | in `AttestStoreProofs`, `BlockHooksProofs` |
| `AttestStore` | the store, `monitorDuties`, `attest_*` hooks, the collection loop of `modifyBlock` | `MCAttestStore` | `AttestStoreProofs` |
| `ProposerAtts` | `Dedup`, `SortByProfitability`, `LimitToMaxAttestations` and their use in `modifyBlock` | `MCProposerAtts` | `ProposerAttsProofs` |
| `BlockHooks` | the hooks of one block proposal | `MCBlockHooks` | `BlockHooksProofs` |
| `BeaconCache` | the configuration cache of `BeaconGwClient` and those who divide by what is in it | itself | `BeaconCacheProofs` |
| `SingleCall` | `handleMsg`, `handleNonBatchCall`, `close` | in `Handler` | `HandlerProofs` |
| `BatchCall` | `handleBatch`, `batchCallBuffer` | in `Handler`, `MCBatchCall` | `HandlerProofs` |
| `Handler` | composes `SingleCall` and `BatchCall` | `MCHandler` | `HandlerProofs` |
| `RpcClient` | callers, `dispatch`, reader, `Close` over a persistent connection | itself | `RpcClientProofs` |
| `ServerSub` | `Notifier`, `serverSubs` | in `Subscription` | `SubscriptionProofs` |
| `ClientSub` | `ClientSubscription` | in `Subscription` | `SubscriptionProofs` |
| `Subscription` | composes `ServerSub` and `ClientSub`; implements `Stream` | itself | `SubscriptionProofs` |
| `Stream` | abstract: what a subscription promises | as a property of `Subscription` | `SubscriptionProofs` |
| `WsCodec` | `websocketCodec` with `pingLoop`, on `jsonCodec` | itself | `HttpStackProofs` |
| `HttpStack` | `httpServer` with `rpc.Server` behind it | itself | `HttpStackProofs` |

Operators named `<Action>_<Something>` under a "Mutant" comment are plausible
bugs: used in place of the action they follow, they violate the property that
`PROJECT.json` pairs them with. No specification uses them.

### Roles
Pure operators on slots. The order of the entries of `strategy.json` does not
matter to `GetValidatorRole`, which looks for *some* matching window; hence a
set. `SlotsPerEpoch` is positive (assumed; see section 7).

### AttestStore
`byIndex`, `byPubkey`, `attestSet` are the maps of `ValidatorDataSet`. A public
key is a spelling (with or without "0x") of a key; `padPubkey` maps both to the
stored one. All methods hold `vs.lock` and are single steps guarded by
`~locked`, except the map write of `AddSignedAttestation`, which takes two
(`AddBegin`, `AddEnd`), because the map of one slot escapes the lock:
`modifyBlock` ranges over it (`RangeNext`, `RangeEnd`) without it. Go's range
may or may not meet keys added meanwhile; the model allows both. A range step
during a write is the outcome `RangeCrash`. `mk[g]` is the local state of a
`block_beforeSign` goroutine; its field `before` is a history variable.

### BlockHooks
The proposal of one arbitrary slot (`Init` chooses it): `BeforeMakeBlock`,
`BeforeSign`, `AfterSign`, `BeforePropose`, then `DelayForReceiveBlock` and
`BeforeBroadCast` with their sleeps, in either order. Each hook's two lookups
(`byDuty`, `listed`) may fail. The clock, the head and the validators known
move in between. `failed` is a history variable. Time is counted in slots.
The code takes the role of a later proposer at the slot of the current one
(`LaterAttacker`), while the role that counts is the one at its own slot.
`BeginsLater` and `EndsEarlier` name the two ways in which they differ, and the
properties `LeakExplained` and `StopExplained` say for *every* strategy who gets
through and who is stopped, and that only failed lookups or such windows are to
blame.

### ProposerAtts
An attestation is `[root, len, bits]`. `Dedup` is modelled statement by
statement (grouping, the two loops, the removal in place), because its indices
are what can be wrong; it runs twice in `modifyBlock`, before and after
aggregation. Aggregation (maximum cover, BLS) is external: any list that carries
the same votes with bits of the same group merged, or an error. The sort is any
permutation ordered as `SortByProfitability` orders. An error of `Dedup` (bitlists
of different lengths, `lost`) makes `modifyBlock` go on with an empty list.

### BeaconCache
`config` is the map `BeaconGwClient` refers to, `keys` what is in each map.
`GetBeaconConfig` is one step per access: the emptiness test, the fetch, which
may fail, the new map, each key copied, and the `return` of whatever map the
field refers to by then. Two fills may overlap, and each writes
through the field, that is, into the map of whoever assigned last. `dead` is
the end of the process: by the runtime, which may notice concurrent map access,
or by the division of `monitorDuties`, which nothing recovers.

### SingleCall
`wpc` and `tpc` are the goroutine and the timer of each message; `once` is the
`sync.Once`, with its waiting: the loser returns only when the winner is done.
`close` waits for the goroutines (`callWG`) and not for the timers.

### BatchCall, Handler
One batch: the worker's loop (`CheckContext`, `NextCall`, `Return`, `Push`), the
size limit, the timer's function (cancel, then `respondWithError`), and the
client going away. Methods of `batchCallBuffer` hold its mutex and are one step.
`Handler` puts the batch on the same connection as single messages, under one
`close`, which waits for all goroutines of both kinds and for no timer. Only
HTTP has a timeout, and an HTTP request holds one message or one batch
(`MayArrive`). An invalid member of a batch counts as a call; they differ only in
the id of the response to a batch that is too large.

### RpcClient
`caller[c]` is where the goroutine of a call is in `send`, `write`,
`reconnect`, `wait`; `disp` where `dispatch` is: in its select ("loop"), inside
`handler.close` ("...Wait") or in `drainRead` ("...Drain"). Unbuffered channels
are joint steps; `reqSent` has room for one value. `free`/`lastOp` are
`reqInitLock` and `lastOp`. Connections are numbered; `wire` holds the requests
a server has got and not answered. Reverse calls are those a served method
makes over the same client, for which `handler.close` waits.

### ServerSub, ClientSub, Subscription, Stream
One subscription. `ServerSub`: the subscribe call up to `activate`, the
publisher, unsubscribe calls and `handler.close`; `n.mu` is held during the flush
(`Locked`). `ClientSub`: dispatch (`deliver`, `close`), the forwarding goroutine
(`forward`, `run`), and users in `Unsubscribe`. `Subscription` joins them: what the
server has written (`conn`) is read by the client in order (`pos`), the
unsubscribe request of the client (`asked`) is what the server serves, either
side may lose the connection (`up`, `cut`), and `Subscribe` itself may time out
while its answer is under way (`caller`).

The unsubscribe request goes through the client's `send` in its phases, as values
of `fwd`: `request` (offered to dispatch), `write`, `sent` (written, dispatch not
told yet), `requested`; after a failed write `dial` and, on a new connection,
`renewed`. What becomes of it is up to `dispatch`: an answer or the end of the
connection completes it, but a read error while it is `sent` finds it as
`lastOp`, which `cancelAllRequests` drops without closing its channel; it is then
`stranded`, and `run` with it. If the write and the dial both fail, `send` returns
an error that `run` ignores (`unsent`). What happens on a new connection is
`RpcClient`'s subject and one step here (`RenewedEnds`), with all its outcomes.

A write of the server may fail on a connection that stays open (`broken`): the
codec keeps the error, and `Notifier` does not close the connection.

`Stream` is what a user may rely on: in order, none twice, none left out, none
after `Unsubscribe` has returned. `Subscription` implements it under the mapping
`delivered <- received`, `over <- UserReturned` (`StreamImplemented`).

### WsCodec
Reader, one writer, `pingLoop` and the closer, in ticks of time. `timer` is a Go
timer with its channel (ticks left, fired, or drained), `reset` the buffer of
`pingReset`. A tick passes only when no goroutine can do anything at once. The
pong handler runs inside the reader. The peer answers a ping within
`ReplyTicks`, until it dies, which it may do at any moment; some writes to a
dead peer still succeed (`MaxBuffered`), as they do with TCP. A ping is a write
too: it holds `encMu`, may take up to `PingWriteTimeout` and may fail
(`LoopPingFails`), which `pingLoop` does not look at.

### HttpStack
The operations of `httpServer` run one at a time (`op`, `pc`); `ServeHTTP` takes
no lock and is a sequence of loads: handler, configuration, the server's `run`
flag. Enabling is two steps, the configuration (`Enable`) and then the handler
(`Install`), since requests may be routed in between. An `rpc.Server` is
`<<kind, number>>`; `config` records with which number
the configuration in force came. A WebSocket's codec is tracked and closed as in
`ServeCodec`/`Stop`.

## 3. Runs

| run | instance | what it shows |
|---|---|---|
| `attest_store` | an epoch of 1 slot and the slot after, 2 attackers, 1 maker | `NoPanic`, `StoredNotBroadcast`, `CollectComplete`, `CollectSound`, `CollectEnds` |
| `attest_no_crash` | the same with a stranger's key | **violated**: iteration during a map write |
| `proposer_atts` | every list of up to 4 attestations over 2 data roots and one that fails to hash, bitlists of 2 lengths, room for 2 | `DedupMinimal`, `NoVoteLost`, `ListBuilt` |
| `block_hooks` | 2 epochs of 3 slots, 3 validators, windows that begin and end inside an epoch | `LeakExplained`, `StopExplained`, `DelayedToNextEpoch`, `StoppedOnlyByStaleHead` |
| `beacon_cache` | a hook and the monitor, 2 keys, 3 maps, 2 failed fetches | `ZeroNeedsFault`, `PoisonNeedsOverlap`, `Repaired` |
| `handler` | one message of any kind or any batch of up to 4, limits of 3 messages and 2 bytes, a timeout | `OneResponse`, `QuietAfterClose`, `BatchAnswer`, `BatchQuiet`, `TimeoutAnswers` |
| `batch_timeout_answers_all` | the batches of `handler` | **violated**: worker overtakes the timer |
| `rpc_client` | 2 calls (one with a deadline), 1 reverse call, 2 connections | `NoPanic`, `NoLeak`, `AnswerAwaited`, `DeadlineReturns`, `CloseReturns` |
| `rpc_client_quit_unblocks` | 1 call, 1 connection | **violated**: a request lost by a read error during its write |
| `subscription` | 2 users, 2 notifications of which the second may not decode, a buffer of 1 | `StreamImplemented`, `NoPanic`, `UnsubscribeReachesServer`, `DispatchFree`, `UnsubscribeReturns`, `ErrReported`, `CloseEndsSubscription`, `Delivered` |
| `http_stack` | 1 request, 1 WebSocket, 2 servers of each kind, 2 starts | `InstalledRuns`, `ServedUnderOwnConfig`, `NoOrphan`, `OperationReturns` |
| `ws_codec` | pings every 4 ticks, pongs due within 4, writes of at most 2, pings of at most 1, answers within 2, a reader busy for 1 | `AnsweringPeerKept`, `DeadPeerDropped`, `CloseEnds` |

The bounds are the smallest at which every hazard occurs: two attackers are
enough for a race between writers; two connections for a reconnect in the
middle of a write; a buffer of one and two notifications for an overflow, and
for one sent before the id and one after; two servers of a kind for a handler
that is exchanged while a request holds the old one; an epoch of three slots for
an attacker before, at and after the last one; a batch one longer than its
limit; four attestations for a removal in place followed by two more
comparisons; three maps so that two overlapping fills and a reader each hold
another one. The largest runs are `subscription` (406 000 states, about three
minutes with two workers, nearly all of it for its five liveness properties),
`beacon_cache` (339 000), `rpc_client` (317 000), `block_hooks` (314 000) and
`http_stack` (298 000); no other takes more than about a minute. Every action
fires in some run.
`CHECK_DEADLOCK FALSE`: calls, connections, batches and lists are finite in
number, and the systems really stop when all are done; being stuck earlier is
what the liveness properties exclude.

### Fairness
- A started goroutine is scheduled and a timer fires: weak fairness of their
  steps (`Handler`, `BatchCall`, `RpcClient`, `BeaconCache` with the monitor's
  ticker, `ProposerAtts`, and `HttpStack`, where the shutdown timeout is a timer
  too). In `Subscription` one weak fairness condition on the goroutines of both
  sides is enough: there are finitely many steps, so that none is passed over
  for ever.
- `sync.RWMutex` starves neither readers nor writers, and a select over several
  ready channels chooses at random: strong fairness of the steps that take the
  store's lock (`AttestStore`) and of the cases of `pingLoop`'s select, of a
  read that fails at its deadline, and of time (`WsCodec`).
- No fairness for what the repository does not control: methods of services in
  `Handler` may never return, servers may never answer in `RpcClient`, users may
  never receive in `Subscription` (`Delivered` is stated for those that do),
  requests may never end in `HttpStack`. `Subscription` does assume that the
  subscribe method returns, that the server serves an unsubscribe request that
  reaches it, that a request on a renewed connection ends (or is stranded there),
  and that a connection whose writes fail is dropped in the end (`Drop`). The last
  is so for a WebSocket: its pings fail as well, no pong comes, and the read
  deadline passes. The IPC transport has no pings; there a connection that can be
  read and not written to stays, and an unsubscribe request waits for its answer.
  That a request is completed when its connection ends is not assumed: it is part
  of the model, with the exception of the stranded one.
- Contexts with a deadline expire; dials have a timeout and end.

## 4. What is proved

Each `*Proofs` module proves, for every value of the constants, the type
invariant and the safety invariants of its component: `Init => IInv`,
`IInv /\ [Next]_vars => IInv'`, one step per action, and the properties from
`IInv`. The assumptions are those named in the component's module.

- `AttestStoreProofs` (`TypeCorrect`, `Exclusion`, `PanicFree`,
  `StoredStaysPrivate`, `CollectionComplete`, `CollectionSound`).
  `NoPanic` is not inductive: that a stored key is known needs that a key *on
  its way* into the store belongs to a known attacker (`AddingKnown`), which
  needs that known validators stay known under their own key (`Registered`).
  `MakerInv` is the loop invariant of `modifyBlock`.
- `BlockHooksProofs` (`TypeCorrect`, `LeakTheorem`, `StopTheorem`,
  `DelayTheorem`, `BroadcastTheorem`, `StaleHeadTheorem`). The invariant speaks
  of `LaterAttacker`, what the code computes at the current slot. `LaterFound`
  (a later attacker is found unless its window has not begun) and
  `FoundIsLater` (what is found is one unless its window has ended) carry it over
  to the roles at the proposers' own slots, for arbitrary windows.
- `ProposerAttsProofs` (`TypeCorrect`, `DedupTheorem`, `VotesTheorem`).
  `GroupInv` is about the first loop: a group holds attestations of its root,
  among them all of those met so far. `LoopInv` is the invariant of the two inner loops,
  whose list shrinks under their indices: those before `i` are apart from all
  others, the one at `i` from those it was compared with. `DoneInv` carries this
  over to the result, group by group. `KeptInv` and
  `VotesInv` follow each vote from the original list through both rounds: what is
  removed is covered by what stays.
- `BeaconCacheProofs` (`TypeCorrect`, `ZeroTheorem`, `PoisonTheorem`). Until
  two fills meet (`overlap`), at most one goroutine is filling (`OneFill`), into the
  map everybody sees, and what is in it and what is left to copy are everything, or
  nothing after a failed fetch (`FillInv`). Until a call meets a fill, whoever looks
  a key up finds it, unless its own fetch failed, and so it was already when it was
  about to return the map (`LookupInv`).
- `HandlerProofs` (`Composed`, `TypeCorrect`, `AtMostOneResponse`,
  `NoLateResponse`, `BatchAnswered`, `BatchSilent`). `Composed` shows that
  `HandlerSpec` implies the specification of the single calls and that of the
  batch: the invariants of each are proved from its own actions and hold in the
  composition. For the calls, `OnceInv` ties the state of the Once to the
  goroutine, the timer and what was written, `CloseInv` what has ended when close
  returns. For the batch, the buffer's calls are the last messages of the
  batch, in order (`CallsInv`); until somebody writes, its responses answer exactly
  the calls among those before them (`RespInv`); whoever writes first is the only
  one (`WroteInv`).
  `ClosedInv`, about both, gives the action property `BatchQuiet`. Batches are
  sequences of calls and notifications of any length (`BatchAssumption`).
- `SubscriptionProofs` (`TypeCorrect`, `NoPanicTheorem`, `ReachesServer`,
  `StreamTheorem`): the refinement of `Stream`. The invariant says where a
  notification is while it travels. The server's buffer holds 1..n
  (`PendingInv`); on the wire the numbers ascend without a gap, after the
  subscription's id, up to `Sent` (`WireInv`); in the client the user's channel,
  the buffer and the notification in `deliver` are consecutive, up to `Got`, and
  what is unread on the wire comes after `Got` (`ClientInv`): so what is sent
  next on the user's channel is what `Deliver` of `Stream` delivers. `UnsubInv`,
  `ServerErrInv`, `EndInv` and `OnceInv` follow the end of the subscription
  through both error channels and the phases of the unsubscribe request (a
  dropped or renewed request has no connection any more); a forwarding goroutine that
  has ended was answered by the server, has no connection, or could not send its
  request (`unsent`), which is the exception `ReachesServer` states. `StreamStep` then maps every step: Notify
  publishes, `ForwardOut` delivers, the first `Unsubscribe` to return is the end,
  and everything else leaves the stream alone.
- `RpcClientProofs` (`TypeCorrect`, `OneWriter`, `PanicFree`,
  `TableDoesNotLeak`, `AnswersRecognised`). Who holds the write lock (`LockInv`),
  which channels are open (`RespInv`), what holds during a reconnect (`RecInv`)
  and which connections can carry an answer (`WireInv`, `ConnInv`) support each
  other; none is inductive alone.
- `HttpStackProofs` (`TypeCorrect`, `HandlersRun`, `OwnConfig`, `OrphanFree`).
  A running server is the last one enabled and is installed, about to be installed
  under the configuration just stored, or about to be stopped (`RunInv`,
  `DetachInv`); hence a configuration read late is that of the server
  loaded earlier, or that server no longer runs (`ReqInv`).
  In the same module, about the codec of a WebSocket (`WsTypeCorrect`,
  `PeerKept`): `DeadlineInv` says that while the peer can be heard, a deadline is
  either about to be set anew or lifted, or leaves time for the answer under way
  and for a busy reader to come to it (`PongDue`), or has passed while the reader
  sits in the pong handler and the loop waits for `encMu` or writes its ping; then the next ping moves
  it before anybody reads. It rests on `TimeAssumption` of `WsCodec`, whose
  definitions carry the prefix `Codec` where `HttpStack` has the same name.

The lemmas on slots and epochs (`EpochBounds`, `EpochSlots`, `SlotParts`,
`LaterEpoch`) stand in `AttestStoreProofs` and `BlockHooksProofs`, where they are
used.

Two definitions are written for these proofs as well as for TLC: the calls that
`respondWithError` answers are an ascending enumeration of the open ones
(`Ascending` in `BatchCall`), and the results of a sort are the functions onto the
items (`Lists` in `ProposerAtts`). Both say by their elements what a fold would
compute, since nothing can be proved here by induction over a sequence.

`Exclusion` (`WriteUnderLock`), `OneWriter` (`WriteLock`) and `BroadcastTheorem`
(`BroadcastKnowsDelay`) are proved and no longer part of a run.

Every safety invariant, the two action properties and the refinement that a
passing run checks are proved. Only model-checked: the liveness properties
(`CollectEnds`, `ListBuilt`, `Repaired`, `TimeoutAnswers`, `DeadlineReturns`,
`CloseReturns`, `OperationReturns`, `DeadPeerDropped`, `CloseEnds` and those of
`Subscription`), because fairness and ENABLED are out of the prover's reach; and
the three expected violations of section 5, whose counterexamples only TLC
gives.

## 5. Findings

1. `attest_no_crash`: `GetAttestSet` hands out the map of a slot;
   `modifyBlock` ranges over it while `attest_afterSign` may write it. The Go
   runtime may abort the process (`block.go:149`).
2. `batch_timeout_answers_all`: the timer cancels the context before it answers;
   the worker may see that and write an incomplete answer, or nothing
   (`handler.go:205-212`).
3. `rpc_client_quit_unblocks`: a read error between the write of a request and
   its `reqSent` deletes the request from the table; if the write succeeded,
   nothing closes its channel any more, not even quitting (`handler.go:340`,
   `client.go:358`). The unsubscribe request of a subscription is such a request:
   it is made without a deadline (`subscription.go:383`), so that an `Unsubscribe`
   whose request is lost in this way never returns, and a decoding error or an
   overflow, which is reported after the request, never is. `UnsubscribeReturns`
   and `ErrReported` hold with exactly this exception (`Stranded`).

Observations that no run is about, and that the properties are stated around:

- `beforeBroadCast` and `delayForReceiveBlock` use the epoch of the *head*: the
  last attacker is stopped when the head is outside its epoch
  (`block.go:394`; `StoppedOnlyByStaleHead` says only then).
- The role of later proposers is taken at the current slot (`block.go:469`).
  With a window that begins or ends inside the epoch an attacker that is not
  the last gets through, or the last one is stopped; `LeakExplained` and
  `StopExplained` allow for exactly these cases.
- A configuration that could not be fetched, and one that another goroutine has
  just begun to fill, yields 0 without an error (`beaconclient.go:31`, `:85`), by
  which `monitorDuties` divides. `ZeroNeedsFault` says that it takes one of the
  two. Two overlapping fills may leave a map incomplete that nobody fills
  again (`PoisonNeedsOverlap`); without such an overlap a failure is made good by
  a later call (`Repaired`).
- `modifyBlock` ignores the error of `Dedup` (`block.go:163`): one attestation
  with a bitlist of another length and the block goes without any.
  `NoVoteLost` excepts this case (`lost`).
- The timer of a notification may write to a connection whose handler has been
  closed (`handler.go:287`); `QuietAfterClose` is about calls.
- `handler.close` waits for a served method that makes a reverse call without a
  deadline, which waits for dispatch: both wait for ever (`handler.go:314`).
  `DeadlineReturns` and `CloseReturns` except this case (`WaitsForMethod`).
- `run` ignores the error of `requestUnsubscribe` (`subscription.go:313`): after a
  write that failed and a dial that failed, `Unsubscribe` returns while the
  server's subscription is alive. `UnsubscribeReachesServer` excepts this case
  (`unsent`).
- Two comments disagree about notifications that a service publishes before the
  subscription is active: they "are dropped until the subscription is marked as
  active" (`subscription.go:114-115`), or they "are buffered before activation"
  (`subscription.go:168-169`). The code buffers them and sends them after the id
  (`subscription.go:146-149`, `175-179`). `Delivered` and `StreamImplemented` hold
  of what the code does; the first comment is out of date.
- A failed write of a notification returns an error and leaves the connection
  open, though the comment of `Notify` says that "the RPC connection is closed"
  (`subscription.go:131`; the code is `184-194`). The client then gets nothing more
  until the connection is dropped.
- A subscription is activated although its service returned an error
  (`subscription.go:171`); `Stream` allows for it.
- The timer of a single call answers notifications as well (`handler.go:288`).
- `Server.Stop` does not wait for pending requests, though its comment says so
  (`rpc/server.go:157`).
- A validator that attests before `monitorDuties` has added it counts as normal
  and its attestation is broadcast (`attest.go:94`).

## 6. Not modelled

- Text: JSON encoding, base64/protobuf, gzip, CORS, virtual hosts. They decide
  whether a request passes (`ok`, `wellFormed`) and nothing else here.
- Reflection (`rpc/service.go`), dialling, command line, metrics, version: no
  state that changes after start-up.
- The reward collector: a sequential tool. It ignores an error of the last flush
  before it renames the file over the old one (`reward.go:39`); a test reaches
  that as well as a model.
- `Notify`, `BatchCall` of the client take the path of `CallContext` through
  `send`; a batch enters and leaves `respWait` as a whole. The HTTP transport has
  no dispatch loop.
- `Filter` of the attestation lists and `AddSignedBlock`/`BlockSet` have no
  caller. `enableWS`, `stopWS` and `stop` after a successful start have none in
  this repository either, but are the component's interface and are modelled.
- Maximum cover and aggregation of signatures belong to Prysm.
- The LRU bound (1000) of the delay cache. `UpdateStrategy` replaces the
  broadcast delays only, so that roles do not change at run time.
- A failed `Conn.Write` (`client.go:582`) followed by a retry: what fails has not
  delivered the whole message, and `op.hadResponse` keeps a second answer out, so
  that no duplicate request is modelled.

## 7. Assumptions on the surroundings

In `Roles` and its users the beacon configuration is loaded and
`SLOTS_PER_EPOCH` is positive. The code does not ensure this; `BeaconCache` says
when it fails (see section 5). Its values are strings, as the beacon API sends
them (`beaconclient.go:87` would panic otherwise). Proposer duties are listed in
slot order (`block.go:330`), as the beacon API does. A validator client signs at
most one attestation per slot. A peer answers a ping faster than pings are sent
and well before the pong is due (`TimeAssumption` of `WsCodec`).

## 8. Plan

Done: the modules of section 2; hooks and store first because they are the
service's own logic, then the handler, the client and the endpoint; then the
composition of the handler and of a subscription, the attestation list, the
configuration cache and the WebSocket codec.

Proved since: the safety of all of them, and the refinement of `Stream`.

Next, in this order:
1. Safety facts on which the liveness properties rest, as theorems: which
   goroutine a blocked one waits for (`DispatchFree`, `CollectEnds`), so that
   only the step from there to "eventually" stays with TLC.
2. The violated `QuitUnblocks` weakened to what holds, and proved.
3. An abstract specification of a call (asked, answered at most once, given up)
   that `RpcClient` implements.
