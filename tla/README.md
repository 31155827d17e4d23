# credential-proxy: TLA+ specifications

The repository is an asyncio program in two halves that share one process and
one Matrix room. The *credential half* hands out KeePass entries to callers:
a request is let through because its script is registered, or because a member
of the room reacts to a message. The *LLM half* forwards chat requests to
providers, replaces secrets and personal data by tokens on the way out, puts
them back on the way in, and may hold a dangerous tool call until somebody
approves it.

The specifications are written from the source. Every module says in its
header which files it covers; `PROJECT.json` maps each definition to its lines.

## 1. Inventory

| part | state | operations | what makes it correct |
|---|---|---|---|
| credential requests (`_credential.py`) | `pending_requests`, `approval_msgs`, the last request time, the KeePass handle and semaphore | `/credential`, `/revoke`, query and answer | a release has its own approval; a refusal or a lock is final; nothing is left behind; every request is answered |
| unlocking (`_tpm.py`, `_credential.py`) | `master_password`, `unlock_event`, `_unlock_msg_id`, `_unlock_in_progress`, `_unlock_generation`, `_auto_unlock_event` | ask, approve, refuse, unseal, automatic unlock, time out | nobody waits for an event that is gone; an outdated unlock changes nothing |
| Matrix bot (`_matrix.py`) | none of its own: it changes the tables of the others under `_lock` | five branches of `on_reaction`, three text commands, `_ask`, `_say` | a reaction decides what its message asked, once |
| caller registry (`_registry.py`) | registry, name and path index, pending registrations and hash changes, `caller_registry.json` | register, activate, revoke, match, notify and resolve a hash change, load, save | only accepted callers and accepted hashes are trusted, also after a restart; revocation is final |
| credential tokens (`_token.py`) | two maps with an LRU bound, a sequence number, three pattern caches | register, evict, forget, redact, restore, snapshot | the maps are inverse; tokens are not reused; what a request replaced it can restore |
| tool-call approval (`_llm.py`, `_audit.py`) | pending approvals, their messages, per-context ids, keepalive attributes | begin, ask, wait, expire, abort, finish, react, sweep | an approval is genuine; no stream hangs; nothing outlives its stream |
| PII vault and detection (`_pii.py`, `_token.py`, `_llm.py`) | two LRU tables with a common index space, a sequence number, one scan cache | detect, register, redact a body leaf by leaf; per line of an answer: restore, detect, mask | what the provider wrote itself is masked; a token becomes its own value or stays a token; a running answer can be restored |
| streaming (`_llm.py`) | line buffer, accumulated tool calls, held events, end-of-stream flags | connect, retry, choose a chain, forward, hold, restore, audit, release or refuse, finish | no token is cut, text keeps its order, arguments of a call pass unaudited only on the paths where the code is known to let them, a truncated answer does not look complete, no successful answer is silent |
| metrics (`_metrics.py`) | totals per day and hour, a ring of events, a bounded queue, a SQLite file, a writer thread, query threads | count, snapshot, flush, drain, query, trim, close, reload | no event counted twice, a restart keeps totals, a close loses nothing |
| admin API (`_admin.py`) | sessions, a rate limiter, event streams | log in, query, stream | limits hold |
| `get` client, entry points, packaging | none | | |

**Interaction.** Everything runs on one event loop. A handler is interleaved
with the others at its `await`s only; `CredentialProxy._lock` protects the
tables of the credential half and of the registry; executor threads run tpm2,
KeePass and file writes. A handler posts a Matrix message, registers the
message's id in a table, and sleeps on an `asyncio.Event` with a timeout;
`on_reaction` finds the entry by the id, writes the decision and sets the
event. The hard behaviour is between these steps: the timer fires as the
decision arrives, the lock command empties the tables, an unlock finishes late,
the reaction comes before the id is registered, a handler is cancelled, the
process dies.

`PROJECT.json` lists the components with what is left out of each, and the
hazards with the line where each one bites.

## 2. Modules

| module | what it models |
|---|---|
| `CredentialProxy` | a credential or revocation request from arrival to answer, together with unlocking, the lock command, shutdown, the KeePass semaphore |
| `AuditApproval` | the approval of flagged tool calls while answers stream, with the sweeper and the keepalive tasks |
| `TokenVault` | the credential token maps, their caches, and the LLM requests that use them |
| `CallerRegistry` | the registry, the endpoints that change it, its file, crashes and restarts |
| `Approval` | the abstract promise: a case is carried out only on the first decision about it, by somebody who may decide, unless it was taken back |
| `CredentialRefinesApproval`, `AuditRefinesApproval` | the refinement mappings from the two detailed approval paths to `Approval` |
| `PiiVault` | `GlobalPiiTokens`, the redaction of a body, the treatment of each line of an answer, the scan cache the answers share |
| `TokenLedger` | the abstract promise of a token vault: a token is issued once for one value, what is lost does not come back, a request takes only what is live |
| `TokenVaultLedger`, `PiiVaultLedger` | the refinement mappings from the two vaults to `TokenLedger` |
| `StreamBase` | the state of one LLM request, the line buffer, connecting and retrying, whole bodies, broken and abandoned streams |
| `ChatStream`, `EventStream`, `FastStream` | the three chains that stream an answer: chat completions; Anthropic Messages and OpenAI Responses; streams with nothing to restore or audit |
| `LlmStream` | the composition: one request over any chain, and its properties |
| `Metrics` | the collector: event loop, writer thread, query threads, queue, database, faults, restarts, close |
| `MetricsView` | what a query then reads and adds up |
| `MC...` | the instances for the model checker |
| `ApprovalProofs`, `AuditApprovalProofs`, `CallerRegistryProofs`, `CredentialProxyProofs`, `LlmStreamProofs`, `MetricsProofs`, `PiiVaultProofs`, `TokenVaultProofs` | the theorems about the module they extend (the two approval paths and the two vaults through their refinement modules) |

### Correspondence

A step is the code between two awaits. A block `async with self._lock` without
an await inside is one action with the guard that the lock is free.
The program counter of a handler names the await it is suspended at. A timer is
an action of its own followed by the action of the handler that resumes: the
decision that arrives in between is a real interleaving of the code
(`wait_for` has already cancelled the wait).

* `CredentialProxy` keeps `lock` as a variable because `_auto_unlock` awaits
  while it holds it. `Start` chooses the verdict of authentication and of the
  registry (`refused`, `matrix`, `auto`, `autoUnlock`), which the code
  computes without changing state the module has; the rate limit is `recent`,
  reset by `RateIntervalPasses`. A message appears in `posted` before the
  handler has registered it. `on_reaction` branches 1 and 4, `lock proxy` and
  the critical section of `shutdown()` are actions of the room. Requests are
  used once, so a request names its own event, entry and messages.
* `AuditApproval`: `Begin` to `Expired` are the parts of
  `_request_audit_approval`; `Abort` is the `finally` of the request handler
  when its task is cancelled or fails, at any await; `Finish` is the normal
  end, which clears the keepalive attributes *all streams share*.
* `TokenVault`: a token is its number, a text is the set of secrets or tokens in
  it. The longest-match replacement inside a string is left out, as is the
  fall-back that sends the original body when redaction broke its JSON. A dict is a total
  function with a null; its insertion order is a sequence beside it. `addr`
  is what `id()` returns, and may be reused after the request has ended.
* `CallerRegistry`: `_save_caller_registry` runs with the lock held, so the
  change and the save are one step whose save may fail (`DiskMayFail`).
  `Restart` may happen anywhere, and takes memory from the file. The integrity
  hash of the file and the entry permissions are left out. `accepted` and `revoked` are
  history variables.
* `CredentialRefinesApproval`: the status of a request is read off its program
  counter and its entry: an entry that is gone while the handler is still in
  the approval was taken back by a lock. `AuditRefinesApproval`: the same for
  an approval id, where the sweeper or the end of a stream takes back.
  Auto-released requests are `exempt`. The mapping is the claim that both halves
  follow one protocol although they share no code.
* `PiiVault`: the two dicts of a side hold the same entries in the same order,
  so a side is one sequence, oldest first. A leaf holds one value, a line is a
  sequence of values and tokens; `register` is one step because it holds the
  lock, but the leaves of a body and the values of a line are registered one
  by one, with other requests in between (`RedactLeaf`, `RegisterFound`). `key`
  is the fingerprint a result will be cached under, taken before the detected
  values were registered. Random digits are the number of the registration,
  that is, taken to be unique. `since` is history: for each registration the
  values used after the last use of its entry.
* `TokenVaultLedger` and `PiiVaultLedger`: what a vault can put back is `live`;
  what a request has taken along is its snapshot and then `active_t2p` on the credential
  side, the tokens of its body (`sent`) on the PII side. The PII mapping has only the request
  side live, because response-side tokens are never put back, and both
  sides' registrations issued, because they share one index space.
* `StreamBase` and the chains: an answer is a sequence of atoms: words, line ends,
  halves of a token, and text that may begin a value. `_split_safe_hold` is
  `HoldFrom`, the line buffer's rule `Ready`, `_strip_partials` is `Kept`. One
  action per kind of event, in an order its protocol allows, with everything
  the loop body does for it. Sizes in bytes are a choice (`over`, `short`), as
  is the verdict of the policy. The end of a stream has two stages, with the wait
  for a person in the first: `eof` audits what was not audited, `tail` flushes
  and writes the terminal. `ClientLeaves` may come before any write. The
  age flush of the line buffer is a step of its own before an event. `ok` is
  `upstream_resp.status == 200`, without which an empty answer stays empty. A fragment of
  arguments is written as `call`, or as `full` where a line of the Responses API
  repeats the complete arguments (its two `.done` events and the event that ends the
  answer); `start` is where the last call began. A refusal (`Block`) is a terminal for the
  client, as the code writes it with `finish_reason` stop, `end_turn` or
  `response.completed`, and the stream goes on behind it.
* `Metrics`: a row's columns are one number. A step of the event loop or of a
  thread is the code under one lock, or one row written; `now` is read in a step of its
  own, because the code reads it before it takes the lock. `truth`, `boot`,
  `healthy` and `quiet` are history. `Restart` takes memory from the database, in
  whole or, when loading fails, in the order of loading. A failed write
  turns persistence off until the next start. `MetricsView` adds the reads of
  `_query_1h` and `_query_db`, each a step.

`Variant:` operators in the modules are plausible mistakes in the definition
that follows them. No specification uses them; they record that each property
notices a bug.

## 3. Runs

Runs that pass:

| run | instance | properties |
|---|---|---|
| `credential` | 2 requests of all kinds, 1 approver and 1 other member, 2 generations | `TypeOK`, `ReleaseNeedsOwnApproval`, `CancelledNeverReleased`, `NoOrphanedWaiter`, `UnlockedWakesAll`, `NoLeftovers`, `KeePassExclusive`, `OutdatedUnlockLoadsNothing`, `AsleepForGood` |
| `credential_live` | 2 requests decided by people, 1 generation, weak fairness | `EveryRequestAnswered`, `ImplementsApproval` |
| `audit` | 2 audited streams, 1 approver and 1 other member, 2 approvals, weak fairness | `TypeOK`, `ApprovedOnlyByWhitelist`, `NoOrphans`, `WaiterCanWake`, `ApprovalSettles`, `ImplementsApproval` |
| `vault` | 3 secrets, 3 tokens, a vault of 2, requests one after another, 2 addresses | `MapsInverse`, `OrderListsEntries`, `CachesCurrent`, `RequestRestoresItsSecrets`, `RestoreUsesOwnMap`, `ImplementsLedger` |
| `registry` | 2 registrations, 2 names, 1 hash, 1 revocation, crashes | `EnabledWasApproved`, `RevokedStaysRevoked`, `NoDanglingIndex` |
| `hash_change` | 1 registration, 2 hashes, 2 overlapping decisions, a failing disk, crashes | `TrustedHashWasAccepted` |
| `pii` | 3 values, 2 requests, a vault of 2 entries a side, 4 tokens, 2 leaves, 2 pieces a line, 2 lines | `TypeOK`, `LiveIndicesDistinct`, `MaskedUnlessRestored`, `EchoIsFaithful`, `StreamKeepsItsTokens` |
| `metrics` | 1 query thread, 2 events, a timed flush, a query, 3 hours over 2 days, a restart or a failed write, a queue of 4 | `TypeOK`, `NeverCountedTwice`, `RestartKeepsTotals`, `CloseLosesNothing` |
| `stream` | one request over every chain, any upstream status, 3 atoms of text, 2 argument fragments, 1 other event, at most 5 of these together, buffers that overflow | `TextInOrder`, `OnlyAuditedCalls`, `EndIsHonest`, `NeverSilent` |

Runs that show where the code departs from what the code or its documents say
(the quoted lines are in `PROJECT.json` under `findings`):

| run | property | what happens |
|---|---|---|
| `auto_unlock_answered` | `EveryRequestAnswered` | an automatic unlock waits for another one while holding the lock the other needs |
| `lock_stops_unlock` | `LockStopsEarlierUnlocks` | the lock command does not outdate a running unlock task |
| `one_hour_view` | `OneHourViewIsExact` | the flush before a query takes its time before its snapshot, so that an event in between is counted in the database and in memory |

**More configurations.** Six configurations are kept beside the runs, to be
run by hand. `MCPiiVaultLedger.cfg` (module `MCPiiVault`, the instance of `pii` with one
piece a line) passes: it checks `ImplementsLedger`, which is proved, and which
is too slow to evaluate in `pii`. For the others TLC reports a violation.

| configuration, module | property | what happens |
|---|---|---|
| `MCSweepsOnlyOrphans.cfg`, `MCAuditApproval` | `SweepsOnlyOrphans` | the sweeper refuses every undecided entry every 60 s (`_audit.py:682`), also of living streams; the specification has it sweep entries whose stream has ended (`openspec/changes/llm-privacy-gateway/specs/output-security-audit/spec.md:45`) |
| `MCWaitingIsKeptAlive.cfg`, `MCAuditApproval` | `WaitingIsKeptAlive` | the keepalive attributes are shared by all streams (`_llm.py:1795`), so a waiting stream loses its keepalive to another one; the comment above says the wait is kept alive |
| `MCOrdinaryIsNotAutomatic.cfg`, `MCCallerRegistry` | `OrdinaryIsNotAutomatic` | `_check_auto_approve` never reads `allow_mode` (`_registry.py:207`), so ordinary approval releases automatically too; the message offers the two as different choices (`_registry.py:444`) |
| `MCRefusedStaysOut.cfg`, `MCLlmStream` | `RefusedStaysOut` | arguments no audit let through reach the client of a stream: before a gateway's `[DONE]` (`_llm.py:3894`, `3924`), in the `.done` lines and the terminal behind a refusal (`_llm.py:2766`), in the terminal that repeats an unfinished call; the design keeps a refused call from the client (`_llm.py:5045`), and so does the specification (`openspec/changes/llm-privacy-gateway/specs/output-security-audit/spec.md:37`) |
| `MCTerminalOvertakes.cfg`, `MCLlmStream` | `DoneIsLast` | on the fast chain the terminal passes at once and the text the line buffer still holds follows it (`_llm.py:7265`); the comment in the treatment of CR lines (`_llm.py:7159`) says that clients lose what follows a terminal |

Behaviours that are in the models without a configuration of their own:

* *Approval.* A reaction that is delivered before
  its message is registered is lost (`_credential.py:429`); any reaction but
  approve refuses an audit approval, the third one included (`_matrix.py:260`);
  two registrations may pass the name check before either is inserted
  (`_credential.py:634`); after a save that failed, a second revocation answers
  `revoked` without saving (`_registry.py:130`), which is why `registry` takes
  the disk to work.
* *Metrics.* A queued snapshot may overwrite a newer one that a query wrote, until the
  next flush; a query thread that is still writing at close may leave an older
  total (`quiet` excludes it from `CloseLosesNothing`); after a full disk the
  longer views stay as they were; a snapshot of more rows than the queue holds
  loses its first rows, also at close; after a load that failed the process
  overwrites the totals of the day (`healthy` excludes it).
* *Streams.* A call whose hold began late is released without the fragments
  that came before the hold; on Anthropic and Responses streams an answer that ends inside a call is refused
  even if somebody approves; on chat streams the calls accumulated so far are
  written if the audit allows them; a refused call of a whole body is counted
  as an exception; half a token is dropped when an event without text flushes
  the buffer. A `[DONE]` on a Responses or Anthropic stream flushes the arguments that
  wait for their audit, held or not (`_llm.py:3894`, `3924`). The line that ends a
  Responses call is written whatever the verdict, with the complete arguments (`2766`); the call's second
  `.done` finds nothing accumulated and passes without an audit, and the terminal repeats all
  calls. An exception in the audit of a whole body is ignored and the call passes (`7770`).
  A refusal is a terminal in the middle of a stream that goes on (`1889`-`1971`): a Responses client may
  see `response.completed` and then further events or `response.failed`. An
  empty answer with another status than 200 is passed on empty. `OnlyAuditedCalls`,
  `EndIsHonest` and `NeverSilent` say exactly what is left to rely on.

**Bounds.** Two requests are enough for every interaction of the unlock
protocol, which is pairwise: one request owns the event, another waits for it,
replaces it or abandons it. `MaxGen = 2` gives an outdated unlock and its
successor. `ImplementsApproval` is checked with the liveness of requests that people
decide, on a smaller instance, because evaluating the abstract step costs more than
everything else in `credential`. Two streams are what the shared keepalive attributes and the sweeper need.
The vault
is smaller than the set of secrets, so eviction happens, and `MaxSeq` leaves
room to register an evicted secret again. One request at a time is enough for the
shared pattern cache, which survives requests: the next one may get the same
address; the theorems cover any number of requests. Two requests in `pii`
are the writer and the reader of the shared scan cache, three values overflow a
side and reuse an index. In `metrics` an hour is one tick and a day two, so
each of the two events may fall into a new hour or a new day, and two snapshots
of three rows do not fit the queue of four. In `stream` three atoms are a token cut in two with something before,
between its events or after it, or a head of a value that outlives two events;
two fragments are a call that is suspicious from its first or from its last
one; `FlushAt = 1` makes the buffer long with two atoms; `MaxSent = 5` leaves out only answers that use all of them,
and the run with `MaxSent = 6`, which is no bound any more (13.2 million states), passes too. The symmetric sets are only
permuted in runs without liveness. Bounds on counters (`MaxGen`, `MaxSeq`, `MaxTasks`, `MaxMints`, `MaxLines`,
`MaxClock`, `MaxEvents`, `MaxFaults` and the like) appear as guards. Deadlock is checked for the vault, whose
requests repeat; the other modules' handlers run once and the system then
rightly stops.

**Fairness.** Weak fairness of each handler and unlock task: the event loop
runs what is ready, timers fire, and tpm2 runs under a 30 s subprocess timeout.
KeePass calls are taken to return. There is none for members of the room, new requests, the lock
command, the sweeper, or the end of a stream.

## 4. Proofs

For every value of the constants that satisfies the named assumptions
(`ProxyAssumption`, `AuditAssumption`, `VaultAssumption`, `RegistryAssumption`,
`MetricsAssumption`, `PiiAssumption`: a null is not an element, the whitelist is
a set of members, bounds are natural numbers, the lengths and capacities of
metrics and vault positive ones). `LlmStreamProofs` uses no assumption.
Every inductive invariant was model-checked on the instance of its run before it
was proved.

* `ApprovalProofs`. In `Approval` a case that is carried out was approved by
  somebody who may decide (`GrantsAreApproved`); with the two refinement theorems
  this holds of both paths.
* `CredentialProxyProofs`. `StepCases` splits a step into the action it
  is. `ApprovalInv` is inductive: a registered message points to its own request and
  only while the request is in the last stages of its approval (`MsgsInv`); a
  cancelled request has no open or granted entry and only refusing answers
  ahead (`EntriesInv`); a granted entry has its approver (`GrantInv`). Without
  `MsgsInv` a reaction on an old message could grant another request.
  `UnlockInv`: a loaded password means that the current event is set, and a
  waiter's event is current or set.
  `CredentialKeepsThePromise` is the refinement: with `ApprovalInv`
  every action maps to one step of `Approval` for one request, or to a stutter; the
  lock command is the one that takes back several cases at once.
  The last part is about generations and the lock. `GenerationInv`: the lock command never remembers a
  generation that is still to come, hence the password in memory is of the generation
  the last lock saw or of a later one (`OutdatedUnlocksLoadNothing`); that an unlock of
  that very generation still loads is the finding of `lock_stops_unlock`. `SleepInv`: whoever awaits an event inside
  `async with self._lock` holds the lock and came with `can_auto_unlock`, and nobody else keeps the lock from one
  step to the next, whatever kinds of requests there are (`LockKeeper`, `OnlyAutomaticUnlocksSleep`). `DeadlockIsForGood` is an action property over every step
  of every actor: all code that sets an unlock event needs the lock that the sleeper
  holds, so nothing ends the deadlock that the run `auto_unlock_answered` finds.
* `AuditApprovalProofs`. `AuditInv`: ids belong to one context, a handler is
  inside an approval exactly when it has a current id (`HandlerInv`), and what
  was refused cannot be granted (`EntryInv`). `AuditKeepsThePromise` is the
  refinement, along the same lines.
* `TokenVaultProofs`. Lemmas about moving and shifting the key order keep
  index arithmetic out of the action proofs. `VaultInv` adds to the properties
  that tokens are issued in sequence (`IssuedInv`) and that a cache version
  never runs ahead (`CacheInv`), without which a later registration could
  find a cache with its own number. `VaultKeepsTheLedger` is the refinement of
  `TokenLedger`: a registration issues `tokenSeq + 1`, which `IssuedInv` shows to be
  fresh although `forget secrets` empties the maps; the snapshot takes what is live;
  everything else loses tokens or does not touch them.
* `CallerRegistryProofs`. `RegistryInv` adds to the properties that every trace of a
  registration is in the insertion order (`OrderInv`, which a restart needs to
  rebuild the indexes), that a handler before its insertion has left no trace
  (`InsertedInv`), that a handler on the way to enabling a caller holds an
  acceptance (`DecisionInv`), and that a decision under way was accepted
  (`TasksInv`): the task may run long after its message is gone.
  `RevocationIsFinal` assumes that saves succeed and adds `SavedInv`: the file
  has no entry that memory lacks.
* `LlmStreamProofs`. `OutInv` is about what was written: it renders the text up to the
  start of the line buffer, and the buffer is the rest of it (`TextInv`), it is audited and
  ends honestly, and it is not empty where `NeverSilent` needs it (`SentInv`). `ControlInv` says which
  flags go with which stage, and (`Accounted`) that on an audited stream every fragment waits for an audit or
  passed one until the client was refused something: hence a line that repeats
  unaudited arguments stands behind a refusal, or is the terminal of a call that never ended. The argument has two halves. About operators: what
  `Emit` writes renders its piece, and renderings of neighbouring pieces join
  (`EmitRenders`, `SpellJoin`, `CoversJoin`, `FitJoin`). About actions: every
  action of every chain writes such a rendering, with audited calls (`Fit`) or the excepted ones
  where they may stand (`Loose`, `Around`), and an honest terminal (`Good`) (`ChatWrites`, `EventWrites`, `FastWrites`, `WholeWrites`).
* `MetricsProofs`. `StepKinds` reduces the actions to five kinds: a restart, or a
  step that leaves the counts, counts an event, takes a snapshot or stores one.
  `CountInv` and `KeepInv` say of every queued and half-written snapshot what
  the properties say of the database. `CloseInv` follows the last flush: until
  the writer has finished, every row of memory is stored already or its last
  item in the queue has the right number (`Settled`).
* `PiiVaultProofs`. `VaultInv`: live entries come from registrations of their
  side, and no value, token or index is live twice; that a free index exists is
  a counting argument (`IndexIsFree`). `LineInv`: a line that waits was read
  before anything was registered for it (`ReadsFrom`), and a cached result is
  masked with respect to its key (`MaskedFrom`), so that it may be written for any
  stream with the same key. `UseInv`: a side is in the order of use (`Ordered`), hence
  the evicted entry has seen `MaxEntries` others used since (`IssuedDrops`).
  `Renewed` chooses an order; `RenewedIs` shows that it exists, by moving the
  entries one by one. `PiiKeepsTheLedger` is the refinement of `TokenLedger`: a registration
  issues or renews, an echoed line only reorders (`ShuffledLive`), an eviction
  never takes the entry just registered, so a body carries what is live
  (`EvictedLive`). That an issued token is new rests on the random digits
  being unique, which the model assumes; the index alone is given again.

Induction over numbers, where it is needed, goes through `LeastNumber`, which
follows from the well-foundedness of the subset order.

`VaultKeepsTheLedger` and `PiiKeepsTheLedger` are the action properties one wants of
the vaults in one formula: no step gives an issued token to another value, and no step revives a
token without issuing it.

The proofs changed the models in three places. The arms of the `CASE` in both
refinement mappings overlapped in unreachable states; they are disjoint now.
`CloseLosesNothing` used to exclude queues smaller than the rows *left after*
trimming, but the code takes the snapshot before it trims memory
(`_metrics.py:1055`): rows that are trimmed at once still push others out. The
premise is now that the last snapshot fitted the queue. The folds of `Metrics`
and `PiiVault` (`_enqueue`, `restore`) were replaced by what they compute.

Model-checked only: liveness (`EveryRequestAnswered`, `ApprovalSettles`), because
the proof system has no support for fairness arguments, and `OneHourViewIsExact`
of `MetricsView`, which is violated.

Proved without a run, because they say less on one instance than the properties that
are run: the types of the vault and of the registry (`VaultTypeCorrect`,
`RegistryTypeCorrect`), that a recorded decision has set its event (`DecisionsWake`),
that tokens are not reused (`TokensAreNotReused`, which the ledger contains), and who may
sleep on the lock (`OnlyAutomaticUnlocksSleep`); `PiiKeepsTheLedger` has the
configuration named above.

## 5. Not modelled

* *Data.* Regular expressions, checksums, the resolution of overlapping
  matches and policy rules; the text of messages; the JSON walk, which is a
  traversal without state.
* *Library code.* The sync loop of the Matrix client and its reconnection; the
  tpm2 command line; aiohttp; SQLite.
* *Of the registry:* the integrity hash of the file and entry permissions.
* *Of the PII vault:* `clear()`, which no handler calls; the counters of
  malformed tokens, which are shared by all requests; case-insensitive matching.
* *Of the streams:* lines that end in a lone CR, several choices in one event,
  several data lines in one event, the text that Responses `.done` events repeat, JSON cut by a raw newline, keepalive
  comments, and the buffers for reasoning and refusal text, which follow the
  rule of the content buffer.
* *Of the metrics:* value samples, time series, health flags.
* The admin API (session check, rate limiter, event streams: small sequential
  bookkeeping), the admin page, the `get` client and packaging.

## 6. Plan

Modelling is complete as far as section 5 says, and every safety property, action
property and refinement of a passing run is a theorem. What is left is not about
proofs: a corrected one-hour query for `MetricsView`, to state what the view would
have to read for `OneHourViewIsExact` to hold, and a run for the KeePass handle
that is cached after a lock (`_credential.py:870`), once the code or a document
says what it should do.
