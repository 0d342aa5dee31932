# dcspark-core in TLA+

Models, model checking and proofs for the libraries of dcspark-core. This file
describes the system, says which module models which part of it, what every run
of TLC shows, and what is proved for all instances.

Status: `fraos`, `indexed-log-map`, `multiverse`, the three sources of
`blockchain-source`, the UTxO store of `core` and the algorithms of `utxo-selection`
are modelled and checked, and every safety property that a run checks of them is
proved. The copy of a database (`FraosCopy`) and liveness are model-checked only.

## 1. The system

dcspark-core is a workspace of Rust libraries for Cardano applications.

| component | state | operations | meets |
|---|---|---|---|
| **fraos** `Database` | `flatfile` (records back to back), `seqno_index` (one `(offset, length)` pair per record), `write_lock`; on disk the files `data` and `seqno` | open (with the search for the end of `seqno`), `append_get_seqno`, `get_by_seqno`, `last`, iteration, drop | files of the kernel; any number of threads through clones |
| **fraos** `GrowableMmap` + `Appender` | active map with bounds, list of inactive maps with an index of bounds, `actual_size` | `new`, `grow_and_apply`, `get_ref_and_apply`, `rearrange_mmaps`, `shrink_to_size` | used by both files of the database |
| **indexed-log-map** | a fraos database of values, a sled tree key → sequence number | `append`, `get`, `iter_from`, `get_next`, `is_empty` | fraos, sled |
| **multiverse** | sled tree; in memory `all`, `ordered`, `tips`, `roots`; `store_from` | `insert`, `remove`, `load_from`, `select_best_block`, `preferred_fork_tip`, `clear` | sled; used by the sources |
| **blockchain-source** `MultiverseSource`, `ForkHandlingSource` | a multiverse, `confirmed`, `last`, a stack of events | `pull` | multiverse; wraps another source |
| **blockchain-source** `CardanoSource` | request channel (1), response channel (1000), handler task with a connection | `pull`, `stop`, `clear_buffers`, the handler and `block_fetch` | the network; wrapped by the sources above |
| **blockchain-source** `time.rs` | eras | slot ↔ time arithmetic | |
| **core** `UTxOStore` | UTxOs by pointer, by token, by value, balances | `insert`, `remove`, `thaw`, `freeze` | utxo-selection |
| **core** `Balance`, `Value` | debt / balanced / excess | arithmetic | UTxO store, utxo-selection |
| **utxo-selection** | available inputs, balances of inputs and outputs | largest first, random improve, change and fee, thermostat | a transaction builder that estimates fees |
| **core** identifiers, transactions; **cardano-utils**; **cardano-cli-tools**; **deps** | none | parsing, formatting, conversion, command lines | |

What makes each of them correct, and what is hard about it:

* **fraos**: what `append_get_seqno` acknowledged can be read at its number, now
  and after any crash; readers run between any two steps of a writer, without
  its lock; the process dies between two writes and the end of `seqno` has to be
  found again in a file that is longer than its content; a failure leaves one
  file grown and the other not.
* **indexed-log-map**: a key leads to the latest value appended under it. The
  log and the key index are changed one after the other, by several threads.
* **multiverse**: `tips`, `roots`, `ordered`, the parent and children links and
  the database describe one forest, whatever the order of arrival, of garbage
  collection and of reloading.
* **MultiverseSource / ForkHandlingSource**: every consumer sees one chain, with
  no block skipped; a change of branch is announced by a rollback to the common
  ancestor. The inner source lags behind the checkpoints it is given.
* **CardanoSource**: `pull` returns, also when the connection is lost; `stop`
  ends; buffers have a limit.
* **UTxOStore**: three views of one set and their balances agree.
* **utxo-selection**: selected inputs cover outputs and fee, or an error is
  returned; no input is spent twice.

`PROJECT.json` lists the hazards line by line, with the properties that cover
them.

## 2. How the models fit together

The order in which the parts were taken is that of their dependencies, the
storage first:

1. **fraos**: `AppendLog` (promise), `MmapStore`, `Fraos` (implements
   `AppendLog`), `FraosInv`, `FraosProofs`, `GrowableMmap` (implements `StoreSpec`),
   `GrowableMmapProofs`, and the situations in which the documentation promises more
   than the code does.
2. **indexed-log-map**: `IndexedLogMap` over the log that fraos implements,
   `IndexedLogMapProofs`.
3. **multiverse**: `BlockForest` (the tables and the functions on them),
   `Multiverse` (clients, restarts), `ForestProofs`, `MultiverseProofs`.
4. **blockchain-source**: `Chains`, `BlockStream` (promise), `CardanoSource`
   (implements `BlockStream`), `CardanoProofs`, `Sources` with `MultiverseSource` and
   `ForkHandlingSource` on `BlockForest`, fed by what `BlockStream` promises,
   `SourceProcess`, `SourcesProofs`.
5. **core and utxo-selection**: `Coins`, `UtxoStore`, `FeeEstimator`, `Selection`,
   the algorithms, `Wallet`, which composes them, and `WalletProofs`.

Left of the models: a power failure that writes back pages in any order, and script
witnesses.

## 3. The modules

### fraos

| module | what it is |
|---|---|
| `AppendLog` | what an append-only database promises: records are added at the end and never change; a number is acknowledged for the record stored under it |
| `MmapStore` | one file of fraos as the database sees it: length, content, end of the data, bounds that cut read slices, the active map, the published size; pure operators (`Attach`, `Grow`, `RearrangeMmaps`, `ShrinkToSize`, ...) |
| `StoreSpec` | the life of one such store: the steps it may take |
| `GrowableMmap` | the inside of a store: lists of maps and chunks, their searches, file and anonymous memory; implements `StoreSpec` |
| `Fraos` | the database: two stores, opening, writers, readers, dropping, crashes; the properties |
| `FraosInv` | the inductive invariant `IInv` |
| `FraosProofs` | the theorems, with the refinement of `AppendLog` |
| `GrowableMmapProofs` | the invariant of `GrowableMmap`, what follows from it, and that it implements `StoreSpec` |
| `FraosCopy` | a user copies the two files while the database is used |
| `FraosFaults` | steps that `Fraos` leaves out because they break it: a clone is dropped, a flush fails |
| `MC*` | instances for TLC |

#### State and code

* `data` and `index` are the two `Appender`s, as records of `MmapStore`. A cell
  of `data` is a byte `<<record, position>>`, so a misplaced, torn or
  overwritten byte is seen; a cell of `index` is a pair, whose two halves are
  written by two steps. `end` is what `GrowableMmap::len` computes from the
  bounds, `size` is `actual_size`: the code keeps both and they differ while an
  append is in progress.
* `lock` is `write_lock`. The `RwLock` of a file is held while `pc` is `"data"`
  (`offset`, `length` for `seqno`): `DataBusy`, `IndexBusy`.
* `pc[w]`, `job[w]`: where writer `w` is in `append_get_seqno`, and its locals.
  One action per step another thread or a crash can see: `AcquireLock`,
  `PlanRecord` (the loop over records), `RejectEmpty`, `GrowData`, `WriteRecord`
  (one `write_all`), `FinishData`, `GrowIndex`, `WriteOffset`, `WriteLength`,
  `FinishIndex` (the file is released), `Publish` (its size is stored: until
  then readers reach the pairs by number although `len` does not count them).
  `DataMapFails` and `IndexMapFails` are the error paths of `create_mmap`,
  before and after its `set_len`.
* `rd[r]`: a reader between `get_offset_and_length` (`Seek`) and
  `get_record_at_offset` (`Fetch`). `get_by_seqno`, `last` and `SeqNoIter::next`
  are all made of these two.
* `db`: opening (`OpenIndex`, the loop of `find_actual_end`, `OpenData`), use,
  and `Drop` (`DropIndex`, `DropData`, between which the process may die).
* `log` and `acked` are history variables: the records whose pair is complete,
  and what clients were told. No guard reads them.

In `GrowableMmap`, `chunks` is `IndexOnMmaps::mmaps`, `maps` the list of
`SharedMmap`s, `active` the active map with its bounds, `mem` the content of the
file and of every anonymous map, `write` the append that holds the `RwLock`. The
two binary searches of the standard library are taken by their contract.

The unit of an address is a byte for `data` and a pair for `index`; all lengths
of `seqno` are multiples of a pair in the code (so `is_correct` holds).

### indexed-log-map

`IndexedLogMap`: `log` is the fraos database (with the key of each record, which
only the client knows), `index` the sled tree as the process sees it, `disk` as its
file holds it. `append` is `Begin`, `AppendToStorage` and `InsertKey`: two stores
written one after the other without a lock around them, each with its error
(`StorageFails`, `InsertKeyFails`). `New` opens with any configuration, `Flush` is
sled's own, `Close` and `Crash` end the process. `walk` is a client that goes
through the map with `get_next`. A read takes the index once and then records that
never change, so it is one step.

### multiverse

`BlockForest` holds the `Multiverse` struct as one record: `all`, `ordered`, `tips`,
`roots`, and `panic`, which is set where an assertion or an `expect` fails. A
reference (`EntryRef`) is a pair of a block and an allocation: a removed entry that
somebody still holds is another object than the one inserted after it, and a weak
reference (`Upgrade`) finds the object or nothing. `InsertInMemory`, `RemoveFrom`,
`Load`, `Ancestor`, `SelectBest`, `PreferredForkTips` are the methods; where the code
takes what a `HashSet` gives first, they are sets of outcomes.

`Multiverse` is a client that inserts and removes in any order, selects and removes
what is discarded, clears or destroys, and a process that ends and loads again. The
database is written after the tables (`RemoveBlockFails`: and may fail).

`ForestProofs` has the facts about the operators of `BlockForest`, `MultiverseProofs`
the theorems about `Multiverse`.

### blockchain-source

`CardanoSource` is the caller of `pull` and the task `request_handler`. `pull` is
taken apart where it awaits, since a dropped future stops there (`Cancel`);
`requests` is the channel that holds one request, `buffer` the response channels,
`current` the receiver the caller kept. The handler's label says what it awaits;
`job`, `range` and `rest` are its locals. `Stop`, `ClearBuffers`, reconnection, full
channels and closed ones are actions or guards, and so are a block that cannot be
converted and one at which the handler panics.

`BlockStream` is what that amounts to for a caller, `Stream!Spec` the refinement: the
blocks in the current channel and those still to be sent to it are what was
promised (`WithoutTip`: a report of the tip may come before them). `CardanoProofs` has
the proof of it.

`Sources` has what the two consumers of such a stream share: the node whose chain
changes, the stream, the multiverse and its database, `InsertAndGc`
(`multiverse_insert_and_gc`, with every order of removal), the consumer and the
restart. `MultiverseSource` gives a block once it is confirmed; `ForkHandlingSource`
gives it at once and rolls back. One pull is one action: `pull` takes `&mut self`, so
nothing else of the source runs meanwhile. `SourceProcess` is a program that runs one
of the two (`kind`); `SourcesProofs` has the theorems about it.

### core and utxo-selection

| module | what it is |
|---|---|
| `Coins` | amounts and bags of assets, as `Value` and `Balance` compute them |
| `UtxoStore` | `UTxOStore` with its set, the index by token and value, and the balances; `IndexesAgree` |
| `FeeEstimator` | the three estimators: sizes, fees, limits, and outputs an estimator refuses |
| `Selection` | the setup and the result of a call, its balance, and how a call ends (result, error, panic) |
| `LargestFirst`, `RandomImprove`, `Thermostat` | one action per turn of the loops of `select_inputs` |
| `ChangeBalancers` | `FeeChangeBalancer`, `SingleOutputChangeBalancer` |
| `Wallet` | a caller with a store of its own: asks, has the change balanced, submits, receives |
| `WalletProofs` | the theorems about `Balance`, the store, and the wallet with its algorithms |

`available` is what the object of an algorithm keeps between calls (`random` for
RandomImprove, with its list and its indices), `call` the locals of a call in
progress, `estimator` the estimator it updates, `result` what it returned. A choice
the code leaves to a random generator or to the order of a hash map is an `\E`.
`RandomImprove` keeps its indices when it is given other inputs, as the code does:
`AskRandom` takes a new object or the one of the last time.

## 4. What the runs show

| run | question | distinct states |
|---|---|---|
| `safety` | every safety property, the inductive invariant and the refinement of `AppendLog`: two writers, one reader, failing mappings, crashes anywhere | 233 000 |
| `liveness` | `find_actual_end` on files of up to nine pairs ends; every append returns and has released `write_lock`, with two writers competing | 69 000 |
| `maps` | `GrowableMmap` with a file finds what was appended and implements the store | 100 000 |
| `log_map` | two threads append under two keys to a map that is closed, killed and opened with any configuration | 122 000 |
| `multiverse` | blocks come, go and are selected in any order, removals fail, the process restarts | 121 000 |
| `sources` | both sources behind a node that changes between branches, lost connections, restarts | 63 000 |
| `cardano` | `CardanoSource` implements `BlockStream`; `pull` and `stop` return | 288 000 |
| `wallet` | a wallet that pays twice with every algorithm, balancer and estimator | 95 000 |
| `copy`, `clone_dropped`, `flush_fails`, `protect_fails` | claims of the documentation that do not hold, see 6 | |

**Properties of `Fraos`.** `AckedIsStored` (durability), `AckedIsServed`
(availability: the pair is mapped and the record is in one slice, which is what
`get_record_at_offset` needs), `NeverDamaged`, `RecoversExactly`,
`ReadsAreRight` (the pair a reader holds stays right however long it waits),
`LenIsReadable` (the comment on `actual_size`), `ImplementsAppendLog`,
`AppendReturns` (a writer that waits in a call or holds `write_lock` comes to have
neither: an append that returns an error and keeps the lock refutes it), `OpeningEnds`.

**Properties of `GrowableMmap`.** `ReadsWhatWasStored` (every stored byte is found,
through whichever map holds it now, and a slice ends where its append ended),
`MapsAreFew` (the merging of `rearrange_mmaps` keeps up), `IndexDescribesMaps` (the
index of bounds and the list of maps describe the same ranges), `ImplementsStore`
(the steps are those `Fraos` is built on).

**Properties of `log_map`.** `KeyNamesItsOwnValue`, `LastAppendIsServed`,
`NextIsTheFollowingRecord`. They are as strong as the code allows: two threads that
append one key may leave it at the older value, and a crash may leave it without the
value in the log, until an append of that key runs alone to its end (`stale` is the
set of keys this happened to). `NextIsTheFollowingRecord` holds of repeated keys too:
from a record of a key the walk goes on behind the last record of that key, and with
a stale key still behind one of its records. Which of two raced appends of a key wins is
promised by nothing and left open. Three records and two keys give every order of two
appends, a crash, and an append after it.

**Properties of `multiverse`.** `NeverPanics`, `TablesAgree`,
`CollectionKeepsSelection`, `TipsReachTheTop`, `ReloadRebuilds`. The instance has a
fork, a block below `store_from`, and two blocks of one number on one chain, of which
the child has the smaller key (epoch boundary blocks): loading meets it first.

**Properties of `sources`.** `SourceNeverPanics`; for `MultiverseSource`,
`StableChain` (no block is skipped or repeated), `Continues` (it can go on after a
restart) and `StableLive`; for `ForkHandlingSource`, `ForkEvents` (a block is on top
of the consumer's, a rollback goes to a block it has) and `ForkLive`. The node never
leaves the last `Depth` blocks of the longest chain it had: a confirmation depth
means that. Chains of six and of four blocks with `Depth = 2` let both branches be
collected, and a third branch leaves the others at the start; four moves of the node go to a fork and back, twice; two breaks are a lost
connection and a restart. A node that settles is required by the bound on its moves.
Fairness: the consumer keeps pulling while there is something to get, and deals with
what it gets.

**Properties of `cardano`.** `IsABlockStream` (refinement), `PullReturns`,
`StopReturns`. A response channel of two replaces 1000, so it is full with one range;
chains of three blocks with a fork, one block that cannot be converted and one that
cannot be deserialized; the node moves twice, anything else is unbounded. Fairness:
both tasks run when they can (`WF(CallerStep)`, `WF(HandlerStep)`): a network exchange
ends, with an answer or an error. None is assumed of pulls being made or dropped.

**Properties of `wallet`.** `StoresAgree`, `ChoiceIsAPartition`, `SubmittedIsValid`,
`CallReturns`. `SubmittedIsValid` is about the inputs and outputs of the transaction, not
about what an algorithm says of them, and two fields of a result that are history and no
guard reads make it exact: `again`, the inputs RandomImprove counts once more because
two equal outputs share one list, and `lost`, the halves the thermostat takes from a
change that is too small to be cut in two. With them every transaction balances in every
token; without them it balances too, and `again` needs equal outputs, `lost` a
`ThermostatMin` of at most twice the cost of an output and one. Both happen in the run: a
request has two equal outputs, and `ThermostatMin = 3`. Five outputs (the main token alone, an asset, two assets), requests that
are easy, exact, impossible, with an asset nobody has, with a fixed input, with each
estimator; two payments, so that the second starts from the changes of the first and
from the state RandomImprove kept. Fairness: `select_inputs` runs on
(`WF(Select)`).

**Bounds of fraos.** Records of one and of two bytes and the empty one (rejected); batches
of one and two records, one of them with an empty record. `DataCap` and
`IndexCap` bound the file lengths in the guards (`FitsData`, `FitsIndex`); when
they are reached only failure, reading, dropping and crashing are left.
`DataMin = 3` and `IndexMin = 2` replace 512 KiB and are small enough that an
append fits the active map, fills it exactly, and needs a new one, of the minimal
size and (in `maps`, with an append of four bytes) larger. `MaxMaps = 1` replaces
2048, so that inactive maps are merged after the second replacement. Six bytes and
four pairs allow an append, a crash, a truncation or an orphaned record, and
another append into the file that is left; `liveness` has files of nine pairs
(eight zero pairs behind one record and all mixtures) because the binary search
needs more than three turns to go wrong, and its `seqno` fills up before `data`, so
that an append can be stuck with its data written. Two writers suffice for mutual exclusion,
one of them waiting; readers change nothing another reader sees, so one is enough.
`WriterSymmetry` is used only in the run without liveness.

**Fairness of fraos.** A thread inside a call keeps running (`WF(WriterStep(w))`,
`WF(Fetch(r))`), and so does a process that opens the database
(`WF(OpenStep)`): these are the operating system's scheduling of a running
thread, with no lock to wait for except the ones whose holder is itself fair. No
fairness is assumed of calls being made (`AcquireLock`, `Seek`), of failures, of
drops or of crashes. A writer waits for `write_lock` before `AcquireLock`; that it
gets it in the end depends on the fairness of `std::sync::Mutex` and is not
claimed.

**A crash** is the death of the process: the maps are shared with the page cache,
so what was written is in the file. A power failure, after which some pages may be
on the disk and others not, is not modelled.

## 5. What is proved

### fraos

`FraosProofs` is checked by TLAPS from the assumptions `FraosAssumption` and
`StoreAssumption` only: lengths of records, capacities and minimal map sizes are
any natural numbers, the batches any set of non-empty sequences of records, the
writers and readers any sets.

* `Invariance`: `Spec => []IInv`.
* From it: `TypeCorrectness`, `Durability`, `Availability`, `Reopening`,
  `Recovery`, `ReadConsistency`, `PublishedSize`.

**The argument.** The properties speak of acknowledged records; nothing in them
says that the bytes a writer is about to write are not those of a record. `IInv`
adds what the code relies on without saying so:

* `Mutex`: the writer in a call owns the lock; nobody is in a call unless the
  database is open.
* `Shapes`: `end <= len` and the active map lies within the file, at every
  moment.
* `IndexTail`, `Entries`, `Ordered`: the complete pairs are a prefix of `seqno`,
  every length behind them is zero, every one names its record, and records lie
  in the order of their numbers. This is what a crash may interrupt at any point
  and what `find_actual_end` needs.
* `DataOpen`, `DataSize`, `IndexSize`: stored records lie before the published
  size and are not cut by a bound; `size` and `end` agree unless an append is
  between growing a file and storing its size.
* `Plan`, `DataPhase`, `IndexPhase`: the pairs a writer planned are adjacent and
  start at the published size; how far their bytes and pairs are written at each
  label of `pc`.
* `Reads`, `Promises`, `Searching`: a pair held by a reader is that of the index;
  what was acknowledged is in the log; the end of the log is in
  `(start, end]` of the binary search.

There is one lemma per action. Operators of `MmapStore` enter through contracts
(`IsResized`, `IsAttached`, `IsGrown`, `IsRearranged`), and the frame lemmas
(`DataFrame`, `IndexFrame`, `FilesFrame`, `CallsFrame`) carry what a step leaves
alone. `WriterNext` and `WriterDone` reduce a step of a writer to the three phases
of that writer.

The theorems hold with `Persistent = FALSE` as well: `Fraos` without files is the
in-memory database, whose maps are anonymous and never merged.

* `FilesAreALog`: `Spec => ImplementsAppendLog`. A client sees of the two files the
  list of their complete pairs, each with the bytes it names (`StoredLog`). `FilesSayLog`
  shows that in every state of `IInv` that list is the history `log`; then the one step that
  completes a pair (`WriteLength`) adds one record at the end, the one that publishes
  acknowledges the records of its batch, and every other step leaves the list alone.

### The growable file

`GrowableMmapProofs`, from `StoreAssumption` and `GrowableAssumption`: any minimal map size, capacity, number of inactive maps and set of
appends; with a file and in memory.

* `MapsInvariance`: `Spec => []IInv`; `ReadsAreExact`, `IndexIsRight`, `FewMaps`
  (the last for a file only: in memory maps are not merged).
* `MapsAreAStore`: `Spec => ImplementsStore`, the store that `Fraos` is built from.

**The argument.** A read searches the index of bounds, takes the map of that place in
the list, and cuts a slice from it. `IInv` says why this is the right map: `Tiles`, the
bounds in the index follow each other without a gap up to the active map; `Matching`,
index and list of maps are of one length and describe the same ranges; `OnTheFile` and
`InMemory`, a map of the file shows the bytes at its offset, and an anonymous one its
own; `ActiveIsLast`, the active map begins where the inactive ones end; `Phases` and
`Contents`, how far the append that holds the lock is, and which bytes are there at that
moment; `Few`, the merging keeps the list short. TLC finds it true with a file and
without one. The refinement maps index and list to the set of bounds at which a slice
of `StoreSpec` is cut, and the maps' windows to its content: growing adds a bound,
merging takes all but one away, and every other step stutters.

### indexed-log-map

`IndexedLogMapProofs`, from `IndexedLogMapAssumption` and `NoJobAssumption` (a writer
without a job is no job), for any keys, values, writers and length of the log:
`MapInvariance`, and from it `NoWrongKey`, `LastValueIsServed` and
`NoRecordIsSkipped`, the three properties of `log_map`; the last one for keys appended
any number of times.

**The argument.** `LastAppendIsServed` speaks of keys nobody appends; its invariant
has to say what holds while somebody does. `AloneIsAlone`: a writer that never met
another one of its key is the only one, and once its value is in the log it is the
last of that key; the key of any other writer is stale until one appends alone.
`IndexServes`: for a key that is not stale, the index leads to the last record unless
its writer is between the two stores. `DiskServes` is the same of the file while the
process works without a key index or is closed; that a crash makes stale exactly the
keys for which the file is behind (`LostKeys`) is what the step of `Crash` needs.
TLC finds this invariant true on the instance of `log_map`.

### multiverse

`ForestProofs` and `MultiverseProofs`, from `BlockForestAssumption`,
`MultiverseAssumption` and `ChainAssumption` (along a chain the numbers never fall and
no chain is a circle; the first is what `mk_sled_key` counts on, the second follows from
keys that are hashes), for any blocks, depths and age gaps: `PanicFreedom`,
`TablesInvariance`, `SelectionSurvives`, `TipsAreHighest`, `ReloadIsFaithful`, the five
properties of the run `multiverse`.

**The argument.** `Forest(m)` says of the record `m`: every entry is reached by its own
reference (`Entries`), the tables follow from the entries (`Tables`), and links agree
in both directions as long as they lead somewhere (`LinksAgree`). It says nothing of
blocks whose parent went away: they need not be roots, and in the code they are not.
What it takes to keep it is `FreshRef`: an allocation differs from those that dead links
still name, or a block that is inserted again would be the parent of the orphans of the
old one, without knowing its children. `InsertKeepsForest` and `RemoveKeepsForest`
are the two operations; the second holds for any references of a client to blocks in
memory or to removed ones.

`Load` is a fold over the keys and `ancestor` a recursion over a depth. What they
compute is shown by induction on a set of numbers (`LeastSet`, `LeastNumber`, `Induct`):
`LoadSteps` says that loading is one insertion after the other, `AncestorSteps` that
each number is one link. `LoadIsForest` needs no more than that a parent of a smaller
number comes first.

The invariant of `Multiverse` adds that the database is what is in memory from
`store_from` on, with what could not be removed (`DbAgrees`), and for a selection a
client works through: its references to blocks in memory are those of the entries
(`HeldByClient`), what is discarded is below the age gap (`OldIsDiscarded`), and there
is a way of live links from the tip up to the selected block, on which no number is
smaller (`WayToSelected`): nothing that is discarded lies on it. TLC finds it true on
the instance of `multiverse`.

### blockchain-source

`SourcesProofs`, on the lemmas of `ForestProofs`, from `BlockForestAssumption` and
`SourcesAssumption`, for any blocks, confirmation depth, number of moves of the node, of
lost connections and of restarts: `NoPanic`, `ChainIsUnbroken`, `RestartsContinue` and
`EventsLeadOn`, the four invariants of the run `sources`. `SourcesAssumption` says that a
block's number is that of its parent plus one, that every chain goes down to the start,
and that every block is stored (the multiverse is opened with a `store_from` that is not
above the first block). What happens without the first and the last is in 6.

**The argument.** A source asks the multiverse for the block `Depth` links below the
highest tip, after each insertion, and discards what is far below it. That the answer
never goes back, never jumps over a block and never changes its branch is not said
anywhere in the code; it depends on what is in memory at that moment and on what the node
may do. The invariant has three parts.

* `Kept`, with `Memory(mem, confirmed, node)`: the links form a forest in which every
  block is linked to its parent when that is there (`Linked`); memory holds blocks from
  one below the confirmed one to `Depth` above it, without a gap, and a chain of that
  height on top of it (`Window`); and what is `Depth` below a block in memory is on the
  node's chain (`SettledOn`). Hence two blocks in memory have the confirmed block in
  common, whatever forks they are on, and the selection of any highest tip is the same:
  `SelectionStays`. When a block comes in one higher, the selection moves up by one block,
  to a child of the confirmed one (`SelectionMoves`), what is discarded is all below the
  new one's parent, and memory is such a window again (`CollectLow`, `CollectHigh`,
  `InsertAndGcIs`). Loading the database gives the same window and selects the same block
  (`LoadKeeps`).
* `Requested`: the range that is being pulled goes up from a block in memory, on a chain
  through the confirmed block, and was on the node's chain (`OnStream`). `StreamIs`: a new
  request gives such a range because the confirmed block is among the points, and the
  best point the node knows is on top of it. `MovesKeepSettled`: a node that never goes
  below the last `Depth` blocks does not take it back.
* `Given` for `MultiverseSource`: the consumer has the confirmed block or its parent, or
  nothing, when that parent is the start. `Branches` for `ForkHandlingSource`: the event in
  hand and the stack below it lead from the consumer's place to the last block
  (`LeadsTo`), and some block in memory lies on the branch of the last block and on the
  requested range (`Anchored`): the confirmed one, or the one on top of the start. So
  the branches of the last block and of a new one meet in memory (`HeldAbove`), even after
  the collection that comes before they are compared, and a switch begins with a rollback
  to a block the consumer has (`SwitchIs`, `SwitchLeads`).

`Below`, `Ancestor`, the fold over an order of removal and `Load` are recursive functions;
what they compute is shown by induction on sets of numbers (`DescentExists`,
`GatherSteps`, `AncestorSteps`, `LoadSteps`). TLC finds the invariant true on the instance
of `sources`.

`CardanoProofs`, from `CardanoAssumption`: any blocks whose number is that of the parent
plus one, any slots, era, epochs of Byron, points, blocks at which the handler panics,
capacity of the channel and number of moves of the node.

* `CardanoInvariance`: `Spec => []IInv`.
* `SourceIsABlockStream`: `Spec => IsABlockStream`, the property of the run `cardano`.

**The argument.** Two tasks share channels that outlive the request they were made for,
and each task may stop at any await. What the caller takes from its channel belongs to
the request it made last because of `ChannelsOk` and `RequestsOk`: a channel nobody
receives from is empty, a new channel is neither the handler's nor the dropped one, and a
caller that is about to ask has received all that its last request will ever give
(`CallerOk`). `Content` says that at most one report of the tip is in a channel, before
the blocks; `HandlerOk`, that until the range is known the channel holds nothing else and
the point the handler keeps is the highest that was asked for, on the chain that ended in
the tip it keeps: the node may have moved since, and `InRange` is what the handler finds
out by asking. The rest is about chains: a request that names the start is made with the
genesis block and keeps the first block of the range, any other one skips it, and in
both cases what is left is the range above the best of the points (`RangeAnswers`,
`GenesisRange`). A step of the handler maps to `Promise` when the range is known, to
`Lose` when the request ends early, and to a stutter otherwise: a block that moves from
`rest` to the channel was promised before and still is (`SentAppend`). `EpochIs` shows that
the division in `absolute_slot_to_epoch` gives the one epoch whose first slot and next
first slot enclose the slot, which is how `BlockStream` states it. TLC finds the invariant
true on the instance of `cardano`.

### core and utxo-selection

`WalletProofs`. Of `Balance`: adding a `Value` and subtracting it are integer addition and
subtraction, and every integer has one representation (`PlusAdds`, `MinusSubtracts`), so
that `balanced()` is true exactly at zero. Of the store: `InsertKeepsIndexes`,
`RemoveKeepsIndexes`, and the same of many outputs in any order
(`InsertAllKeepsIndexes`, `RemoveAllKeepsIndexes`): the index of every token, its order by
value and its balance are those of the outputs; inserting an output whose pointer is
there fails and changes nothing, as does removing one that is not there.

Of the wallet, for any outputs, requests, number of payments, costs and configuration:

* `WalletInvariance`: `Spec => []IInv`; `StoresAlwaysAgree`, `ChoicesPartition`,
  `SubmittedAreValid`, the three safety properties of the run `wallet`.

The assumptions are `WalletAssumption` (finitely many outputs, amounts are naturals, an
output lists an asset once, pointers differ and lie below the next fresh one),
`CostsAreNatural` and `ConfigIsUsable` (at least one accumulator, bounds in order). None
of them keeps equal outputs or small changes out: the cases where the books and the
lists part are states of the model, and `SubmittedAreValid` says what is missing there.

**The argument.** Each algorithm keeps books of its own while it runs, in another form
than the inputs it has taken, and what it returns is computed from the books.

* `StoreOk` and `TakenOk`: stores are good, no output of the wallet has a pointer that
  is still to be given out, and what an algorithm was given is what it has chosen, each once, and what is
  left in its copy of the store.
* `LargestOk`: the two totals are what the fixed and chosen inputs have of every token.
* `RandomCallOk`: RandomImprove works with indices into a list. The available ones, the
  ones associated with outputs of the phase, and the chosen ones are disjoint and
  together are what was given (`IndicesOk`); two different outputs share no index
  (`PhaseOk`). Equal ones share all of theirs, and what a phase counts is what the first
  of each kind has and what the others have again (`AllGathered`). That indices left by an earlier call with other inputs may be out
  of bounds is part of the invariant: the first phase panics or finds them in bounds.
* `ThermostatOk`: what is due of each token is what the inputs have and neither the
  outputs nor the changes nor the lost halves (`DueOk`), through covering, regrouping, dealing with the
  excess and splitting; `StageOk` says at each stage which tokens are covered, or
  balanced, already.
* `ResultOk`: the inputs of a result are the wallet's, each once; what LargestFirst and
  RandomImprove return names the totals the balancers start from (`Unbalanced`), and what
  the balancers and the thermostat return balances, if its changes are outputs at all
  (`Submittable`): the change of `SingleOutputChangeBalancer` may be negative, and
  nothing submits that.

Sums over inputs and outputs are folds over finite sets, written as recursive functions;
that their order does not matter and that they add up over unions and concatenations is
shown by induction on finite sets (`FiniteInduct`). TLC finds the invariant true on the
instance of `wallet`, for the tokens of that instance.

### Only model-checked

Liveness (`AppendReturns`, `OpeningEnds`, `StableLive`, `ForkLive`, `PullReturns`,
`StopReturns`, `CallReturns`), which is out of reach of the provers; and the violations
of 6, with `FraosCopy`. The run `maps` has a file: without one
`GrowableMmap` has no truncation and no merging, the two operations that move bytes
between maps, and the theorems cover both.

## 6. Where the documentation and the code disagree

| run | the documentation | the code |
|---|---|---|
| `clone_dropped` | `database.rs:8` "Can be safely cloned and used from different threads" | every clone's `Drop` truncates the files under the maps of the others (`database.rs:164`) |
| `flush_fails` | `README.md:5` of fraos: an insertion is dumped "or the insertion is failed" | after a failed `msync` the end of the file has moved and `actual_size` has not; the *next* append is acknowledged and its pair names the wrong bytes (`growable_mmap.rs:190`, `appender.rs:77`) |
| `protect_fails` | `index_on_mmaps.rs:4`: a descriptor names the map | bounds join the index before `make_read_only` can fail; from then on index and list of maps are shifted (`growable_mmap.rs:166-178`) |
| `copy` | `README.md:13` of fraos: storage can be copied while it is written | a copy of `seqno` read pair after pair can hold a later pair and miss an earlier one (`seqno.rs:59`) |

Two more remarks that need no run: the bytes of an append whose index could not
grow stay in the data file (`database.rs:98-99`) although `flatfile.rs:7` says
"without any additional spaces"; and more than `MAX_MMAPS_COUNT` maps do not become
one (README.md:110 of fraos) when there is no file (`growable_mmap.rs:280`).

Met while modelling the other libraries; the properties above are stated so that
they hold of the code as it is, and name these cases:

* **multiverse.** `lib.rs:72-73`: the first selected block "will conserve its place" is
  not so, the selection goes by number and then by the order of a `HashSet`. Blocks of
  equal number on one chain make it depend on that order too.
* **MultiverseSource.** A consumer that starts from a point and whose process dies
  before the first confirmed block was dealt with is refused ("non continuous pull")
  for ever; one that starts from `None` asks for the tips of the multiverse only, and
  is stuck when the node leaves them. sled may lose unflushed blocks: a consumer
  ahead of the multiverse is refused as well. Blocks below `store_from` are gone after a
  restart: with a multiverse that keeps such blocks in memory only, the consumer is given
  a chain with a gap, or refused (`SourcesAssumption` leaves that out). So are two blocks
  of one number on one chain, between which the selection depends on a `HashSet`.
* **ForkHandlingSource.** Events on the stack are not produced again after a restart
  (`rollback.rs:96`).
* **CardanoSource.** `clear_buffers` is documented to receive and discard the rest of an
  ongoing request before a new one is served (`cardano/mod.rs:157`); the send of the
  next block fails, the connection is dropped and made anew. `pull` documents two cases of `None` (`cardano/mod.rs:49`); a failed
  connection and an empty range are two more. A block that cannot be converted is
  an error in its place and the stream goes on behind it. `absolute_slot_to_epoch`
  divides slots by seconds, which is right while a slot lasts one second.
* **Thermostat.** The result may pay less than `min_required_fee`, although the comment at
  `thermostat.rs:503` wants the fee covered: regrouping adds a change after
  the main token was covered, and the cut to `thermostat_max` takes its fee from the
  balance; `SubmittedIsValid` asks for the fee only of the balancers. With a small
  `native_utxo_thermostat_min`, `split_accumulators` loses half of an asset when its
  change cannot pay for a second output (`lost` in `SubmittedIsValid`).
  "Unbalanced ada" is returned after `available_utxos` was replaced.
  `remaining_number_inputs_allowed` takes fees for sizes and divides by zero with the
  dummy estimator. A fixed input with an asset the store never held panics.
* **RandomImprove.** `set_available_inputs` drops the new indices; the old ones may be out
  of bounds (a panic) or name nothing. Two equal outputs share one list of inputs and
  are counted twice, so that the change a balancer makes has too much (`again` in
  `SubmittedIsValid`). An output that needs nothing is an
  error. The last phase does not count the fee.
* **SingleOutputChangeBalancer.** The change may be negative; only the conversion to coins, or
  an estimator that makes it, refuses. Neither balancer looks at the smallest amount
  an output may hold.
* **ThermostatFeeEstimator.** `add_protocol_magic` replaces the size instead of adding
  to it.

`Fraos` itself leaves out the faults of the first three, so that what it shows
holds for every other behaviour: the proofs are about a database with one handle
(or clones that live as long as each other) whose flushes and `mprotect` calls
succeed.

## 7. Not modelled

In fraos:

* Wording of errors, `Display`, the `unsafe` pointer arithmetic of `SharedMmap`
  below the level of windows, address space limits.
* `set_len` failing during drop: ignored by the code, and the files are then what
  a crash at that point leaves (`Crash` in `"open"` or `"dropping"`).
* `file_readonly`: it opens with the same steps; its appends fail in `set_len`.
* Poisoned locks: a panic while a lock is held. The closures that run under the
  locks cannot panic in the states that are reachable.
* An iterator that outlives the last `Database`: it keeps the maps, which the
  truncation at drop cuts behind the data only.

In the other libraries:

* sled, the network protocol, the transaction builder: external, modelled by what
  the code uses of them. A crash of sled's file is an older file, in the order of
  the writes.
* Events that report the tip of the chain, which both consumers pass on unchanged.
* `time.rs` besides `absolute_slot_to_epoch`: no caller.
* `Value`: decimal scaling, parsing, formatting. Quantities of tokens are naturals
  with `Value`'s truncating division where the algorithms halve.
* Script witnesses in `CmlFeeEstimator`; multisig plans, credentials, addresses and
  network identifiers of `cardano-utils`: conversions without state.
* A UTxO that lists one token twice (`utxo_store.rs:325`): the store adds it twice and
  removes it once. The ledger has no such output.
* `cardano-cli-tools` (command lines), `deps` (re-exports), identifiers of `core`
  (newtypes).
