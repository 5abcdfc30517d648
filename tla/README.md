# A verification of icann-rdap in TLA+

The repository holds four crates: `icann-rdap-common` (RDAP structures, IANA
registries, checks), `icann-rdap-client` (HTTP, bootstrap, rendering),
`icann-rdap-cli` (the commands `rdap` and `rdap-test`) and `icann-rdap-srv` (an
in-memory RDAP server with its tools). This directory models the parts whose
correctness depends on order, concurrency and failure, and the conversions and
decisions that data goes through on its way from a registry to a reader. It
checks them with TLC on small instances, and proves the safety properties of the
store, the server, its request handlers, the client's retries and the command
line client with TLAPS for all instances. Paths below are relative to `src/`.

Contents: [inventory](#inventory), [modules](#modules), [runs](#runs),
[proofs](#proofs), [findings](#findings), [assumptions](#assumptions-bounds-and-fairness),
[what is not modelled](#what-is-not-modelled), [plan](#plan).

## Inventory

| Component | State | Operations | Hard behaviour | What makes it correct |
|---|---|---|---|---|
| Store (`icann-rdap-srv/src/storage/mem/ops.rs`, `tx.rs`) | nine tables, each behind a tokio `RwLock`; the open transactions with their copies | `new_tx`, `new_truncate_tx`, `add_*`, `commit`, `rollback`, `get_*`, `search_*` | locks taken one by one, requests cancelled by a timeout | commits are atomic, nobody starves, no commit is lost |
| Data loading (`storage/data.rs`) | `last_time` of the reload task, the files of the data directory, two trigger files | `load_data`, `reload_data`, `trigger_update`, `trigger_reload` | files that change while they are read, triggers that come too early or together, a task that dies of an error | what is in the directory is served in the end, a trigger is honoured |
| Server bootstrap (`bootstrap.rs`) | cached registries, the templates made of them, `new_data` | the pass `process_bootstrap`, first before the load and then every minute | crash between cache and templates, errors half way, writes under a running load | templates are those of the cached registry |
| Server start (`server.rs`) | which tasks run | `start_server`, `init_data` | crash and restart at any step | comes back, serves everything |
| `rdap-srv-store` (`bin/rdap-srv-store.rs`) | files to copy | validation, copy, trigger | another process writes into the data directory | the server never rests on an older copy |
| Label search (`storage/mem/label_search.rs`) | a trie of labels | `insert`, `search` | partial labels, wildcards | equals the plain definition of the search |
| Request handlers (`icann-rdap-srv/src/rdap/*.rs`) | none of their own | lookup, redirect, search | several lookups in one request, commits between them | an answer is one that some state of the data gives |
| HTTP client (`icann-rdap-client/src/http/wrapped.rs`) | tries, wait | send, retry on 429 | nonsense in `retry-after`, bounded tries | bounded requests and waits, an answer or an error in the end |
| Data generator (`bin/rdap-srv-data.rs`) | the files it writes | make an object, a template or a redirect; name its file and its links | names that collide, files the server cannot load | what it writes loads, and its links lead back |
| Cache expiry (`icann-rdap-common/src/httpdata.rs`) | header data | `is_expired`, `should_cache` | three sources that disagree | nothing older than any of them allows is shown |
| Bootstrap client (`icann-rdap-client/src/iana/bootstrap.rs`, `icann-rdap-cli/src/dirs/fcbs.rs`) | registry cache in memory or on disk | has / put / get a registry | expired and torn copies, two queries at once | an answer comes from an unexpired registry |
| Registry matching (`icann-rdap-common/src/iana.rs`) | none | match a domain, number, address or tag | longest match, boundaries | most specific entry |
| CLI query (`icann-rdap-cli/src/bin/rdap/query.rs`, `request.rs`) | response cache | registry and registrar request | the referral fails | what was received is shown |
| Query types (`icann-rdap-client/src/rdap/qtype.rs`) | none | classify a text, make its path | texts that could be several things, reserved characters | the server decodes what was typed in |
| CLI test (`icann-rdap-cli/src/rt/exec.rs`, `bin/rdap-test/main.rs`) | the runs of a test | registry, referral, DNS, then two runs per address | skipped and failed runs | every address is tested, the exit code tells what was found |
| Checks (`icann-rdap-common/src/check`) | none | walk, filter | classes and nesting | no flaw is lost at any depth |
| Responses (`icann-rdap-common/src/response`) | the object that is built | builders, `to_child`, self links | objects put into each other | what is built conforms |
| Contacts (`icann-rdap-common/src/contact`) | the contact that is written | setters, `to_vcard`, `from_vcard` | two conversions written apart | what is said is read |
| Redactions (`icann-rdap-client/src/md/redacted.rs`, `rdap/registered_redactions.rs`) | none | mark redacted values, hide registered ones | paths into nested objects, marks that break a type | marks where redactions say so, nowhere else |
| PostgreSQL store, layout of the output, configuration | - | - | none: unimplemented, or wording | - |

How they interact: `start_server` runs one bootstrap pass, spawns the bootstrap
task, loads the data directory into the store and spawns the reload task; the
two tasks and `rdap-srv-store` then meet only in the data directory (files,
cache files, trigger files); requests and loads meet only in the store, and
`rdap-srv-data` writes into the directory with no trigger. The commands `rdap`
and `rdap-test` share the classification of a query, the registries and their
cache with the client crate; both run the checks of the common crate over what a
server answers, and what a server answers was made by that crate's builders.

## Modules

* `AtomicStore` - what the store promises its callers (`StoreOps`, `TxHandle`
  in `storage/mod.rs`): a transaction starts from a copy or from nothing, a
  commit replaces all tables in one step, a lookup reads one table in one step.
* `MemStore` - the same with its locks. `queue[t]` and `ahead[t][p]` are tokio's
  fair queue of the lock of `t`; `pc`, `at` follow each transaction through
  `MemTx::new` (`NewTx`, `CopyDomains`, `AskRead`, `CopyTable`, `DropRead`),
  `add_*` (`Add`) and `commit` (`Commit`, `AskWrite`, `SwapTable`, `DropWrite`),
  and each request through its lock (`Lookup`, `Read`, `Return`), or out of the
  queue when the ten-second timeout drops it (`Timeout`).
  Two facts of the code decide the shape of `MemTx::new`. The lock of the
  domains is a guard in a block of its own (tx.rs:37-45) and is given back
  before the next lock is asked for. The other read locks are temporaries of
  the function's last expression, the struct literal (tx.rs:47-58), so that
  they live until the function returns: all of them are held together.
  `commit` (tx.rs:287-321) binds its write guards to names and holds all of
  them to its end, in which `std::mem::swap` has put the new tables in place one
  by one. The content of a table is the set of the transactions whose additions
  it holds: enough to tell an old, a mixed and a current copy apart.
* `MemStoreProofs`, `MemStoreDataProofs` - its proofs.
* `DataDir` - the data directory: files, trigger files, modification times. A
  write truncates first and fills later; in between the file is `Torn`.
* `DataLoad` - `load_data` and the reload task `reload_data`, which compares
  two trigger files with one `last_time`.
* `SrvBootstrap` - `process_bootstrap`: per registry the cache, the download,
  the removal of the templates made before, the new templates, errors at any of
  these, and the trigger at the end.
* `RdapServer` - composes the last three with the start of the server, crashes,
  `rdap-srv-store` (the copy and the triggers), and the outside world: IANA
  publishes, cached copies expire. `RdapServerProofs` - its proofs.
* `HttpRetry` - one request of the client, `wrapped_request`: sent, answered,
  asleep because of a 429, sent again, and every way it ends. `now` runs in
  fractions of a second, as the cut of a date's distance to whole seconds
  (`NumSeconds`) and its cast to `u64` (`AsU64`) are where it can go wrong.
  `HttpRetryProofs` - its proofs.
* `RdapCli` - invocations of `rdap` on the caches of one user. `file` holds the
  registries' and the responses' cache files; a write truncates and then fills
  (`Truncate`, `Fill`), two writes at once may leave a mixture. An invocation
  runs through `get_base_url` (`HasRegistry`, `FetchRegistry`, `PutRegistry`,
  `RegistryPut`, `GetUrls`; with a hint once per registry), `do_request`
  (`ReadCache`, `Send`, `SaveStarts`, `Saved`, the last two also for the self
  link) and `do_domain_query` or its siblings (`Refer`, `NoRegistrar`,
  `Finish`). `--reset` is `Remove` and `ResetDone`. `RdapCliProofs` - its proofs.
* `LabelSearch` - the search index: one prefix tree per suffix, and the refusals
  of a search, with characters of one and of two bytes, as the code compares a
  position in bytes with one in characters.
* `StoreContent` - what the tables hold, as a function from slots (a table and a
  key) to objects and redirects: the additions of a JSON file, a template or a
  help file (`load_rdap`, `load_rdap_template`, `load_srvhelp`), which slots each
  `add_*` of `MemTx` writes, and what each lookup of `Mem` finds, the longest
  prefix of a network and a number's range included.
* `SrvData` - `rdap-srv-data`: which objects, templates and redirects a run
  makes, what it refuses, and the name of the file.
* `RdapServing` - one request at a time through the handlers of
  `icann-rdap-srv/src/rdap`, a step per lookup, while loads commit and files are
  written or removed. `due` is what the request should get by the data as it
  came in, `stands` whether every commit since left that as it was. A commit is
  one step because `MemStore` is proved to implement `AtomicStore`. Each of the
  tables' locks is given back between two lookups. `RdapServingProofs` - its
  proofs.
* `DnsNames`, `QueryTypes`, `Registries` - texts as sequences of tokens; what
  a query is taken for and the path it gets; which service of a registry serves
  it. `Responses`, `Checks` - a response is a record of the members it has, where
  `IllTyped` stands for what serde cannot read; the checks of every class with
  the walk over what is nested.
* `RdapTest` - `rdap-test` from its arguments (`ReadArguments`) over the
  registry (`FetchRegistry`, `RegistryFails`, `LookUp`), a referral (`Chase`)
  and the DNS (`Resolve`) to the runs (`Run`), the report and the exit code
  (`Report`, `OutputFails`). What the network may answer is part of the `world`.
  `runs` has all runs of the addresses once these are known, as skipped, which
  is what the code makes a run before it asks (`results.rs:227-250`); `at` is
  the one the two loops come to next. `RdapTestProofs` - its proofs.
* `Contacts`, `ResponseBuilders`, `Redactions` - the setters and the two
  conversions of a contact; the builders; the marks of redacted values. A place
  is the sequence of the members and indices that lead to a value, and the JSON
  path of a redaction is the set of the places it matches.
* `RdapRecord` - composes these three with the checks and the cached copies of an
  answer. The author writes a contact (`Write`), builds (`Build`), nests
  (`Nest`), links (`Link`) and publishes (`Publish`), again and again; the reader
  gets an answer (`Fetch`) or a copy (`ReadCopy`) and is shown it (`Show`) while
  time passes (`Tick`). `said`, `place`, `excuses` and `served` are histories.
  `RdapRecordProofs` - its proofs.
* `MC...` - values of the constants for the module of that name.

Every action is the whole of a step between two points where another process
can get in: an await of a lock, or a call into the file system.
Operators called `...Leaks`, `...Early` and so on, each under a comment that says
it is a slip, are variants of an action with one plausible mistake; no
specification uses them. They show that the properties would see the mistake.

## Runs

| Run | Asks | Result |
|---|---|---|
| `mc_store` | nine tables in the orders of the code, two transactions open at once, one request, fair scheduling | store implements `AtomicStore`; commits take turns; the tables that are copied under locks held together agree; every operation returns |
| `server_safety` | two registries (one with three versions, the second malformed), the store tool, one crash | templates match the cached registry; a server at rest serves all that is in its directory |
| `server_live` | one registry, the tool, one crash, fair scheduling | the server comes back, a published version is served, a trigger is honoured |
| `lost_reload` | reload trigger, update trigger, fair scheduling | a violation, see [findings](#findings) |
| `http_retry` | every header kind with any status, answers and wake-ups that are late, two retries, a clock of three ticks a second | waits and tries are bounded, a retry is welcome, the caller gets a result |
| `past_date` | the same with a default below the maximum | a violation, see [findings](#findings) |
| `rdap_cli` | two invocations, each one of ten option sets, one kill, one expiry, fair scheduling | answers stay apart, success is true, `--no-cache` keeps off the responses, undisturbed caches work, every invocation ends |
| `registrar_only` | one invocation | a violation, see [findings](#findings) |
| `rdap_serving` | six directories, twelve runs of the generator, nineteen queries; one write and two loads beside a request | answers stand, the three tables of domains agree, links lead back, redirects are served, writes load, requests end |
| `rdap_test` | documents with one flaw at each depth, 32 values against registries with overlapping entries, DNS answers of both families, options and groups | the right server gets the right path, every address is tested, the exit code tells |
| `rdap_record` | four authors: of contacts, of objects put into each other, of redactions, of caching policies; two URLs, two limits | what is built conforms, contacts survive, what is shown stands and is marked as its redactions ask |
| `phones_added` | the author of contacts | a violation, see [findings](#findings) |

What the properties exclude is as telling as what they say:

* `OperationsReturn` is checked with two transactions open, so that two processes
  hold some locks and wait for others: if `new` took its locks from the last to
  the first (the slip `ReadLockFromLast`), a transaction that copies and one that
  commits would wait for each other for ever.
* `UpdatesBuildOnCommitted`, that no commit is lost, is no property of a run: it
  is true of one open transaction at a time, which is how the server loads its
  data, and proved of that (`NoCommitLost`). With two, a second commit overwrites
  the first, and a commit that falls between the copy of the domains and that
  of the other tables leaves a transaction with parts of two commits.
* `TemplatesMatchCache` leaves out the registries in `cutShort`: those where a
  crash or an error caught a pass between the cache file and the last template.
  For them the cache says the registry is fresh and the templates are partial
  until the copy expires.
* `NothingUnserved` leaves out what came with a trigger the reload task could
  not see (`untold`): `last_time` starts as the time at which the task first
  runs, so that a trigger between the listing of the directory by the initial
  load and that moment is ignored.
* `RegistryServed` and `TriggersHonoured` leave out that a task has died: any
  error of a load ends the reload task and any failed download the bootstrap
  task, both silently, as neither is awaited.
* `ComesBack` leaves out a cache file that a crash left empty (`init_bootstrap`
  fails on it at every start) and a registry that IANA publishes malformed.
* `TriesBounded` needs `MaxRetries < U16 - 1`: `tries` is a `u16` that is
  compared after it is counted, so that with the largest `max_retries` it wraps
  around (where overflow is checked it panics) and nothing ends the retries.
* `RetriesWelcome` gives up where the server asks for more than the maximum.
  It needs the second that the code adds to each wait: a sleep of
  `num_seconds()` alone ends before the date.
* `UndisturbedWorks` speaks of caches that invocations used one after the other,
  none of which was killed in a write. Otherwise an invocation can find an
  empty or a mixed file, which is an error and not a missing copy: for a
  registry in `has_bootstrap_registry`, for a response in `do_request`. As the
  file is read before the server is asked, every later query that needs it
  fails too, until `--reset`.
* `NoCacheBypasses` speaks of responses. The registries are cached all the same.
* `SuccessShows` says nothing of failures: with JSON output, which is written at
  the end, a registrar that does not answer costs the registry's answer too.
* `AnswerStands` is about requests that no commit concerns. One that does may
  be answered by two versions of the data: the LDH name of the one and the
  redirect above it of the other.
* `AnswerStands` takes `Due` for what is right, and `Due` has the code's order:
  a domain that is stored as an error which is no redirect (a 410, say) is
  replaced by the 404 of the IDN table (`rdap/domain.rs:33`).
* `TablesAgree`, `SelfLinksLead` and `RedirectsServed` speak of a directory that
  names nothing twice and was loaded from nothing (`CleanDir`). After an update
  a redirect leaves the domain it replaces in the index and the IDN table
  (`add_domain_err`), and of two files that name the same object the one that is
  listed last wins, for AS numbers also where ranges overlap.
* `WritesLoad` is about runs of `rdap-srv-data` and removals of files.
* `RightServer` leaves out, for domains and nameservers, where the longest listed
  end of a name begins within a label (`LabelsDecide`). There the code takes the
  wrong server: `ends_with` (`iana.rs:84`) compares bytes, so for a name under
  `xn--54b7fta0cc`, if only `cc` is listed, the client asks the server of `cc`
  where there is none to ask. `TokenEnds` says which token is the end of which,
  `EndsIn` matches within them, and the run's registry has such names, one
  that is not listed (`xn--54b7fta0cc`), one that is (`xn--uni`, beside `ni`) and
  one below a listed domain (`barfoo.net`, beside `foo.net` and `net`). Without
  `LabelsDecide` TLC finds the first of these at once; no doc, comment or test of
  the repository says what should happen, so it is no finding. What is
  claimed is that the longer entry wins over all services, whichever is read
  first. A name with a trailing dot finds no entry but the root's.
* `QueryReaches` leaves out a domain of dots alone: `trim_leading_dot` leaves
  nothing of two dots, and the path `domain/` has no handler.
* `ExitTells` counts the flaws an object has by itself, as the whole of a
  response; the entities in it are objects of their own, found on every level
  there may be. The walk does not come to nested nameservers, networks and numbers,
  and an entity in an entity that is the whole response is reported for a missing
  conformance it should not have: `Common::get_sub_checks`
  (`check/types.rs:211`) compares types where it means identities.
* `ExpectedDeclared` is about what is asked for in the end; an alternative such
  as `foo1|foo2` on the command line is refused without
  `--allow-unregistered-extensions`, as it is looked up undivided.
* `BuiltConforms` leaves out what the builders leave to their caller, each under a
  name in `ExcusesOf` and `Nest`: IDNs, errors, redirects and empty searches are
  built without a conformance; an object that is put into another without
  `to_child` keeps its own (the server's search results do,
  `storage/mem/ops.rs:176-198`); an IPv6 network's CIDR is read as one of IPv4
  without a prefix, as `Cidr0Cidr` is untagged (`response/network.rs:11`); an
  entity in an entity is taken for a root.
* `ContactSurvives` names what is lost: the fourth line of a street, contexts
  nobody knows, empty texts. It compares the phones that the contact has with
  those that are read; that the setters drop phones is the finding `phones_added`.
  Nothing is claimed of a `full_address` that is no quoted text: `to_vcard` parses
  it as JSON, so that an ordinary address makes it panic
  (`contact/to_vcard.rs:129-132`, the outcome `Panic` of `Build`), and JSON that
  is no string (`123`) is written but read back as none.
* `ShownStands` is about what is shown: made of an answer that is still good,
  marked once, not of a marked copy. Of the text it speaks of the rows of the
  values that a registered redaction is about, and of no more. With `Registry
  Registrant ID` redacted the handle of the registrant is still in the header of
  the entity (`md/entity.rs:30-35`, `325-343`), in its summary and in that of the
  domain it is in; that of a domain without a name is in the domain's header
  (`md/domain.rs:229-238`). The parts of a name (`md/entity.rs:171`) and the label
  of an address (`291-296`) are shown whatever is redacted. `EntityText` and
  `DomainText` have these (`header`, `summary`, `parts`, `label`), and the run has
  documents in which they tell what the row hides. A `max-age` beyond what chrono
  can add, or a redaction that marks the class of an object or a method, makes the
  client panic instead. An older copy may be shown after a newer answer, if that
  was not to be kept and the first ask had the shorter `--max-cache-age`. A
  redaction of the registrant's phones also hides those of a technical contact.
* The names by which redactions are recognised are taken of the record that is
  shown, that is, after the marks: a redaction whose path comes to the name of
  another one (`$.redacted[*].name.type`) or to the roles of an entity marks these
  too, after which `registered_redactions.rs:68` knows the redaction, or the
  entity, no longer and hides nothing. `MarksAsNamed` counts these marks as asked
  for.

## Proofs

`MemStoreProofs` proves type correctness (`TypeCorrect`) and that commits take
turns (`TurnsTaken`). Neither is inductive. The invariant `LockInv` adds:
the requests for a lock form a line (`InLine`: `ahead` orders the members of a
queue totally), `at` counts within the lock orders (`Counted`), and every
process is in exactly the queues its label says, with a granted request where it
says it holds a guard (`Queued`). From the first part two processes cannot both
have granted requests for a lock if one of them writes (`WritersExclude`); all
commits hold `CommitOrder[1]` from their first swap to their last guard, hence
they take turns. Each action has a lemma, and `OneMoves` reduces it to the
process that moves.

`MemStoreDataProofs` proves `SnapshotsAgree` from `DataInv`, which adds that a
snapshot's copies so far are what is committed (`SnapshotCurrent`): its first
lock is `HeldOrder[1] = CommitOrder[1]`, which keeps every commit out. This is
an assumption on the constants (`OrderAssumption`), the one property of the two
orders in tx.rs that the store's consistency rests on. `NoCommitLost` adds the
hypothesis `MaxOpen = 1`, which is how the server loads its data (one
transaction from `new_tx` to `commit` or `rollback` in `load_data`): then what a
transaction copied is what is committed until it swaps itself, and
`UpdatesBuildOnCommitted` follows. With two transactions open it is false.

The second half of `MemStoreDataProofs` proves `StoreIsAtomic`, that `MemStore`
implements `AtomicStore` under the mapping `db <- Committed`, where a commit's
swaps count all at once when the last one is done.

`HttpRetryProofs` proves type correctness (`RetryTypes`) and the bounds of a
request: `WaitsAreBounded`, `TriesAreBounded` and the action property
`RetriesComeInTime`. `RetryInv` adds that the clock stands still while an answer
is handled (`Fresh`), what the end of a wait is worth against the answer that
caused it (`Sleeping`), and that `sent` is `tries + 1` (`Counted`). The
arithmetic is in lemmas: `WaitRange` (a wait is in `0..MaxRetrySecs` whatever
the header), `DateReached` (the truncated difference and one second more reach
the date, also where the difference is cut to zero or negative), `WaitReaches`
(both together). They hold for any widths, options, clock and headers.

`RdapServerProofs` proves type correctness (`ServerTypes`), `TemplatesComplete`
and `RestServes`, for any files, registries, versions and bounds. Three
invariants build on each other. `Shape` says how the start of the process and
its two tasks go together, that no version is anywhere before it is published
and no time is read before it is stamped. `Made` says what the template files of
a registry are at every stage of the pass that makes them: those still to be
removed, those removed, those made so far. `Told` is what `NothingUnserved`
needs while the server is not at rest: a file that is not served is one that the
load under way will still read, or a trigger that the reload task has not looked
at will make it load, or a pass or a tool that is under way will still set one,
or it came `untold`. Each action has a lemma per part.

`RdapCliProofs` proves all safety properties of `RdapCli`: `CliTypes`,
`ShownFits`, `SuccessMeans`, `NoCacheMeans` and `UndisturbedMeans`, the last two
action properties. `CliInv` has three parts: `Values`, of which the important one
is that a response in the cache fits the URL it is filed under, for
whoever filed it; `Course(p)`, what an invocation has received and shown at each
of its steps, for one invocation whatever the others do; and `Sound`, which ties
the invocations together: as long as nobody disturbed the caches, one of them is
under way and the torn files are exactly those it is writing.

`RdapServingProofs` proves `ServingTypes`, `AnswersStand`, `DomainsAgree`,
`SearchFinds`, `WritesCanLoad`, `RedirectsAreServed` and `SelfLinksLeadBack`, for
any queries, directories and runs of the generator. `ReqInv` is the part for the
request. It says where the answer that is due can still be,
given what the lookups so far have not found: `Ahead` (it is not behind the
current step), `Climbing` and `Further` (a handler that walks up a name has
passed exactly the parents between the name and its slice) and `StillDue` (what
was due is due). The climb ends because the parents of a name are ordered by
their dots: `NextPlace` and `NearestRedirect` say that the next parent is the
nearest one of those left. `StoreOK` and `Fresh` are the part for the store: an
entry of a table has the key of its object, and what is in the domains, the IDN
table and the index comes from the files. A load is defined by what it results
in, not as a loop: of the additions that write to a slot, the one put in last
stands. `LastAddition` and `LoadedFrom` derive from this what each slot holds
after a load, whatever the order of the files. Where an induction was needed
(over the files of a load, over the places of a name), the proofs take the least
or the greatest number with a property instead (`LeastNumber`,
`GreatestNumber`, from the well-foundedness of `<`).

`SearchFinds` has hypotheses: domain search by name is enabled, and no file has
a domain whose name ends with a dot (`NoLastDots`). Without the second it is
false: `a` and `a.` are two keys of the table of domains, but the empty suffix
after the dot of `a.` is the root of the index (`label_search.rs:18-36`), where
both are filed under `a`, so that one of the two is not found. The run's
directories meet both hypotheses.

`WritesCanLoad` needs no invariant: a step that writes a file writes one whose
additions all succeed (`MadeAdds`). `MadeIdUsable` shows of each class that the
key which the generator makes has what an addition needs, and of a network that
its range is not empty, since a template with an empty one panics
(`data.rs:531-552`). That is arithmetic for any number of bits: every address is
in a block of any length (`InBlock`, `NetworkAround`), and of the networks inside
the range of a network it is the only one that covers it (`SubnetsOfOne`, because
`Pow2Increases`). `Pow2` is a recursive function; that it exists and what it
gives is proved by `NoneFails` (no least number fails). The proof showed that
`Refused` had left out that `make_domain` refuses a U-label without an A-label;
without that, the file would have a domain with no name.

`RedirectsAreServed` says that a redirect which a file of a clean directory makes
is the answer due to a query of its key; `AnswersStand` says that the handlers
give it. It has a hypothesis about the files, `RedirectsMeant`, which excludes
the cases in which it is false: a status code without a location
(`LocationCodes`), a domain name that no query has in this form (it is in upper
case, or ends with a dot), a nameserver right under the root, for which no query
may ask, and a range of nothing. `KeyedAdditions` shows that whatever a file adds
is filed by the key of its object, `AdditionStored` that in a clean directory
nothing else stands in its slot after the load, and `LongestIsOwn` that the
longest prefix found for a stored network is the network itself.

`SelfLinksLeadBack` says that the link of a stored object, when a client follows
it, is the query of just that object. An object of a template got its link by
`change_self_link` (`data.rs:417-434`), which cuts the old one with
`rsplit_once` at the last place where the name of the class stands. The proof
needs that this place is not in the old object's own key (`Alone`: the link of a
domain with `domain` in its name would be cut there), that links
in files are those of their objects, and that keys are as queries have them
(`LinksMeant`, `KeyMeant`). `Relinked` is the step about `rsplit_once`;
`LinkTells` and `LinkParts` say how a link is read. The run's directories and
arguments meet the hypotheses of both theorems.

The proof of `AnswersStand` found a flaw in what it was about: `Due` compared
responses only, so that a commit that moved the same response from the IDN table
to the table of domains, between the lookups of the two, counted as no change,
while the handler may find it in neither. `Due` now tells where a response is
found, and `AnswerStands` speaks of requests for which that stands. The handler
behaves so (`rdap/domain.rs:22-46`); it is what the locks given back between two
lookups cost.

`RdapTestProofs` proves `TestTypes`, `AddressesTested` and `ExtensionsDeclared`
for any values, options, registries, DNS answers and server answers. `TestInv`
has four parts besides the types: `Plan` (the runs are two of each address, the
v4 ones first), `Turns` (`more` says whether the next run is one of the first
address of its family, if one is enough), `Results` (the runs made are those
before the next one that no option skips) and `Findings` (the checks of a run
have those of its answer, and the one for an expected extension it lacks; a test
that ended with 0 or 2 had no check of the classes that its code denies).
`Turns` is what the code's single flag for two
loops rests on: `MoreStep` shows that putting it up again between the loops makes
it right for the first v6 address, also if there is no v4 one. `ExpectedDeclared`
needs of the long list of checks only the class of one of them.

The second half of `RdapTestProofs` proves `ServerIsRight` and `Reached` for all
registries and values. The invariant is small: `Asked` says that the query is
what was parsed of the value and that the URL, before a referral, is the one of
the look-up. The work is in what the operators give. A look-up chooses the
longest of the entries that match, the first or the last of these; that there is
one rests on `Foremost`, that an order on a finite set has an element which
nothing is beyond: one with fewest beyond it. From it follow `DnsFinds`,
`IpFinds`, `AsnFinds` and `TagFinds`, one for each kind of registry, and of the
URL `FromList`, that it begins with a URL of the service, one with https if there
is one. Which entries of names are longer is an order by `EndsAssumption`
(`LongerOrders`), and by `LabelsDecide` the longest is one that the name is under.
`UnderEnds` and `AfterLastEnds` say that what a name is under, and the
tag of a handle, are ends of it, also with cases folded. For `Reached`,
`DecodedEncoded` shows that a text comes back from its encoding as it was, in
one segment, since "/", "?" and "#" are among what is encoded; `Routes` and
`NetworkRoutes` put this into the path of every class, and `PathIs` says which of
them a query takes. Entries, ends and encodings are defined by sets and functions
on places, without a recursion; in return these proofs need no induction.

Its last part proves `ExitTells` as `CodeTellsOfObjects`, for documents of any
shape and depth. With `Findings` it is a matter of what the walk over one answer
finds. The property's walk goes down level by level from all the results of an
answer at once, the code's from each object by itself; `LevelsAre` shows that the
functions which go down exist, `ObjectsAre` that both come to the same entities,
by `NoLeast` (there is no least level at which it fails). Of an object,
`WholeIs` says which members it keeps as a response of its own, `ReadAlike` that
the checks read these alike, `PartsFound` and one lemma for each class
(`DomainAlike` and the others) that nothing else is found of it than where it
stands, but for one note: the checks of a link that leads elsewhere depend on the
class of the root (`LinksFound`). That note is in no class an exit code denies.
The attempt corrected the property, which had counted the entities of an object
to it: an entity in an entity is found to lack a conformance if the outer one is
the whole response, and not if it is in a domain. The run has such documents now.

`RdapRecordProofs` proves `RecordsServed` and `ShownRecordsStand`. `RecordInv`
has three parts: no answer is from the future (`AnswersBefore`), a copy is that
of an answer the server gave, is as old as it and may be kept (`CopiesServed`),
and what is shown was made of an answer that was good then (`ShownServed`).
`CopyStillGood` compares the order of the answers in `is_expired` with what
they are to mean. Of a shown document, `TextsHide` shows that the rows of its
domain and entities tell nothing that a registered redaction is about:
`AboutIsRuled` finds the rule of the redaction, `SaidHasRole` the object it is
about and `HiddenIsNotTold` the row. This has no hypothesis, as it starts from the
record as it was marked. What the fold `Marked` does to the places of one
document, one redaction and one path after the other, is `MarksAsNamed`, which the
run checks and nothing proves.

What the theorems assume: of the store, `OrderAssumption` (the orders list tables
without repetition; commit's is complete; new's is complete but for the domains
and the index; both start alike), and that transactions and requests are
different processes; they bound neither the number of tables nor that of
processes, and only `NoCommitLost` uses `MaxOpen`. Of the server,
`RegistriesAssumption` and `FilesAssumption` (different registries make different
template files, none of which is one that the tool copies). Of the command line
client, that its registries and answers are registries and answers. Of the
request handlers, that queries are texts of a known kind, that lower case is a
function on characters, that the files in the directory and the arguments of the
generator are well formed (`FirstDirAssumption`, `ArgsAssumption`; an object of
the generator has the key that its class is filed by, a CIDR a version and a
length), that no U-label or A-label is empty (`ALabelsAssumption`), that the base
URL is a text (`BaseUrlAssumption`), and that different numbers and different
networks are written differently (`TextsAssumption`). Of `rdap-test`, that the
DNS answers with addresses and that a request fails with one of the failures
there are (`WorldsAssumption`), that a registry is lists of lists of texts with
no empty URL (`ServicesAssumption`), that to be the end of a token is
transitive and no token is an end of itself (`EndsAssumption`), that a text has
no token that is an encoding, encodings are different and the ends of a segment have one
(`EncodedAssumption`; "%" itself is encoded, so that what looks like an encoding
in a value is none), and of the parsers of addresses, networks and numbers that
what they parse is written as a text that they parse as the same
(`AddressesAssumption`, `NetworksAssumption`, `NumeralsAssumption`, where a
number is a token of its own). Of a record's reader and servers, that limits,
ages and dates are numbers (`LimitsAssumption`, `PoliciesAssumption`).
All bounds are any natural numbers.

Only model-checked:

* the liveness properties: liveness under fairness is beyond the prover;
* `BuiltConforms` and `ContactSurvives`: documents and contacts nest, and what
  the builders, the conversions and the checks do with them is a matter of the
  data, without a state that an invariant could speak of;
* `MarksAsNamed`, that the marks in one document are those its redactions call
  for, which takes an induction along its redactions and their paths.

## Findings

`lost_reload`: `reload_data` compares the update and the reload trigger with one
`last_time` (`storage/data.rs:385-386`, `394-395`). If a reload is asked for and
then, before the next poll, an update - by another run of `rdap-srv-store` or by
the bootstrap with `update_on_bootstrap` - the update check moves `last_time`
past the reload trigger, which is never honoured: the objects it was to remove
stay. `bin/rdap-srv-store.rs:41` promises "If true, storage is completely
reloaded."

`past_date`: a `retry-after` date that is over gives a negative number of
seconds, which `as u64` makes huge (`http/wrapped.rs:202`) and the cap makes
`max_retry_secs`: the longest wait there is, for a server that is ready. The
description of `--def-retry-secs` (`bin/rdap/main.rs:285-287`) promises the
default where "the retry-after value does not make sense", and the code counts
a zero as such a value.

`registrar_only`: with `--process-type registrar` ("Only display the data from
the domain registrar", `bin/rdap/main.rs:436`) the registry's answer is kept
from the text outputs, but it is among the transactions that `do_final_output`
writes for JSON (`bin/rdap/query.rs:146-148`, `414-434`), the default when the
output is no terminal.

`phones_added`: `add_voice_phones` and `add_fax_phones` promise to "Add a voice
phone to the set of phones" (`contact/mod.rs:173`) and "Add a facsimile phone to the
set of phones" (`192`). Where the contact has phones already, these are put behind
the new ones in a local vector that is then dropped (`183-184`, `202-203`), and
`self.phones` stays as it was: of voice phones and fax phones, the ones that are
added second are lost.

## Assumptions, bounds and fairness

* tokio's `RwLock` is modelled as documented and as its semaphore works: first
  come, first served, readers together. A request that is dropped leaves the
  queue.
* Domain search by name is enabled; without it the index stays empty and its
  lock is still taken.
* Modification times strictly increase. Files are written in two steps, a
  reader in between sees an empty file, and a crash may leave it so.
* A directory listing shows every file that was there when it was opened and
  still is; others may show or not.
* Bounds: `MaxOpen` open transactions; each transaction runs once;
  `MaxStores` runs of the tool, `MaxCrashes` crashes, `MaxExpiries` expiries of
  copies that are up to date, `LastVersion` versions of a registry, `MaxTime`
  the times the trigger properties quantify over. Two transactions are enough
  for every overlap of two commits or of a commit and a snapshot, which is what
  the properties relate, and for a circle of two that wait for each other; two versions are enough for an old and a new file, the
  third follows a malformed one.
* Fairness: weak, on the tasks the runtime schedules once they are started
  (operations under way, the two tasks, a start after a crash, which a
  supervisor does); strong, on downloads (they fail, but not for ever) and on
  expiries (they wait while a pass runs). Nothing obliges an operator to run
  the tool or a client to ask.
* `CHECK_DEADLOCK FALSE` in the server's configurations: when both tasks have
  died of errors and the bounds are used up, the modelled server has nothing
  left to do, and an invocation of the client ends. In the store's
  configurations deadlock is checked; as requests can step on while some
  transactions wait for each other for ever, it is `OperationsReturn` that rules
  such a deadlock out.
* The client: numbers and dates in `retry-after` are those of `MCSeconds` and
  `MCDateOffsets`, around zero, the default, the maximum and the largest
  number; `U64 = 64`, `U16 = 8` stand for 2^64 and 2^16. Every answer, failure
  or wake-up comes at last, and the task is polled (`FairSpec`).
* The command line client: all invocations ask for the same object, so that they
  meet in the same files; `MCAnswers` has servers whose self links name each
  other's URLs and a registrar that links back. Two invocations are enough for
  an overlap, and for one that finds what another left. `MaxCrashes`,
  `MaxExpiries` bound kills and expiries. An invocation's steps are fair, as its
  requests have timeouts; starts, kills and expiries are not.

* `RdapServing`: a name is a sequence of single characters, `w` one of two bytes;
  addresses have `Width` bits. One request at a time is enough, as a handler has
  no state besides what it found; two loads let one fall before and one between
  the lookups. `Answered` needs that the runtime polls a handler again
  (`WF_vars(Lookup)`); a request may be dropped by its timeout. Its
  configuration has `CHECK_DEADLOCK FALSE` because nothing obliges the outside
  world to ask or write once the bounds are reached.
* `RdapTest`: a text is a sequence of tokens, cut where the code looks at
  characters. What is an address, a CIDR, a number or an A-label is given by
  constants (`IpAddresses`, `Networks`, `Numerals`, `ALabels`), since parsing
  them is the libraries', and `Encoded` has what the library encodes. A world holds sets of possible answers, which differ
  from run to run. Checks are a set of names: how often and where a flaw is
  reported is left out. Entities are followed down to `MaxNesting` levels, in the
  code to the end: serde reads no JSON text with more than 128 levels. The
  run's documents have at most three. Deadlock is checked: every test ends in
  `Done`.
* `RdapRecord`: an author has bounds of its own (setters called, objects built,
  answers asked for, time), so that each explores one part of the record's way
  in depth: three calls of a setter, three objects in each other, two answers
  with marks, three asks in three units of time. Redactions mark the texts that the
  run's documents have, those in `roles`, `status` and the names of redactions
  included; a redaction's own path is not marked. `CHECK_DEADLOCK
  FALSE`: author and reader stop at these bounds.

## What is not modelled

* The PostgreSQL store: `todo!()` throughout.
* Layout and wording: rendering to Markdown and gTLD text, but for the values
  that redactions hide; the tables; logging.
* `rdap-srv-test-data`: the files of `rdap-srv-data` again with running numbers.
* Configuration, the construction of the HTTP client, the parsing of arguments:
  values read once, with neither order nor failure of interest.
* The HTTP listener, TLS and the DNS resolver are I/O; serde and the JSON path
  library are external.
* The record types of DNSSEC and the variants of a domain, which are data.

Behaviour met while modelling that no run is about, each at its line:
uppercase letters in a stored `ldhName` make it unreachable
(`rdap/domain.rs:22-25`); a nameserver with fewer than two dots is always a bad
request (`rdap/nameserver.rs:18-22`); a search whose star follows a character of
two bytes can panic (`label_search.rs:54`); a 301 has no location
(`rdap/response.rs:67`); a network template whose start is above its end panics
(`storage/data.rs:531-552`), and a directory in the data directory fails its
load (`:198`); `--updated` is not looked at (`bin/rdap-srv-data.rs:860`); the
path of a nameserver search is `nameserver?name=` (`qtype.rs:123`); an invalid
`--origin-value` ends a test in the middle (`exec.rs:146`), a DNS failure is
unwrapped (`exec.rs:227`); an entry of the DNS registry matches within a label
(`iana.rs:84`); an ordinary `full_address` panics (`contact/to_vcard.rs:132`); `rdap-test` exits with 0 when every run was skipped.

## Plan

The order follows what could go wrong most quietly. Done: the store with its
refinement and proofs, the server's bootstrap, loading, restart, requests and
generator, the client's retries with proofs, the command line client with its
caches, `rdap-test` with the checks and registries, and the way of a record from
the builders to the reader. Next:

1. `RdapServing` over `MemStore` itself, for several requests at once, which the
   refinement makes unnecessary for its properties but not for its liveness.
2. A proof of `MarksAsNamed`, the marks of one document, by an induction along its
   redactions that carries the set of places marked so far.
