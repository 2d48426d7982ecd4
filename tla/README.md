# port-forwarding: a verification development

TLA+ models, TLC runs and TLAPS proofs of the port forwarder: a Spring Boot
program that listens on one port, reads the first bytes a client sends, finds in
them the name of a service (`...SERVICE_NAME=test1)...`) and connects the client
to that service's target. A web interface edits the mappings and the white list
of client addresses; another page draws charts of the JVM from samples the program
takes of itself. Paths below are those of the repository, with
`P` = `src/src/main/java/com/luohh/portforwarding`,
`A` = `src/src/main/java/com/luohh/actuator`,
`R` = `src/src/main/resources`.

## 1. Inventory

| Component | State it keeps | Operations | Talks to |
|---|---|---|---|
| Acceptor, `P/config/SocketServer.java` | the server socket, the client just accepted, its header, the list it iterates over, `isClose` | `start` (load lists, open port), accept, white-list check, header read, match, submit connect task | pool, client sockets, both lists |
| Pool (`ThreadPoolExecutor`, `SocketServer.java:57-70`) | threads, unbounded queue | execute, take | connect tasks, relay tasks |
| Connect task, `SocketServer.java:134-158` | the target socket | connect, submit two relays | pool, target |
| Relay task, `P/socket/DataForwardingSocket.java` | `data`, `lastTime`, two sockets shared with its twin | set timeouts, read, silence test, write, close | the twin task, both peers |
| Configuration, `P/controller/SocketController.java`, `P/config/SocketConfigProperties.java` | two lists of objects in memory, two tables | get, add, delete, update of both lists; start-forward, stop-forward; `loadData` | acceptor (shares the lists and the objects in them), database |
| Monitor samplers, `P/task/MonitiorTask.java`, `P/service/{Gc,Thread,Class}Service.java` | three plain `ArrayList`s of samples | a sample a minute each, first samples in `run()`, clear every two hours | `jstat`/`jstack`, web socket |
| Web socket, `P/controller/WebSocketController.java`, `P/config/WebSocketConfig.java` | subscriptions, requests and readings under way | a request is answered with a whole list, to everybody | lists, pages |
| Monitor page, `R/static/js` | per topic a connection, timers, what the charts show | connect, subscribe, ask, draw, ask again after `interval_time` | web socket |
| Log reader, `A/utils/LogReaderUtils.java` | position in the file, queue of 10000 lines, both static | `poll`: read what is new, take one line | `A/core/CoreController.java` only |
| External commands, `A/utils/ExecuteCmd.java`, `A/jvm/*` | a child process and its two pipes | start, read output, wait | monitor |
| System information, `A/**/Server, Cpu, Mem, Jvm ...` | none between calls | read counters | page |
| Size formatting, `P/util/ByteConvKbUtils.java` | none | `getMB` (the rest is not called) | samplers |

What is hard here, and so what the properties are about:

- **Two relays, two sockets, no lock.** Either task may close a socket between
  the other's look at it and its read or write; both set the SO timeouts of both
  sockets, in opposite orders.
- **Ownership of a socket** moves from the acceptor through a queue, a connect
  task, the queue again, to two relays; every hand-over is a chance to lose it.
- **One thread accepts for everybody** and reads the header without a timeout.
- **A full pool**: relays keep their thread while the second relay of their own
  connection, and the connect tasks of others, wait behind them.
- **Lists changed under the acceptor**: start/stop changes an object the
  acceptor may be about to look at; every other request replaces the list.
- **Memory and database** are updated in separate steps, by several web threads
  and by `start()`, with nothing held between the steps, and the process may die
  between any two of them.
- **Lists read while they change**: cron tasks, `run()` and the clear share plain
  `ArrayList`s with requests that serialize them element by element.
- **Polling by links**: the page asks again only from the callback that draws an
  answer, and every answer goes to every page.
- **Nested loops with a labelled break**, one of whose exits is missing (`all`
  does not leave the loop), decide who may connect.

`PROJECT.json` lists every hazard at its line with the properties that watch it.

What makes each component correct: the white-list loops decide what the rules
say; a relay pair loses, doubles and reorders nothing and ends together; every
accepted socket is closed and every target connection has two relays; a stopped
service gets no new connection; the lists in use say what the database says; the
sample lists are full and in order; a page shows the right numbers in the order of
time and goes on asking, once per interval, until there is a reason not to.

## 2. Modules

| Module | What it models | Kind |
|---|---|---|
| `WhiteListRules` | what a white list says of a host, as a predicate | operators |
| `WhiteListScan` | the loops of `SocketServer.java:77-107` one turn at a time | state machine |
| `Duplex` | what one forwarded connection promises | abstract specification |
| `Relay` | the two `DataForwardingSocket` tasks, their sockets and peers; implements `Duplex` | state machine |
| `Forwarder` | acceptor, pool, connect and relay tasks, configuration; uses `WhiteListRules` for the check | state machine |
| `Service` | what the forwarder promises a client | abstract specification |
| `ConfigStore` | two tables, two lists of objects, `start()`, requests in steps, crashes | state machine |
| `Charts` | which number each line of each chart shows, from the tool's column to the label | operators |
| `SampleLog` | what a list of samples promises | abstract specification |
| `Monitor` | samplers, list, web socket and page; uses `Charts`, implements `SampleLog` | state machine |
| `MC*` | small instances of these | for TLC |
| `*_proof` | the theorems | for TLAPS |

How they fit: `WhiteListScan` shows that the loops are the predicate
`WhiteListRules!Passes`, so `Forwarder` can decide `Admit`/`Reject` in one step.
`Relay` shows what one connection does and that it ends, and that both sockets are
closed by then (`ClosedByEnd`), so `Forwarder` has one action `RelayEnds` for the
whole life of a relay; what others do to the client's socket meanwhile, which in
`Forwarder` are `RefuseEntry`, `Miss` and the relays of other entries, is
`ClosedElsewhere` in `Relay`. `ConfigStore` shows when the
lists say what the database says, so `Forwarder` changes them in one step
(`SetForward` changes the shared object, `LoadData` replaces the lists,
`SetReplaced` changes an object of a list that has been replaced).
`Forwarder` implements `Service` under a refinement mapping (`standing`, `remote`):
a client is away, waiting, held by the acceptor, served, or gone. `Monitor` is a
system of its own in the same process; it shares nothing with the forwarder.

### WhiteListScan
`pc`, `r`, `i` are the place in the loops, `allow` and `isPass` the code's flags.
`TakeAll` stays in the outer loop as the code does; `BreakOut` is `break A`. A
rule is a sequence of segments, `<<"all">>` the word all, `"*"` a wildcard. A rule
that is a lone dot splits into nothing in Java, hence the empty rule in the
instance. The white list is taken once per client, so it does not change
meanwhile. Rules that end in a dot are left out: `all.` has the segments of `all`
and is not equal to it.

### Relay
One action per call that can fail or block or that the other task can see:
four `setSoTimeout` calls, the test of the two sockets at the top, the read
(begin, return a piece, end of stream, timeout, exception), the silence test, the
sleep, the write, the two closes. A *piece* is what one read returns. `idle` is
the time since `lastTime`, `left` what the read in progress has left: it is taken
from the SO timeout when the read *begins*, as Java does. `Tick` lets one unit of
time pass; with `Prompt` it may do so only while both tasks wait. Peers send, end
their stream, reset, or stop taking data (`stalled`), at any moment; `Stallers` are
those that may. `ClosedElsewhere` is the rest of the program closing the client's
socket, at any moment: the acceptor at a later entry that is stopped, the connect task
of another entry, the relays of another entry. That the relays of two entries of one
client also read the same stream and set the same timeouts is not modelled: what
`Relay` says of pieces and timeouts is said of a client one entry has matched.
`MaxInt` is the
longest timeout `Math.toIntExact` takes: with a longer `So` the third call of the
setup throws, and the task goes on to its two closes (`SetupFails`).

### Forwarder
`acc` is the acceptor's place, `cur` its client, `snap` the list it iterates over,
`k` the entry, `shared` whether that list is still the one in use (then
start/stop shows in it at once). A task is `connect`, `connected`, `half`, `over`
(stages of a connect task) or `c2s`, `s2c` (relays). `Submit` is
`ThreadPoolExecutor.execute` with an unbounded queue: a new thread while there are
fewer than `Core`, else the queue; the maximum pool size is never reached.
`header` is the set of service names the header mentions: `name + ")"` as a
substring, so one header may mention several; `Cuts` are the sets found when the read
gets only a beginning of it. `leaked` are the clients whose
socket an exception lost: reset during the header read (`ReadThrows`), or an
exception other than `IOException` in the connect task (`Throw`).

### ConfigStore
A list the database returns is a new object: `heap` has the lists by number,
`cache` the number each table's list in use has, `held` and `found` what a thread
has read and not yet put in place; numbers nobody holds are used again. A
database call is one step; between two steps anything may happen, and `Restart`,
which starts the process anew on the tables as they are, may come anywhere.
`equals` compares name and target, not the id, and `setForward` writes back the
object found in memory: both as in the code. `saveBatch` may hand any of the new
ids, or none, to the objects it has saved. Two history variables: `known` (the
mapping list in use has come from the database) and `quiet`: "yes" while requests have
come one after another, "no" once two have overlapped, "blind" once a start-forward or
stop-forward has come, alone, on defaults `start()` has just saved, "again" after the
next load that nothing disturbs. "blind" is a sequential case and not a harmless one:
the ids `saveBatch` has put into the objects in memory may be missing or another
row's, and then the object is marked and its row is not (section 5). The properties
that ask for `quiet` say in their comments which of these they leave out.
Left out: forms with empty fields, which are refused before anything changes;
deletes of several ids at once; the login handler, which does nothing.

### Service
A client arrives, is taken up, and is rejected or admitted by the white list *of
that moment*; only while it is served is it connected, once to each service it may
name, and it is let go when none of its connections is open. The rules change at
any time. What the refinement adds to the forwarder's own invariants is that all of
this holds of the whole life of a client, through the acceptor, the queue and the
stages of its tasks.

### Monitor and Charts
The three topics (`gc`, `cl`, `thread`) have a list, a connection and a loop each
and share nothing, so a behaviour follows one of them, chosen in `Init`. `writer`
are the two tasks that may save: the cron task, and `run()` at the start, which
takes its three samples one after the other (`BootPulls`). A save is the two steps
of `ArrayList.add`: the size, then the slot (`SaveGrows`, `SaveStores`), from the
size read when it began; a clear is two steps as well. `GcService` dates a sample
when it is saved, the other two lists keep the date taken before the command
(`Stamp`). A command may fail or never end. `reading` is a thread that answers: it
has taken the size and reads element by element; a list that has become shorter
ends it in an exception. `replies` are answers on their way, received in any order.
`Draw` draws all charts of the topic and arms a timer; `DrawThrows` is the exception
in the first chart. One page is followed; other pages, and what a page that is
loaded anew has left behind, are `OtherAsks`: requests, at any moment, whose answers
this page gets as well. That is more than other pages can do. `damage` is a history
variable: a save has overlapped a save or a clear (`torn`), a sample has overtaken
another (`order`), or a clear has repaired it since.
`SampleLog` is the list without slots and sizes: a save appends its sample when it
ends, a clear empties the log, nothing else changes it, and the promise is off from an
overlap to the next clear that meets no save. The refinement mapping takes the slots
up to the size, without the one a save has still to fill (`Logged`), the date each
save under way has (`Saved`), and `damage # "torn"`.
`Charts` has for each topic the columns of the tool, the fields of a sample with
the column and unit behind each, and the fourteen charts with the unit in the title
and the field behind each line; the names are those of Jackson.
Left out: the growth of the array (it copies what is there), what a thread may see
of another's writes late (the lists are not volatile: a reader may see an older
size or slot than the model gives it), the length of the interval (timers fire in
any order at any time), and the numbers themselves.

## 3. Runs

| Run | Shows | Bounds, and why they are enough |
|---|---|---|
| `whitelist` | flags mean what they should in mid-loop (`ScanInv`); the answer is that of the rules (`ScanDecides`) | all lists of up to 3 out of 9 rules (all, wildcards in each place, exact, other lengths, empty), 3 hosts: a flag left over needs two rules, a rule after a break a third |
| `relay` | `Accounted`: what a side sent is delivered, held, or was given up at the end, in order; `SettledTimeouts`; `PatientReads`: no read times out sooner than the limits promise; `SilenceMeetsTimeout`: what the silence test can meet; `ClosedByEnd`; `ImplementsDuplex` | 2 pieces per peer: order and loss need two; limits 1 < 2 < 3, ordered as timeOut, 20x, 30x, all of them an int |
| `relay_live` | `BothEnd`: one task over, then both and both sockets; `EndOfStreamCloses` | 1 piece per peer, all the ways a peer can end; the service may stop taking data, the header included (with the client in its place the run passes too) |
| `forwarder` | `ClientOwned`, `RemotePaired`, `NoStaleForward`, `ImplementsService`, `EveryoneAccepted`, `EveryoneClosed` | 2 clients, one of which mentions both services, the target of one being none a socket address can be made of: three connect tasks, one of which throws, and four relays for 2 threads, so the pool is full with work of every kind behind it; 2 configuration changes: stop and start again, stop and reload, or a reload and a change of the list it has replaced. Two pairs of relays of one client do not fit the run; the theorems have them (`ClientsOwned`, `RemotesPaired`, `StopIsRespected`, `PromiseKept`) |
| `config` | `CacheFresh`, `Repaired`, `ChangeObeyed`, `CountSuffices` | 2 threads, 2 requests out of 9 kinds, 1 crash, new or filled database: every pair of requests in sequence or overlapping, and with `start()`; 2 mappings and 1 address to begin with, ids up to 3 |
| `monitor` | `ListSound`: full and in order; `ShownInOrder`; `ChartsTrue`: every line shows what its label and unit say; `OneLoop`: one request, answer or timer per page, plus one per request of others; `LoopEndsForReason`; `Answered`; `ImplementsLog` | all topics, 2 minutes with a clear in the second: the first sample, a cron sample and a clear overlap in every way, and a reading spans them; 1 request of others; 1 thread that answers (answers are received in any order all the same, and the theorems hold for any number) |
| `whitelist_yml`, `relay_silence`, `forwarder_target`, `config_overlap`, `config_undone`, `monitor_frozen` | the disagreements of section 5 | |

Type invariants are part of the first run of each module. The other constants:
`MaxSent` pieces per peer, `MaxChanges` changes of the configuration, `MaxId` ids
per table, `MaxRequests`, `MaxCrashes`, `MaxMinutes` of the clock and `MaxOthers`
requests of other pages; each is a guard of an action and the
theorems do not depend on their values. Symmetry is used in `ConfigStore` only,
over web threads, in runs without liveness. Deadlock is not checked where the
modelled system comes to rest: a scan that is done, a connection that is closed,
a forwarder all of whose clients have been served, bounded requests, a monitor whose clock has run out.

Every property has a mutant in `PROJECT.json`: a definition of the model replaced
by a faulty variant (marked "deviation" in the modules) under which TLC finds the
property violated.

### Fairness
- `Relay`: weak fairness of `Tick` (time passes) and of each task's steps (the
  pool's thread runs). Nothing is assumed of the peers. `EndOfStreamCloses`
  excepts peers that have stopped taking data, since a write has no timeout.
- `Forwarder`: weak fairness of the acceptor, of the pool's threads, and of a
  client in the header read speaking or leaving: that read has no timeout, and a
  client that connects and stays silent does hold up everybody. That relays end
  is weak fairness of `Pool`; `relay_live` says why (a relay whose peers have
  fallen silent ends by its own timeouts), and a relay between peers that talk
  for ever, or that both stop taking data, is outside the claim.
- `WhiteListScan`, `ConfigStore`: none; only safety is claimed.
- `Monitor`: weak fairness of `Server` (the threads of the inbound channel) and of
  `Browser` (the page's script and timers). Nothing of the samplers, whose command
  may hang, of the clear, or of the user. `Answered` holds although a reading may
  end in an exception because such an end is an end of the loop, and
  `LoopEndsForReason` says which ends there are.

## 4. Theorems

For every value of the constants that satisfies the modules' assumptions:

| Theorem | Argument |
|---|---|
| `WhiteListScan_proof!TypeCorrect`, `ScanInvariant`, `ScanCorrect` | `ScanInv` is inductive with the types: in mid-rule `allow` says that the segments so far match; `isPass` says the list lets the host in; if not, no rule before `r` does. At the end that is `ScanDecides` |
| `ScanDescends` | each turn lowers the pair of rules left and turns left in the rule, neither of which is ever negative |
| `LiteralsDecide` | a rule without a wildcard admits the address it spells and no other (a lemma on `Admits`), so by `ScanCorrect` a list of such rules admits its own entries |
| `Relay_proof!TypeCorrect` | by cases over the actions |
| `AllAccounted` | `Accounted` with the types is inductive (what is held and what was read last are part of it) |
| `TimeoutsSettle` | that both sockets end with the long timeout is not inductive; the strengthening says for each socket that it has the long timeout or that a task that has not yet passed its long call owes it |
| `RelayImplementsDuplex` | steps map to `Deliver`, `Send`, `HangUp` or stutter, by `Accounted` |
| `ReadsArePatient` | `Patient`: past its own call a task finds one of the two timeouts on its source, the long one while its twin has not begun; a read under way has been silent and has left, added up, as long as the timeout it found. A tick moves time from the one to the other; of the twin's calls only the first on that socket can shorten it |
| `SilenceTestLate` | a task at the test has a piece, or its peer has ended the stream for good |
| `EndsCloseAll` | how far each task has come with its closes says which sockets are closed (`HasClosed`); nobody opens one again |
| `TooLongForwardsNothing` | if `So > MaxInt` no task gets past its setup, so nothing is ever delivered |
| `Forwarder_proof!TypeCorrect`, `ClientsOwned`, `RemotesPaired`, `StopIsRespected` | one invariant each over the types and what the pool keeps of itself (`PoolBounded`); the work is in what `Submit` and `Take` do to `Pending`, which are lemmas of their own |
| `Monitor_proof!TypeCorrect` | no save runs off the list: size and samples being taken are no more than the minutes (`Room`) |
| `OneLoopAlways` | `Accounted`: everything under way, of the page and of others, came from the connection or from a request of others; what each step does to the number of readings is a lemma about cardinalities |
| `LoopsEndForReason` | every step keeps the number of things under way unless one of the reasons holds (`LoopStep`); a page that has not subscribed has nothing under way (`Silent`) |
| `ListAlwaysSound` | `OrderInv`: without `torn` one save at a time, never in a clear, at the end of the list; without `order` first the dates in the list, then that of a save under way, then those of samples being taken |
| `MonitorLog_proof!ListImplementsLog` | on `OrderInv`: the save under way fills the slot behind the log, so the store is `End` and the growth a stutter; the two halves of a clear are `Clear` twice, the second on an empty log; a save that meets another or a clear is a `Begin` that breaks the promise |
| `MonitorPage_proof!ShownAlwaysInOrder` | `PageInv` on top of `OrderInv`: nothing that has been read is later than what the list, a save under way or a sample being taken has next (`NotAfter`), which a clear between two elements does not change; slots in which a reading finds null keep an answer from being drawn |
| `ChartsAlwaysTrue` | the charts shown are those of the topic (the types), and each of their lines is looked up in the topic's sample, one lemma per topic |
| `ForwarderService_proof!PromiseKept` | every step of `Forwarder` maps to a step of `Service` or a stutter. The invariant (`ServiceInv`) says where a client can be: the one the acceptor holds has no task yet; a client in the backlog is known to nobody; a connect task is the first task of its client and service and the only one of its kind, so that a connection is opened once to each service |
| `OneTarget` | a client is connected only to services its first bytes name (`ServiceInv`); if they name one, the set of its connections has one element at most |
| `ConfigStore_proof!TypeCorrect` | `Sound`, whatever overlaps: rows differ in id and name, every list somebody needs is in memory and is a list of its table, a request is at a step of its own kind. That a list from the database always finds a free number is a counting argument over the threads (`FreeNumber`) |
| `ListsFresh`, `LoadRepairs`, `ChangesDone`, `CountEnough` | on `Sound` rests `CalmKnows`: while `quiet` is neither "no" nor "blind" there is one request, or `start()`, and each of its steps knows something of database and lists (`RequestKnows`, `StartKnows`), e.g. before the store the list held is the database's with one entry marked. A load that nothing disturbs establishes it anew (`LoadAgain`), a restart does so trivially (`BootedCalm`). The names being unique, the entry a request means is one row (`StoreKnows`). `ChangesDone`: what a write does to the rows (`WritesDone`) stays so until the answer (`Obeyed`), when the list in use is the one read from them |

The assumptions are those named in the modules: the order of the three limits,
a short timeout that is an int (`IntAssumption`; the long one need not be),
`Core >= 1`, the ranges of the lists, finitely many threads, names that are unique
within a list of mappings (`NamesAssumption`; the table has a unique index) and
within the defaults of the file, and no more defaults than ids
(`DefaultsAssumption`). Nothing else is assumed.

Only model-checked: liveness (`BothEnd`, `EndOfStreamCloses`,
`EveryoneAccepted`, `EveryoneClosed`, `Answered`), which is out of the prover's
reach; every other property of a passing run is a theorem. A run that ends in a
violation is a counterexample and needs no proof; beside three of them stands the
theorem that says when the claim does hold, or how far it fails (`LiteralsDecide`,
`SilenceTestLate`, `OneTarget`), and beside `config_overlap` and `config_undone` stand
`ListsFresh` and `ChangesDone`.
`TooLongForwardsNothing` and `OneTarget` have a hypothesis on the constants that the
instances of the runs do not meet (`So > MaxInt`, one service per client), as has
`LiteralsDecide` (no wildcards): the property is checked by a run where the
hypothesis fails, or is of such a configuration only.

## 5. Disagreements found

1. **`localhost` in the white list admits nobody** (`R/application.yml:55`,
   `SocketServer.java:96`): rules are compared with `getHostAddress()`, which is
   never a name. Run `whitelist_yml`; `LiteralsDecide` says so of every name.
2. **The silence test does not test for silence**
   (`DataForwardingSocket.java:97-99`): a read gives up after 20 x `timeOut` with
   an exception, so the test against 30 x can fire only while polling after the
   end of the stream, or on a read that has returned data, which is then dropped.
   Run `relay_silence`; `SilenceTestLate` says that there is no third case.
3. **A unique name is not enough** (`src/README.md:6`, `SocketServer.java:123`):
   the match is a substring test and goes on after the first hit; a client of
   `test1` is connected to the service `1` as well. Run `forwarder_target`;
   `OneTarget` says that nothing else stands in the way of the README's claim.
4. **A list older than the database can stay in use** (`R/application.yml:52`,
   `SocketController.java:204-211`): in the run a page loaded during the first
   `start()` reads the empty table, `start()` saves the defaults, the page puts
   its empty list in place. Run `config_overlap`. It is repaired by the next
   undisturbed load (`Repaired`).
5. **A stop-forward can take back an update** (`SocketController.java:186`, `:195`): the
   method that "sets whether to forward" writes back the whole object it found in
   memory. An update of the entry stored meanwhile, and answered "修改成功" (`:306`),
   is undone by it. Run `config_undone`; `ChangesDone` says that it takes an overlap
   or the ids of the first item below.
6. **A page can stop refreshing for good** (`R/static/js/socket.js:20`, against
   `socket.js:81` and `R/templates/monitor.html:34`): the timer for the next request
   is armed after the charts in the same callback, and each chart reads
   `data[0].date`. An empty list, at the start or after the two-hourly clear, throws
   before that. Run `monitor_frozen`.

Seen while modelling, with no document they contradict:

- The first start-forward or stop-forward after a first start works on the objects
  `saveBatch` has saved, with the ids the driver has handed back for a batch: none, or
  the last one to the first object. Without an id no row is updated, the load brings the
  old state back, and the answer is that it is done; with another row's id the unique
  index refuses the row after the object in use has been marked, and no load follows.
  Nothing need overlap. It is over with the next load (`Repaired`).
- With a `timeOut` above 107374 s (30 hours), 20 times of which is no int, a client is
  accepted and its service connected, and both tasks then end at their third call with nothing
  forwarded (`TooLongForwardsNothing`).
- Traffic in one direction only is cut by the SO timeout of the other direction.
- A task that reaches its loop first may do its first read with the short timeout
  its twin has just set, and so end an idle connection after `timeOut`; never
  sooner, and not before 20 times that if the twin has not started (`PatientReads`).
- Two peers that both stop taking data hold two pool threads for ever.
- With the pool full, a connection may have one relay running and the other in
  the queue: it is carried one way until a relay elsewhere ends.
- The maximum pool size has no effect with an unbounded queue, and
  `poolQueueInit` is not used.
- `update` always switches a mapping on again; stop-forward answers "done" when
  nothing equal was found; deleting all rows and restarting brings the defaults
  of the file back.
- An answer goes to every page that has subscribed and each arms a timer for it:
  n pages ask n times as often as set, each, and a page loaded anew adds its own.
- `SUBSCRIBE` and the first request are handled by different threads: if the answer
  is published first, the page waits for ever; a lost connection is never renewed.
- A reading beside a single `add` can find the slot still null; the charts throw on
  it and the page stops as in 6. One that meets the clear ends in an exception.
- Samples of threads and classes keep the date taken before the command: the first
  one can end up behind the next minute's.
- Two saves at once can lose a sample or leave a null in the list until the next
  clear, which every answer then contains.
- The socket of a client that resets during the header read is never closed, nor
  is that of a client whose connect task throws something other than
  `IOException`.

## 6. Not modelled

- The log reader: its one caller is a controller outside the component scan, so it
  never runs. The same goes for the controllers in `A/core` and for `Jmap`, `Jinfo`
  and `Javav`, which only they call.
- The pipes of a child process (`ExecuteCmd` reads one and leaves the other): the
  monitor model lets a command fail or hang, which is all its callers see.
- `ByteConvKbUtils` but for `getMB`: not called.
- System information: reads counters, keeps no state. Data holders. Spring
  configuration and security (no logic). Login (does nothing).
- `lib/common.js` and the jqgrid locale, which no template loads; vendored libraries;
  layout and colours of the charts.
- What a thread may see late of another's unsynchronised writes.
- Bytes, encodings and log lines are abstracted everywhere.
