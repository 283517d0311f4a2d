# A TLA+ model of qitian

qitian is five small frameworks in one Go module: an RPC framework (`geeRPC`),
a distributed cache (`geeCache`), an HTTP load balancer (`tinyBalancer`), an
ORM (`geeOrm`) and a web framework (`gee`). They do not call each other. This
directory models what each of them does that has an order or a state: goroutines
that share a connection, a channel, a cache or a lock, and the algorithms with a
data structure that outlives a call. Each part has a module and is checked by TLC on a
small instance; the safety properties of all parts are also proved, for every instance.

## Inventory

| Component | State | Operations | Talks to | Hard | Correct when |
|---|---|---|---|---|---|
| geeRPC client (`client.go`) | sequence number, pending calls, `closing`, `shutdown`, two mutexes, a shared request header; per call its error, reply and Done channel | `Go`, `Call`, `send`, `registerCall`, `removeCall`, `terminateCalls`, `receive`, `Close` | server over the connection, users over Done channels | issuers, one receiving goroutine, timeouts, `Close` and loss of the connection, in any order; a full Done channel blocks under locks | every call ends once, with its own answer, an error or a timeout |
| geeRPC dialling (`client.go:217-316`) | a connection, a result channel | `dialTimeout`, `NewHTTPClient`, `XDial` | server | timeout against a late handshake; a goroutine that stays | a timeout frees everything |
| geeRPC server (`server.go`) | the stream, the loop, a WaitGroup, a mutex for responses, two channels per request | `ServeConn`, `serveCodec`, `readRequest`, `handleRequest`, `sendResponse` | client, methods of services | a timer against a method; writers of one stream; the end of the connection | one whole response per request, no success reported as a timeout or the reverse, the connection is closed last |
| geeRPC service (`service.go`, `debug.go`) | a call counter | reflection | server | - | (not modelled) |
| geeRPC codec (`codec/`) | a write buffer | `Write`, `ReadHeader`, `ReadBody`, `Close` | both ends | a `Write` that fails half way flushes and closes | header and body of a message stay together |
| geeRPC registry (`registry/`) | servers with the time of their last heartbeat | `putServer`, `aliveServers`, `ServeHTTP`, `Heartbeat` | servers, discovery | lost heartbeats, expiry | a living server is listed |
| geeRPC xclient (`xclient/`) | list of servers and its age, an index, cached clients | `Get`, `GetAll`, `Refresh`, `Update`, `dial`, `Call`, `Broadcast`, `Close` | registry, client | cached clients that end, `Close` during calls, first error cancels | calls go to listed servers, nothing stays open |
| geeCache singleFlight | map of flights, a WaitGroup and a result each | `Do` | cache group | joining while a flight ends; `fn` that panics | one execution per key at a time, its result for all |
| geeCache group and pool (`geecache.go`, `http.go`, `cache.go`) | cache, flights, peers | `Get`, `load`, `getFromPeer`, `getLocally`, `RegisterPeers`, `PickPeer`, `ServeHTTP` | peers over HTTP, the getter | flights that wait for flights of other nodes; peers that fail late | `Get` returns the value of its key, and ends |
| geeCache lru, consistentHash | list and map with a byte count; a sorted ring | `Get`, `Put`, `RemoveOldest`; `Add`, `Get` | group, pool | sizes at the limit; the end of the ring, collisions | size bound, recency; the next point of the ring |
| tinyBalancer balancers | hosts, loads | `Add`, `Remove`, `Balance`, `Inc`, `Done` | proxy, health check | a host removed while it serves; unsigned loads | loads count requests in progress |
| tinyBalancer proxy, health check | `alive`, the balancer | `ServeHTTP`, `healthCheck` | backends | two steps per change of health | a host is in the balancer iff it is alive |
| geeOrm session, clause | statement buffer, clauses, transaction | `Raw`, `Exec`, `Where`, `Find`, `Update`, `Begin`, ... | database | what a statement leaves behind for the next | each statement is its own |
| geeOrm engine | - | `Transaction`, `Migrate` | session | failure at each step | all or nothing |
| gee router, trie | trees of route parts | `insert`, `search`, `getRoute` | context | wildcards and order of registration | a request reaches the route that matches |
| gee context | handlers, an index | `Next`, `Recovery` | handlers | handlers that call `Next`, or panic | each handler runs once, in order |

Generated protobuf code, the demonstration programs, the configuration reader,
struct reflection (`schema`), the SQL dialect table and the loggers have no
protocol and are not modelled.

## What is modelled

| Module | Models | Composed in |
|---|---|---|
| `RpcClient` (refines `CallPromise`), `RpcServer` | one end of a connection each, with the other end as environment | `RpcConn` |
| `XClient` | cached clients, dialling, `Call`, `Broadcast`, `Close` | `MCDiscovery` |
| `Registry` | registry, heartbeats, both discoveries | `MCDiscovery` |
| `SingleFlight` | `Group.Do` | `CacheGroup` (one `INSTANCE` for all nodes) |
| `CacheGroup` | nodes that ask each other | - |
| `LruCache`, `ConsistentHash` | one cache; the rings of several peers | `MCSequential` |
| `Balancer` | four balancers behind one interface | `HttpProxy` (extends it) |
| `HttpProxy` | requests and health checks over a balancer | - |
| `RouteTrie`, `MiddlewareChain` | the routes of one method; one request | `MCSequential` |
| `Orm` | two sessions of one engine, `Transaction`, `Migrate` | `MCSequential` |

`MCSequential` and `MCDiscovery` put parts that share no variable into one run: a
variable `part` says which of them a behaviour moves, the others stay in an
initial state.

### RpcClient: the client of one connection

`RpcClient` has one state variable per field of `Client` (`seq`, `pending`,
`closing`, `shutdown`, `sending`, `mu`, `header`), one per field of `Call`
that matters (`seqno`, `error`, `reply`), the Done channels as bounded
sequences (`chan`), and a program counter per issuer (`pc`) and for `receive`
(`rpc`). A call is named once; a synchronous call (`Call`) has its own Done
channel of capacity 1 and maybe a deadline, asynchronous ones (`Go`) share one
channel of capacity `DoneCap` and one goroutine that issues and drains.

| Actions | Code |
|---|---|
| `Go`, `RegisterCall`, `RejectCall`, `SetHeader`, `WriteOk`, `WriteBadArgs`, `CloseOnError`, `WriteError`, `FailSend` | `Go`, `send`, `registerCall`, `GobCodec.Write`, `removeCall` |
| `Return`, `Timeout`, `Drain` | the `select` of `Call`; the user of `Go` |
| `ReadHeader`, `ReadHeaderFails`, `Dispatch`, `ReadBody`, `Notify` | the loop of `receive` |
| `Terminate`, `TerminateCall`, `TerminateEnd` | `terminateCalls` |
| `Close`, `ConnLost` | `Close`; the network or the server |

`mu` is held across steps only by `terminateCalls`, which may block on a full
Done channel while it holds it; every other critical section of `client.mu` is
one step. `sending` is held from `RegisterCall` to the end of `send`. The server is
only what it can do to this client: answer each request once, in any order,
with a result or an error, and answer a header without a body with an error.
The inverted test of `send` (`client.go:180`) is kept: `FailSend` drops the call,
or dereferences nil (`crashed`) when somebody removed it before.

`CallPromise` is what an issuer may expect of one call: it is open until it
succeeds, with the reply of its own call, fails or is abandoned at its
deadline, and it does so once. `ImplementsPromise` says that `RpcClient` is that, under
the mapping `outcome`, which is read off `pc` and `ret`.

### RpcServer: the server of one connection

The stream from the client is a sequence of parts (`in`), the responses are
another (`out`). `loop` is the goroutine of `ServeConn`/`serveCodec`; each request
has a `handler` (`handleRequest`) and a `method` goroutine, which meet on the
unbuffered channels `called` and `sent`: a rendezvous is one step (`Called`,
`Sent`). `sendResponse` is `Lock`, `WriteHeader`, `WriteBody` or `WriteFails` of any of
three writers. `ReadOption` takes any number of parts away behind the option,
which is what `json.NewDecoder` may have buffered when it is dropped; then the
rest of the stream no longer decodes. A refused header leaves its body in the
stream, as the code does. The timer of a handler is that of `DefaultOption`; the
`HandleTimeout` of the option that the client sent is not looked at. A method
that panics ends the whole process, which is not modelled.

### RpcConn: both ends of one connection

`RpcConn` extends `RpcClient` and instantiates `RpcServer` with the calls as requests.
A step of the connection is a step of one end, or one of both: `WriteOk` of the
client puts header and body into `in` (`Transmit`), a Write that fails half way
puts the header there alone, and receive reads `out` in order (`read` counts what it
has read), where `RpcClient` lets any answer come next. Whoever closes, closes
for both (`HangUp`, `ClientSees`). The two modules assume things of
their environments; `Outstanding` says that the other end keeps to them: the server
answers what was asked, once, and only refuses what came without a body.

### XClient: clients that are shared

A job is one execution of `XClient.call`: by `Call`, or by a goroutine of
`Broadcast`. `Reuse` and `Dial` are `dial` under `XClient.mu` (`xmu`), which a job that
dials keeps through `Connect` and the handshake; `helper` is the goroutine of
`dialTimeout`, which is stuck for ever after a timeout (`ShakeTimeout`), while
the deferred function closes its connection. A client is named by its
connection; `Lose` makes it unavailable, and the next `dial` closes and replaces
it. A call over a connection is `Answered`, or `CallFails`, or is one that no answer will come to
(`NoAnswer`: its Write failed, or the server's option decoder took its request) and that may wait for
ever. `Settle` and `Succeeded` are the end of a goroutine of `Broadcast` under its
local mutex; with the first error the context of the others is `Cancelled`. An XClient may be closed, used again and closed again.

### Registry: heartbeats and discovery

Times are ages that `Tick` advances. The registry compares methods with "Get" and
"Post", which no Go client sends: the heartbeats (`Beat`, "POST") and refreshes
(`Refreshed`, "GET") of this repository are refused, and are accepted from other
programs that write methods so (`ForeignGet`, `ForeignPost`; only with `Foreign`).
`Get` of the discovery is `Call`, `Refresh` (then `Refreshed` or `RefreshFails` under the
mutex) and `Choose`, a second critical section, so that another refresh or an
`Update` may come between.

### SingleFlight and CacheGroup: the cache of several nodes

`SingleFlight` is `Group.Do`: `Join` or `Lead`, `FnReturns` or `FnPanics`,
`Release` (`wg.Done`), `Forget` (`delete`), `Wake`. A call in flight is named by the
caller that made it.

`CacheGroup` composes nodes, each with a cache and a singleflight group (one
`INSTANCE` of `SingleFlight` over node-key pairs). A request is one execution of
`Group.Get`; the request `<<u, 0>>` is the user's and `<<u, i + 1>>` is what the
handler of a peer runs for `<<u, i>>`. `Lookup` and `Enter` are two steps, as in the
code. A call to a peer may fail at any moment, also when the peer has done
the work. A peer answers only after `RegisterPeers`, because `cmd/main.go` starts
to listen after it, but users are served before. Which entries an insertion
drops is left open (`Put`): it depends on sizes and recency, which belong to
`LruCache`. The owner of a key is a constant per node, so that nodes may disagree;
`UrlKey` is what becomes of a key that is escaped for a query and unescaped
from a path.

### LruCache and ConsistentHash: the cache's data structures

`LruCache` has the list, the lengths of the values and the byte counter; a `put`
is one step with all its evictions, as the mutex of `cache.go` makes it. The loop of
evictions is written in one go: `Trim` is the cache after the first round at which the
loop's condition fails, `RemoveOldest(c, i)` what is left when i entries are. `used` is
the order of use it is compared with. `ConsistentHash` has the ring of
each peer as the set of its points and the map from points to nodes; nodes are
added in any order, and any number of times. The hash function is any function,
chosen at the start.

### Balancer and HttpProxy: the load balancer

Every method of a balancer is one critical section, hence one operator of
`Balancer`. Loads are unsigned words modulo `Word`; `key` is what the heap of LeastLoad
was last told, which ignores a `DecreaseKeyValue` that does not decrease, and
`Float` is the conversion to float64. `HttpProxy` has the requests (`Choose`, `Begin`,
`End`: `Balance`, `Inc` and the deferred `Done` are three steps, in between the host may
go and come back) and the health checks: `Probe` and `ProbeAgain` ask the backend
twice, then `SetAlive` and `RemoveHost` or `AddHost` are two steps more. Backends go up and
down at any time.

### Orm: sessions, transactions, migrations

Two sessions, the program's own and the one that `Transaction` makes. `clause`
says of every part of a statement whether it is unset, set by the present
chain of calls, or left over; `Exec` clears it, also when the statement fails.
The database (external, SQLite) has a set of columns, a second table during a
migration, and rows; a transaction that has written has the lock, and any statement
may fail. `Migrate` is one action per statement; its last `Exec` has three of them
and may fail after each. A panic in the function of `Transaction` leads to the
`Rollback`. A session that a program has kept beyond its transaction is used
as well.

### RouteTrie and MiddlewareChain: the web framework

`RouteTrie` has the nodes of one trie as a function: a node is named by the parts on the way
to it, and has its pattern and the parts of its children, oldest first. `insert` goes down the
first child that matches and `search` tries all of them, depth first; both recursions of the
code are recursive functions, over the length of a pattern and over the nodes. `Dispatch` compares
what they do with what patterns mean.
`MiddlewareChain` is the stack of one request: loops of `Next` and handlers on top of
each other, one index for all of them, panics that unwind to the last `Recovery` or
out of `ServeHTTP`.

## Runs

| Run | Instance | Shows |
|---|---|---|
| `client` | 1 synchronous call with deadline, 2 asynchronous, Done capacity 1 | `AtMostOnce`, `WireOwn`, `NoOrphan`, `ImplementsPromise`, `CallEnds` |
| `client_notified` | violation | a call whose Write failed is never notified |
| `server` | 3 requests, one unknown; methods may never return | `OneResponse`, `Framed`, `Truthful`, `QuietClose`, `AcceptedAnswered`, `ClosesAfterLoss` |
| `connection` | both ends; 1 call with deadline, 1 asynchronous of an unknown method | `Outstanding` (with the invariants of both ends), `ToldTruth`, `AnsweredOrOver` |
| `flight` | 4 callers, 2 keys, 2 results | `OneFlight`, `SharedResult`, `WaiterServed`, `FlightForgotten` |
| `flight_panic` | violation | waiters of a flight whose `fn` panics |
| `cache` | 2 nodes, 2 users, a known and an unknown key | `RightValue`, `OneLoader`, `NoCircle`, the invariant, `RequestsEnd` |
| `cache_url` | violation | a key with a space |
| `discovery` | 2 servers, 2 users of the discovery; 1 `Call` and a `Broadcast`, 3 connections | `AnswersLive`, `RoundRobinFair`; `NoLeak`, `BroadcastTruth`, `CallsEnd` |
| `registry_silent` | violation | a refresh that does not learn a server whose heartbeats run |
| `proxy` | 2 hosts, 2 requests, each of 4 balancers | `MarksTrue`, `LoadTrue`, `LeastLoaded`, `FollowsBackend` |
| `sequential` | see the bounds | `BytesCounted`, `EvictsOldest`; `PeersAgree`, `OnlyToNewNode`; `Dispatch`; `EachOnce`; `OwnStatement`, `AllOrNothing` |

Every property of a passing run has a mutant: a slip such as a forgotten
unlock, a dropped test or a buffered channel, next to the definitions it
replaces, that makes TLC report the property. No run uses symmetry: of the
passing ones all but `sequential` check liveness.
Deadlock is checked in `proxy`; the other systems may stop: all calls have
returned, the connection is closed, all routes are registered.

### Bounds, and why they are enough

Nothing in the client grows with the number of calls except the sequence
number; the interesting meetings are of two senders (lock, header), a sender
and `receive` (registration against shutdown), a timeout and an answer, and a
full channel, which takes capacity 1 and two asynchronous calls. Three calls
have all of them at once. In the server a handler, its method and another
writer have to compete for the mutex while the loop refuses a third request.
For a flight, a leader, a waiter, a late joiner and a second leader are four
callers. In the cluster two users make up to four executions of `Get`, two on
each node: one that loads at the owner, one that arrives from the other node,
and those that find, or just miss, what they load; `MaxHops` is 2, one more than
a chain has when the nodes agree, so that a longer one would be seen. Keys
on different nodes interact only through the caches, so one known and one unknown
key are enough.

On a whole connection two calls have the races that two ends add: either
timer against an answer, either end closing, a refusal or a half request while
another call is handled.

In `discovery` three connections let one be lost, one be replaced and one be
closed by its timeout; a timeout of 2 tells a fresh entry from an old one and
from an expired one, and two servers make every order of a list. In `proxy` two
hosts let one be chosen against the other, removed under its request and added again; two
requests make loads of up to 2, and words of 8 values put the wrapped loads
(7, 6) clearly above them and above `Word \div 2`, where they meet in one float.
`Turns` is a multiple of every number of hosts, so that keeping the counter
modulo it changes no choice.

In `sequential`: the LRU list has three keys of lengths 1 and 2, values of 0, 2 and 6
bytes and a limit of 7, so that an update grows or shrinks an entry, one
insertion evicts several entries, or itself; or no limit. The ring has three nodes
of two virtual nodes on three hashes: collisions within a node and between nodes, keys
above the last point, and every order of adding them at two peers. Three routes of up to
two parts (each static, `:x` or `*y`) and some longer ones make all pairs of a
route, a wildcard beside it and one below them; requests are the paths of such
lengths. The chain has up to five handlers that call `Next` up to twice.
In the session three columns, of which the schema has two, give migrations
that add, that drop, both and neither, on a table with or without a row.

### Fairness

The Go scheduler runs every goroutine that can run: weak fairness of each
issuer, of `receive`, of the loop, each handler, each writer, each `Do`. A timer
fires, and a context with a deadline expires: they are part of the same. The
user of `Go` drains its channel when it is not inside `Go`, and the server
answers (`ReadHeader`): `CallEnds` assumes both. Nothing is assumed of those who
issue calls, close or break the connection, of methods of the server
(the run `server` lets them hang), of failures of peers or of `RegisterPeers`; a
peer that does not listen refuses the connection. `CacheGroup`
assumes that the getter returns, and SingleFlight only what its property
names. Mutexes are not
assumed to be fair beyond weak fairness of those who want them, except by `XClient`.

`RpcConn` assumes less than `RpcClient`: every goroutine of both ends runs
and the server's timers fire. That the server answers is a consequence, and the deadlines of
clients may never pass. Again nothing is assumed of methods, of the network or of those who close.

`XClient` assumes strong fairness of taking `XClient.mu` (Go's mutex hands itself
over to a goroutine that has waited for a millisecond, so that nobody is
starved by those who come and go), that connecting ends, that a handshake ends,
by its timeout at the latest (`TimeLimit`; with no timeout `CallsEnd` would need that the
server answers). That a call of a client ends is not assumed: it is answered, fails or is
without an answer (`NoAnswer`), and one without an answer ends only if it is a call of a `Broadcast`
that has an error, because then its context is cancelled and `Call` returns
(`client.go:210`). So `CallsEnd` says that dialling ends, that a call which is answered or fails
gets to its end, and that a Broadcast with an error returns whatever its other calls wait for.
As everywhere in geeRPC, a Write to a connection is taken to return. `HttpProxy` assumes that the tickers of the health checks keep firing and
that a probe ends, by `ConnectionTimeout`; nothing of backends and requests.

## Proofs

`RpcClientProofs`: for any calls, deadlines and channel capacity,
`Spec => []IInv`, and from it `AtMostOnce`, `WireOwn`, `NoOrphan` and the refinement
`Spec => ImplementsPromise`. None of the properties is inductive. `AtMostOnce`
needs that a call in `pending` is not done (`PendingInv`), that the call `receive`
has taken out is in nobody else's hands (`TakenInv`), and that a call has a
number of its own (`SeqInv`); `NoOrphan` needs that `shutdown` is set
under `sending`, so that no sender is past `registerCall` when the pending calls are
collected (`LockInv`, `ShutdownInv`); the refinement needs
that what travels belongs to one call (`WireInv`), that the reply variable is
written before the call is done (`ReplyInv`) and that a channel holds
each asynchronous call once, before its issuer has seen it (`ChanInv`, `RetInv`).
The assumptions are those of `ClientAssumption`: calls are distinct from nil and
from the receiver, and the shared channel has a positive capacity, which
`Go` enforces with a panic.

`SingleFlightProofs`: for all callers, keys and results, `Spec => []IInv`,
`OneFlight` and `SharedResult`. `LeadInv` ties `m` to the leaders: whoever runs
`fn` for a key is the caller that `m` names, so there is one.

`RpcServerProofs`: for any finite set of requests, `Spec => []IInv`, and from it
`OneResponse`, `Framed`, `Truthful` and `QuietClose`. The writer in `sendResponse` holds the
mutex and still has its response to give (`MutexInv`), which with `HandlerInv`
leaves one writer per request. `FreshInv` says that a request whose response
has not been begun (`Unanswered`) does not occur in `out`; the lemma
`UnansweredStep`, that no step makes a request unanswered again, is the heart of
`OneResponse`. `TailInv` says what the end of `out` looks like while somebody writes,
and gives `Framed`. `WgInv` counts the handlers, so that wg = 0 in `Close` means that none
runs. `LateMethodStays` says of the timeout what it costs: the
method that comes too late never gets on. The assumption is `ServerAssumption`; finiteness of `Requests` is there
only for the cardinality.

`CacheGroupProofs`: a step of the group is a step of its flights or leaves them alone
(`GroupFlights`), so that the lemmas of `SingleFlightProofs`, instantiated for node-key pairs, give
`Flight!IInv`, and the group implements `SingleFlight` (`GroupImplementsFlights`, also under
`KeysSurvive`). `RunLocal` and `RunSteps` say what one request changes, and the parts of `IInv`
follow. `RightValue` is proved for any rings, agreed or not, under `KeysSurvive` (no key changes in
a URL; the run `cache_url` shows what happens without it). `OneLoader` and `OneHop` are proved from
the invariant, for nodes that agree on the owners (`Agreed` is part of the properties). `NoCircle`
is what makes requests end (`RequestsEnd`, which is liveness and stays with TLC): whoever waits for
a flight or a peer comes, in at most three steps, to a request that can go on. `FlightRuns` says
that a flight somebody waits for is run by a request with the same node and key that has not
released it (`ResultInv` of `SingleFlight`), and `AtOwner` that such a request asks nobody else if
it is at the owner. Agreement is needed: two nodes that take each other for the owner wait for each
other for ever.

`RpcConnProofs`: both ends of a connection together, for any finite set of calls:
`ConnSpec => []ConnInv`, and from it `Outstanding` and `ToldTruth`. `Outstanding` says that
each end is the environment that the proofs of the other assume, so what is proved
of `RpcClient` and `RpcServer` alone holds of them together. A step of the connection
is a step of the client, the server or both; the lemmas `StepInv` and `HeaderStep` of the other two
modules give their invariants, and what is left is the way in between. `HeldInv`: a request stays
in the client's `wire` until receive has read an answer to it, so the answer finds it there, and by
`OneResponse` of the server there is no second one.
`HalfInv`: a header whose body was never written is the last that the server will
read, because its sender keeps `client.sending` until it has closed the connection. `RanInv`: a
success on its way to a caller is that of a method that has run. `SentInv` keeps refused
calls out of the stream, and `ReadInv` and `EndsInv` tie `receive` to the responses and both ends to
the connection. Every step of the connection is then a step of the client in the environment
of `RpcClient`, or none (`ClientStep`), so that the connection implements `RpcClient`
(`ConnImplementsClient`) and with it `CallPromise` (`ConnKeepsPromise`). It does not implement
`RpcServer`, whose client never sends half a request; `ServerEndStep` shows that the
server's invariant survives that step. `ConnAssumption`: finitely many calls, and the marker for no request is
not one of them.

`DiscoveryProofs`: for the registry, `RegistrySpec => []RegistryInv`, and from it
`AnswersLive` and `RoundRobinFair`, for any servers, users and timeout. `SameAges`: the entry of a server has
the age of its last post, or was deleted after its time, so that a deletion on one
request never costs a server that posted in time. `Turns`: the servers chosen last are
the places of the list before the index, around its end (`Place`), also when several
users take turns. For the xclient, `Spec => []XInv` and from it `NoLeak` and `BroadcastTruth`, for any
servers, callers and connections. `Locked` says that the job in a dialling step is the
one with `xmu` and that its server's entry is empty, so that two jobs never dial and no cached
connection is overwritten; `Kept`, that an open connection is cached or being dialled, needs
it; `Reported` ties the error and the reply of a Broadcast to the goroutines that have ended.
The actions of one job are shown to leave the others' parts alone.

`SequentialProofs` has the parts without concurrency.
The ring: its invariant `RingInv`, and with it `PeersAgree` and `OnlyToNewNode` for
every hash function, any nodes and any number of virtual nodes. `Least` is the
minimum of a nonempty set of naturals by well-foundedness (`WFMin`); the heart
is `ClockwiseShrinks`: if the next point of the larger set is in the smaller one, it is
the next point there too.
The middleware chain: for any bound on handlers and calls of `Next`, loops and
handlers alternate on the stack (`Alternates`), and the index is tied to
the number of handlers that have started, one more where a handler has returned
(`Progress`, `Reached`); `EachOnce` follows. The assumption is `ChainAssumption`: the bounds are
naturals.
The ORM: for any columns, fields and rows, `OrmSpec => []OrmInv`, and from it `OwnStatement` and
the action property `AllOrNothing`: the database changes at a Commit or by a statement of the
program's own session, and a step that may be one of the transaction's session (`Executed("tx")`)
never changes it (`TxLeaves`), neither in a program's function nor in a Migrate nor after the end. `ClauseInv` says that a part is set exactly if the present chain has
set it, which holds because every terminal call ends in `Clear`; `TxInv` ties the
transaction to the lock; `WorkInv` says at each step of a Migrate how far its tables are from those it
found.
The LRU list: for any keys, lengths and limit, `LruSpec => []LruInv`, and from it `BytesCounted` and the
action property `EvictsOldest`. What entries take is the number of pairs of a key and a
byte of it (`Space`), so that it can be added up with the theorems about finite sets
(`SpaceSplit`, `SpaceAdd`); `RecentInv` says that the list is how the order of use begins. That the loop of
`Put` has a last round, `TrimEnds`, uses the same `LeastIs` as the ring, and that an empty
cache takes nothing and is never over its limit. The assumption is `LruAssumption`:
lengths and limits are naturals.
The router: for any parts, patterns and paths, `RouteSpec => []RouteInv`, and from it `Dispatch`.
`RouteInv` has a part that holds for every order of registration, `Tree`: the nodes are closed under
prefixes, children and nodes agree, no part occurs twice among the children of a node, and only the
last child may be a wildcard, as everything that comes later goes down through it. The other part,
`Exact`, holds as long as exact routes come first: the nodes are the prefixes of the routes, and a
route is the pattern of the node it names. The recursions are first shown to be defined, by building
them one length at a time (`UpTo`, which comes from `LeastIs`). `InsertWalk` then follows `insert`
down and `InsertIs` says what it adds; `SearchWalk` follows `search` from the deepest nodes up.
`DescendTree` and `GrownIs` keep the tree. At a node the children that match are at most two, the
part itself before the wildcard, which is why the first answer is the most exact. The assumption is
`RouteAssumption`: static parts, `:name` and `*name` are different, patterns and paths are made of
them, and the marker for no route is not a path.

`HttpProxyProofs`: for any hosts, requests, algorithms and word size, `MarksTrue` from
`Marks` (the mark, the place of the health check and the balancer's list agree),
`LoadTrue` from `CountInv` and `InFlightBound` (loads of hosts that were not
removed under their requests are the requests in service, which are at most half
of the values of a word, so that neither the word nor the float wraps: that
is `ProxyAssumption`), and the action property `LeastLoaded` from both, as the key of a host is
then its load.

Only model-checked: everything about liveness (the prover has neither fairness nor `ENABLED`) and the
four violations. Where a proof has to follow a recursion, of `insert` and of `search`, it cannot cite an
induction theorem, whose parameter is an operator; it argues about the least counterexample instead.

## Where the code and its comments disagree

Shown by a run that finds the violation:

- `client.go:180` tests `call == nil` where it means the opposite: the call whose
  `Write` failed is dropped and its issuer waits for ever (`client_notified`).
- `singleFlight.go:35`: nothing is deferred, so a panic of `fn` leaves waiters
  and the key stuck (`flight_panic`).
- `http.go:111`: `QueryEscape` in a path (`cache_url`).
- `registry.go:66`: the methods are spelled "Get" and "Post", so that every heartbeat and
  refresh is answered 405 (`registry_silent`).

Stated in the modules, false of the code, and met by the checked properties with an
exception for them:

- `client.go:207`: `Call` looks at its context only after `send` has returned, which may wait for
  `client.sending` (`DeadlineEndsCall`): for ever, when a user of `Go` waits under that lock for
  its own full channel (`Wedged`, the exception of `CallEnds`).
- `server.go:175`: the body of a refused request is taken for the next header and
  the connection ends (`RefusalKeepsConnection`); on a whole connection the other calls
  then end with an error (`AnsweredOrOver`).
- `server.go:76`: the decoder of the option may swallow requests
  (`OptionKeepsRequests`); without a deadline their callers wait for ever, unless
  something is sent behind them: that cannot be decoded, the connection ends and they with it. The
  exception of `AnsweredOrOver` (`Swallowed`) is a call that was taken and stays the last one.
- `geecache.go:99`: the cache is not looked at again inside `Do`, so that a cached key
  may be loaded again (`NoReload`).

Observed while modelling, and part of the models as the code has it:

- A route registered after a wildcard in its place goes below that wildcard and may take over its
  pattern (`Shadowed`; `Dispatch` is about the other orders).
- Nodes that disagree on the owner of a key, because their rings were built from different lists of
  peers, may each ask the other from inside the flight the other's request has to wait for
  (`NoCircle` is about nodes that agree).
- After a panic, `Recovery` answers 500 and the handlers behind the one that panicked still run.
- `LeastLoad.Done` after a `Remove` and an `Add` wraps the load to the largest word, and the host
  gets no request until it is removed again (`LoadTrue` and `LeastLoaded` are about `mixed` hosts
  not at all).
- RoundRobin would list a host twice that the configuration names twice; the hosts of the
  configuration are assumed to be distinct.
- LeastLoad: `Balance` and `Inc` are two critical sections, so that requests that arrive together
  get the same host. `LeastLoaded` is about the counts after `Inc`.
- `NewHTTPClient` writes `CONNETC` (`client.go:285`) and the server's `ServeHTTP` answers every other
  method than `CONNECT` with 405, so the repository's own server refuses every HTTP dial.
  In the model that is a handshake that fails (`Shakes`), for every address whose protocol is http.
- The goroutine of `dialTimeout` is stuck after a timeout (`helper`); its connection is closed.
- So is the goroutine of a method that returns after the timeout of its request (`server.go:208`), for ever
  (`LateMethodStays`, proved). `wg.Wait` does not wait for it, and the connection closes.
- A Heartbeat loop ends at its first transport error and is not begun again (`Beat`).
- `Update` with a list of names and values always panics, and leaves a `Where` before it in the
  session (`panicked`).

## Not modelled, and why

- geeRPC: reflection over services and the debug page (a counter); `Register`, `Accept` and the
  HTTP `CONNECT` of the server (no state after them); the encoding of gob and JSON; a method that panics, which
  ends the process.
- geeCache: an empty key, which `Get` refuses before anything else (`geecache.go:89`); generated protobuf code; `HTTPPool.Set` at run time (it is called once, before
  the group has its peers).
- tinyBalancer: the configuration file; headers; the Fibonacci heap and the ring of its
  libraries, beyond what the balancers do with them.
- geeOrm: values of rows and the text of statements; struct tags, types and dialects; a
  program's own `Begin` on its session; two transactions at a time; opening and closing.
- gee: parameters, forms, templates, static files and the writing of responses.
- Demonstration programs and tests.

What could come next: `XClient` over whole `RpcConn`s, two transactions at a time in `Orm`, and a
program's own `Begin`.
