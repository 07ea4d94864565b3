# A verification of go_service_bao_fight

TLA+ modules, TLC configurations and TLAPS proofs for the dating and chat
backend in `src/`: an HTTP API ("producer"), a worker process ("consumer"),
Postgres, Redis, Kafka, S3 and an nginx gateway. Paths below are relative to
`src/src/`, unless they say otherwise.

## 1. Inventory

| component | state | operations | hard behaviour |
|---|---|---|---|
| Batching worker `internal/worker/kafka_worker.go`, started by `cmd/app/consumer/main.go` | committed offsets, the message on the unbuffered channel, the batch, the ticker | `ReadMessage` in a goroutine; `Run`'s select over message, ticker, error, cancel; `flush` | the offset is committed before the message is handled; failing flushes; shutdown, crash, rebalance |
| Members' cache, `GetChatParticipants` and `JoinChat` in `chat_handler.go` | `chat_members` rows, `chat_members:<id>` set in Redis and its expiry | SMEMBERS, Pluck, SADD, EXPIRE; INSERT, DEL | fill racing invalidation; death between two commands; eviction (`allkeys-lru`) |
| Reactions, `internal/service/reaction_service.go` | table `reactions`, sets `fans:*`, `my_likes:*`, dialogs, `user_chats:*`, notifications | batch insert, `checkMatch`, find-or-create of the dialog | a handler without its client of Redis; two workers checking the two likes of one couple, no lock, one transaction at the end; keys that the API gives another kind and a time to live |
| Accounts and sessions, `register_user_handler.go`, `session_handler.go` | tables `users`, `sessions`, the client's two tokens | `RegisterUser`, `Refresh`, `Logout`, `createSession` | statements without a transaction; racing requests with one token; errors taken for absence |
| Login, `login_user_handler.go` | — | `LoginUser` | refuses everything: `c.Validate` without a validator |
| Messages, `message_handler.go`, `message_service.go` | table `messages`, the writer's batches, the topic `messages-v1`, the saver's batches | `SendMessage`, the saver's `Process` | insert, then Kafka without an acknowledgement, then the answer; the saver inserts the same keys again |
| History, `GetChatHistory` in `chat_handler.go` | the client's cursor | a page, a second query for `has_more`, the check of membership | rows that appear between the pages, times that are equal |
| Hub and watchers, `message_handler.go`, `handler.go`, `chat_handler.go`, `reaction_handler.go` | map user → slice of sockets, an RWMutex | `HandleWS`, `StartChatWatcher`, `StartNotificationWatcher` | a reader without the lock, arrays changed in place, headers stored word by word, unlock without lock, restart from the first message |
| Discovery, `reaction_handler.go` | list `discovery_queue:*` | `GetDiscovery`, `SetReaction` | LRANGE and LTRIM of two requests |
| Fans, `reaction_handler.go` and `reaction_service.go` | `fans:*` | `GetLikingProfiles`, the worker's commands | a set for one, a sorted set for the other |
| Chat list, `chat_handler.go` and `reaction_service.go` | `user_chats:*` | `GetChats`, `JoinChat`, the ZADD of a match | entries of two formats, a set without an expiry |
| Profile and avatar, `profile_*_handler.go`, `profile_service.go` | `profiles`, `profile_avatars`, S3 objects | `GetUploadURL`, `ConfirmUpload`, `ChangeProfile` | concurrent transactions, an ignored error |
| Producer's lifecycle, `cmd/app/producer/main.go` | — | start-up, retry of S3, shutdown | a server that cannot start leaves a process that waits |
| Config, database, migrations, models, nginx, helm | — | — | plain data, or not this program's logic |

How they interact: handlers and workers share Postgres and Redis, and nothing
else; handlers talk to workers through Kafka topics; the pods with sockets read
every chat message through a consumer group of their own. The only in-memory
state shared by goroutines is a worker's channel and the hub. Redis evicts any
key (`../docker-compose.yaml`), so everything in it is a cache or can be lost.

What makes each modelled component correct:

* worker: a committed message is processed, or held, or was given up by an exit
  the code knows of; nothing is processed twice; every message gets processed if
  the faults stop;
* members' cache: what is cached is all of the members at some time, and it ends
  up right;
* reactions: a match stands on two likes, no couple is missed, no like of a
  matched couple is left behind for good, an announced dialog exists; but first
  of all, that the matches are checked;
* sessions: but for what fails, rotation leaves no session beside its successor and
  loses none, and a client knows its session; a session that was announced as
  terminated is gone;
* messages: what was answered 200 is stored and has left for the broker, and
  nothing goes there that is not stored; the history shows all there was, each
  message once;
* hub: the list of a user is exactly the sockets that are served, and no key is
  left of a user without any; a message goes to its participants only, and to
  each of them that stays exactly once; a pod reads every message;
* discovery, fans, chat list, avatar: no candidate is dropped unseen, each fan
  and each chat is in an answer some day, profile and history of the avatar
  agree, and one avatar is current.

Several of these the code does not keep: section 5.

The full list of hazards, each at its line, is in `PROJECT.json`.

## 2. Modules

| module | models | built on |
|---|---|---|
| `KafkaWorker` | the group of workers of one topic | |
| `AtMostOnce` | what such a group promises: a message leaves the topic once and is then processed or given up, once | |
| `MCKafkaWorker` | symmetry for TLC | `KafkaWorker` |
| `KafkaWorkerProofs` | proofs | `KafkaWorker`, `AtMostOnce` |
| `ChatParticipants` / `ChatParticipantsProofs` | members and their cache / proofs | `MembersView` |
| `MembersView` | what that cache promises its readers: the members at one moment, or nothing | |
| `ReactionMatch`, `MCReactionMatch` / `ReactionMatchProofs`, `ReactionSetsProofs` | match check, its requests for TLC / proofs | |
| `Sessions`, `MCSessions` / `SessionsProofs` | accounts and sessions, symmetry / proofs | |
| `Messages`, `MCMessages` / `MessagesProofs` | a message's way from `SendMessage` to the history, symmetry / proofs | |
| `Hub`, `MCHub` / `HubProofs` | a pod with its sockets and watcher, owners of sockets / proofs | |
| `Avatars`, `ChatLists`, `Fans`, `Discovery` | four handlers over one user's data | |
| `MCHandlers` / `HandlersProofs` | the four side by side / proofs | the four, by `INSTANCE` |

Each module takes one fragment of the shared state. Where a module reads what
another one decides, it takes that as an arbitrary input; where two parts of the
program write to the same key, the module that states something of the key has
the writes of both. So `ReactionMatch` has what `GetLikingProfiles` and `GetChats`
do to `fans:*` and `user_chats:*`, and `Fans` and `ChatLists`, which are about the
answers of those two, have what the workers do. `Messages` has a
worker that reads, keeps a refused batch and dies, and leaves the rest of it to
`KafkaWorker`; `Hub` takes the audience of a message as given, or empty, which is
what `ChatParticipants` is about; `Discovery` and `Fans` let the reactions of
`ReactionMatch` appear at any time.

### KafkaWorker
A message is a pair of partition and offset. One worker is two goroutines:
`reader[w]`, `held[w]` are the reading one (`Fetch`, `Commit`, `ReadError`: one
`ReadMessage` is a fetch and a commit), `batch[w]`, `run[w]` are `Run`
(`Receive`, `Tick`, `Done`, `Fail`: the four cases of its select). `flush` gives
the batch to `Process` and empties it only on success. `Cancel`, `Exited` and
`Restart` are `main`'s context, its `wg.Wait` and a new process. `Produce` and
`Assign` are Kafka. What `Process` does is for the modules of the handlers;
here it succeeds or fails. The ghost `lost` collects the messages a step gave
up, so that the invariant `Accounted` can say there are no others.

### ChatParticipants
One chat. `call[r]` is the next command of a reader, one action per command;
`join[u]` is how far `JoinChat` of `u` is. `JoinChat` begins here with its
insert. `DropKey` is expiry or eviction. Any command may fail, and a pod may die
between two commands, `MaxFaults` times. The ghost `past` collects what the
members have been; `View` is the instance of `MembersView`, which shares
`members`, `past`, `cache` and `answer` with the module and hides the calls: a
reader's last command is `Reply`, SADD is `Fill` or nothing, the insert of
`JoinChat` is `Join`, and a deletion, expiry or eviction is `Drop`.

### ReactionMatch
`Process` inserts the batch (refused as a whole by the UNIQUE constraint) and
then `checkMatch` runs one command per action. The transaction is
`Find`, `CreateChat`, `ListFrom`, `ListTo`, `TellMatch`, `Commit` under READ
COMMITTED: its rows are visible to others only after `Commit`. `Evict` and
`Crash` are faults.

The key `fans:<u>` has two kinds. `fans[u]` is what it holds as the set of the
workers, `sorted[u]` as the sorted set of `GetLikingProfiles`; one of them is
empty. A command of the other kind is refused with WRONGTYPE and its error is
dropped, which is no fault: `AddFan`, `RemFan` and `RemFanBack` then change
nothing. `AskFans`, `FillFans` and `ExpireFans` are the call of a user in `Askers`
(`asking[u]`), which also gives whatever is there 24 hours to live; `expiring` is
the set of keys that have them, and `ElapseFans` is their end. `GetChats` gives
`user_chats:<u>` such a time too, so what a match put into `listed[u]` may go at
any time once the user is in a chat (`ElapseList`).

`HasRdb` says whether the handler has a client of Redis. `NewReactionHandler`
drops the one it is given (line 25), so **the program is `HasRdb = FALSE`**: it
panics in the first check (`Panic`). The run `ReactionsPanic` and the theorem
`NothingCheckedAlways` are about it. `HasRdb = TRUE` is the handler with the
argument stored, a variant that the source does not have; what `checkMatch` is
written to do for a couple can be asked only of that variant, and the run
`Reactions` does.

### Sessions
One action per statement of `RegisterUser`, `Refresh` and `Logout`. A session is
numbered when it is created and remembers the one it replaced (`origin`); the
client keeps every token it was ever told and may use any of them again. Faults
are failed statements (the ones whose error the code drops go on, as in the
code), answers that never arrive, and pods that die. `Expire` and `AccessExpire`
are the 30 days and the 15 minutes. A client uses its own access token; with
somebody else's the handlers would do the same. `LoginUser` has no action: it
refuses all requests.

### Messages
A message is named after the call that makes it: a client that sends a text
again makes another one. `Accept`, `Create`, `Write`, `Written` are the
statements of `SendMessage`; `Send` is the goroutine of `kafka-go` that writes a
batch to the broker's connection. The producer's writer leaves `RequiredAcks` at
its zero value, no acknowledgement (`cmd/app/producer/main.go` lines 51-54), so
`Written` follows from `Send`: the answer 200 says that the bytes left. What is on
the `wire` the broker appends (`Deliver`), to any partition, since the balancer
does not look at the key, or it is `dropped` and nobody learns of it. An attempt
that ends with an error after its bytes left is repeated; `WriteFails` is a client
that left or attempts that are used up, and the message may still arrive.
`Collect`
and `Process` are the saver: the insert is one transaction and is refused as a
whole when a key of it is stored or occurs twice. `Query`, `CountOlder`,
`Answer` are the statements of `GetChatHistory`, called by a client that scrolls
until `has_more` is false. Times are readings of a clock that may repeat; a
message is stamped before it is stored, so messages appear in another order than
their times. `Forbid`, `Refuse` and `CountFails` are the queries whose errors
the code drops. Who is a member is chosen once.

### Hub
A slice is what it is in Go: a header (array and length) in `clients`, arrays in
`heap`. A handler works under `holder`, the write lock, in two steps: `AppendTo`
or `Shift` changes an array, in place if it can, and makes the new `header`;
`Register` or `Unregister` stores it in the map. The watcher takes no lock.
`Lookup` may find any of what `Found` lists: the stored header, no key while a
handler is at work, or, while a header is being stored, the array of one header
with the length of the other. If that length does not fit the array, the header
is `torn`, and `Overrun` is the reading past its end: the process dies, or the
memory there holds anybody's connection. `Push` writes to what the next slot holds, and
`InSlot` adds what the handler at work is about to put there, since the two race.
The words a handler writes are taken to become visible in the order of the
program, the array before the header; the memory model of Go does not promise it.
`MapRace` lets the runtime end the process when the map is read while somebody
holds the lock. `RUnlock` without `RLock` is fatal. `Die` takes all of the
process's state with it, its consumer group included, as that has a random name.
The error of `ReadMessage` ends the watcher alone. `NilSlice` in the map is a user
without a key: the code never stores such a header otherwise.

### Avatars, ChatLists, Fans, Discovery
One user each; one action per command of Redis, statement of a transaction, or
query. In `Avatars` a transaction takes its snapshot at `Begin` and waits for
the rows others have locked at `Clear`, as READ COMMITTED does; that `profiles`
has the column `weight`, which no migration creates, is an initial choice. In
`ChatLists` an entry is the text of an id or, from a match, its 16 bytes: the
client of Redis writes a `uuid.UUID` through `MarshalBinary`. In `Fans` the key
has a kind, and a command on a key of the other kind is refused and its error
dropped. In `Discovery` a queue is a sequence, a filling is any list of profiles
without a stored reaction (the query runs before its `Order`), up to its limit, `LRANGE` takes one more than the
limit, and the trimming counts what was in hand. Scores and cursors of the two
lists are left out: a later page is any part of the list.

## 3. Runs

| run | expects | shows | bounds |
|---|---|---|---|
| `WorkerFaults` | pass | `StoredInOrder`, and `ImplementsAtMostOnce`, the refinement | 2 workers, 2 partitions, batches of 2, 3 messages a partition, all faults, no rebalance |
| `WorkerRebalance` | pass | `Accounted` and its inductive form `NothingSkipped`, with partitions taken from live workers | 2 workers, 1 partition, 3 messages, 2 rebalances, all faults |
| `WorkerLiveness` | pass | `Delivered` | 1 partition, failing flushes, 1 rebalance |
| `Participants` | pass | `WholeOrAbsent`, `EventuallyFresh`, and `ImplementsMembersView`, the refinement | 2 readers, 1 founder, 2 joiners, 1 fault |
| `ParticipantsJoin` | violation | `FreshAfterJoin`: an old set is cached after the join deleted the key | no fault |
| `Reactions` | pass | `NoFalseMatch`, `CoupleMatched`, `CoupleCleared`, `LikeRemembered`, `MatchAnnounced`, `CouplesMeet`, of the variant with a client | 2 workers, a couple, a dislike and a superlike that may take the place of a like, 1 user that calls `GetLikingProfiles`, 1 fault |
| `ReactionsPanic` | violation | `MatchesChecked`, of the program: it panics in its first check and a couple is never matched | the same without that user and without a fault |
| `Sessions` | pass | `ClosedGone`, `FewSuccessors`; `Rotated`, `ChainKept`, `NoOrphan`, which count what went wrong against what failed | 1 user, 2 requests at a time, 4 sessions, 1 fault |
| `Messages` | pass | `SentIsSaved`, `SaverStoresNothing`, `NoneTwice`, `ScrollComplete` | 3 calls, 1 reader, pages of 1, 3 times, 1 partition, 1 saver, 1 fault |
| `Hub` | pass | `Registry`, `RightOwner`, `PushedOnce` | 3 sockets of one user and 1 of another, 1 message, any number of lives |
| `HubLive` | pass | `Unregistered`, `CrashLoop` | 2 sockets of one user and 1 of another, 1 message, any number of lives |
| `Handlers` | pass | `AvatarsAgree`, `NothingDropped`, `EventuallyListed`, `EventuallySeen` | 3 uploads over 2 seconds; 2 requests, 2 chats, pages of 1; 1 request, 2 fans, pages of 1; 2 requests, 3 candidates in every order; 1 fault each |

`WorkerFaults`, `Participants`, `Reactions`, `Sessions`, `Messages`, `Hub` and
`Handlers` have `TypeOK` as well. Every property of a passing run has a mutant in `PROJECT.json`: a plausible
slip in one mapped definition that makes TLC find it violated.

Why the bounds are enough. The races are between two actors: two workers of a
group, a filler and a joiner, the two checks of a couple, two requests with one
token, a reader and a sender, a handler of a socket and the watcher; two of each
make every pair of steps meet, and the third session, message or upload is there
to come after them. Batches of 2 with 3 messages give the full, the partial and
the failed batch that grows. Pages of 1 with 3 messages give a page inside, one
at the end, and twins that a page parts. Three sockets make an array grow twice
(to 1, 2 and 4 slots), be appended to in place and be shifted in its middle. One
fault in a run gives a failure at every step; more than one is covered by the
proofs, for the properties that are proved. The users of `Sessions` and of the four
handlers share no state, so one of them is enough. The users of the hub share the
heap, and the second one has a socket that a message must not reach. The
four handlers share no row and no key that one of them changes and another
reads: a behaviour of `MCHandlers` is one of `Avatars`, `ChatLists`, `Fans` or
`Discovery`, and the run is the four runs in one.

Deadlock is checked, with these exceptions. In the runs of `ReactionMatch` the
topic is finite and the workers are idle when it is drained. In `Sessions`
everybody may be locked out: when an access token has expired neither `Refresh`
nor `LoginUser` lets the user in again, and sessions are bounded. In `Messages`
the calls are finite, and in `Handlers` the uploads.

Symmetry (workers and partitions, requests, calls, the sockets of one user) is used
in runs of safety and refinement only; the liveness runs have none.

Fairness. `KafkaWorker`: weak fairness of the group's assignment and of the
commit; strong fairness of the fetch and of the two cases of the select, because
Go's select picks at random among the ready cases, and because a `Process` that
fails is assumed to succeed again and again (without it no message need ever be
stored). `ChatParticipants` and `ReactionMatch`: weak fairness of the steps of a
call that has begun, as goroutines are scheduled (the panic of a handler without a
client is such a step); nobody is obliged to make a call, and no fault is fair. `Hub`: weak fairness of the start of the pod, which
Kubernetes does, of the watcher, and of each handler of a socket. A handler waits
for nothing but the lock, which whoever holds it releases in its next step; as a
socket takes the lock twice in a life of the process, it changes hands finitely
often, and weak fairness of the handler that waits is enough. That `WriteJSON`
returns is assumed: it has no deadline, and a client that stops reading could
hold the watcher up. `ChatLists` and `Fans`: Redis expires what has a time to
live, requests run to their end, and the user asks for the first page again and
again: the two properties are about such a user.

## 4. Proofs

`tlapm` checks 33 theorems for every value of the constants.

* `KafkaWorkerProofs`: `TypeCorrect`; `NothingSkippedAlways`, `AccountedAlways`.
  `Accounted` alone is not inductive: after a rebalance a reader may commit an
  offset far above the committed one. `NothingSkipped` adds that all below what
  a reader is about to commit, and all that an owner has read, is accounted for.
* In the same module, for `MaxMoves = 0`: `StoredInOrderAlways` and
  `GroupImplementsAtMostOnce`. `SinglePass` is the invariant: a partition has one
  lane, committed offset = position except while committing, and what is stored,
  batched and in hand follow each other in that order. Each step of the worker is
  a step of `AtMostOnce` or a stutter (`WithinLog` keeps the messages in the
  abstract message set).
* `ChatParticipantsProofs`: `TypeCorrect`; `WholeOrAbsentAlways` and `CacheImplementsMembersView` from `Snapshots`: of two
  lists the chat had one has all of the other, the key has one of them, and so has
  every call that is to write to the key or to answer. So the union that SADD
  makes of an old list and a newer one is the newer one (`UnionIsPast`), which is
  what the refinement turns on.
* `ReactionMatchProofs`: `TypeCorrect`; `NoFalseMatchAlways` from `Justified`
  (every like in Redis, and every check past the match, has its two rows);
  `CoupleMatchedAlways` from `NoneMissed`: of two stored likes of a couple one is
  still to be checked, or is in a check that will see the other, or was noticed.
  It is the argument of two flags raised before each is read.
* `ReactionSetsProofs`, about the same module: `NothingCheckedAlways` from
  `Untouched` (no worker gets past the start of a check, so nothing is added);
  `MatchAnnouncedAlways` from `Announcing` (a transaction past a command has had
  its effect, and what is listed or told is about to be committed);
  `LikeRememberedAlways` from `Remembering` (a like without an answer is where its
  check looks, or some worker has still to add it) and `OneReaction` (the UNIQUE
  constraint: nobody both likes and dislikes the same user);
  `CoupleClearedAlways` from `Clearing`, the longest: a reaction is checked by one
  worker and once (`OneCheck`), so its entries are added once (`AddedOnce`); a
  worker past a removal has removed (`Removing`), for a key is a set, where SREM
  removes, or a sorted set, and then the set has nothing (`TypeOK`); a stored like
  is still to be added, in its set, part of a match at work, or cleared by one
  (`Stands`); and when both likes of a couple are in their sets, one check is at
  the match or will see the other's like (`Seen`). What is in a sorted set has a
  time to live, or the call that made it is at `ExpireFans` (`Timed`).
* `SessionsProofs`: `TypeCorrect` (with `Busy`: a handler past its first
  statement works on a session that exists), `ClosedGoneAlways` (with `Gone`:
  what `Logout` is about to announce is deleted), `FewSuccessorsAlways` (with
  `Replaced`: what `Refresh` is about to replace is deleted, and `Room`: successors
  and those about to make one are together no more than the handlers; nobody joins
  them once the row is gone). The other three count: a set grows by one element in a
  step that is a failure and in no other (`Charged`, `FewMore`). For
  `RotatedAlways` it is `Doubled`, which has the sessions about to be replaced too;
  for `ChainKeptAlways` `Doomed`, which has the valid ones about to be purged, next
  to `Stranded`; for `NoOrphanAlways` `Orphans` itself (with `Addressed`: a handler
  answers the user of its session). `Earlier` says that a session replaces an earlier
  one, so a new one has no successor.
* `MessagesProofs`: `TypeCorrect`; `SentIsSavedAlways` and
  `SaverStoresNothingAlways` from `Origin` (what is with the writer, in the topic
  or in a batch has a row; what the writer no longer holds of a call that waits
  was sent); `NoneTwiceAlways` and `ScrollCompleteAlways` from `Scroll`,
  a conjunction per reader: what was shown is not older than the cursor, a page
  is older, a page has nothing between itself and the cursor that it leaves out,
  and a reader that ended has counted nothing older than its last page.
* `HubProofs`: `TypeCorrect`, `RegistryAlways`, `RightOwnerAlways`,
  `PushedOnceAlways` from `IInv`. It speaks of `cur`, the lists as they are when
  the change under way is stored, and of what lies between: who is at work in the
  hub holds the lock (`Exclusive`), and until the new header is stored the old
  list is the beginning of the new one, or the same array before the shift
  (`Halfway`). The array of a list never held a socket of another user
  (`OwnArrays`), so whatever header the watcher found, if it fits its array, it
  shows sockets of that user only (`RightView`). A header made of two that fits is
  one of the two, or has the length of one in the array of the other
  (`Found` and its lemmas). The watcher's invariant is `Expecting`: a socket of a
  list that did not shrink is in a slot that the watcher has passed and was then
  written to once, or is in one to come and was not. The step that changes an
  array is split into what an append and a shift do to it, with lemmas for each.

* `HandlersProofs`, about `MCHandlers`: `HandlersTypeCorrect`,
  `AvatarsAgreeAlways`, `NothingDroppedAlways`. Each handler has an invariant and a
  step of one leaves the variables of the others alone (`...Step`, `...Stutter`).
  Of the avatar: a row is committed when its request is answered and a clearing
  finds committed rows (`RowsKnown`), so no clearing has found the row of a
  request that is yet to commit; and the photo's row is found by no transaction that
  is about to leave the profile alone (`PhotoShown`). Of the list of chats: what a
  request read is what the user is a member of. Of discovery: while `orderly`, one
  request at most is on its way (`OneAtATime`), what it is to trim is the head of
  the queue (`HeadsInHand`), and the queue is what no answer had (`QueueUnseen`);
  `RestOfOnce` says what trimming the head of a list without repetitions leaves.

The assumptions are the named `ASSUME`s on the constants, which TLC evaluates.

Only model-checked: liveness (`Delivered`, `EventuallyFresh`, `CouplesMeet`,
`Unregistered`, `CrashLoop`, `EventuallyListed`, `EventuallySeen`), as the prover
has no fairness. Every invariant and every action property of a passing run is
proved. `Latest` of `Fans` counts later likes, and `Entries` of `ChatLists` are
pairs; the proofs use of either only what it is a subset of or when it is empty.

## 5. What the code does otherwise than it says

Two runs end in a counterexample; `PROJECT.json` quotes the lines.

1. The handler of the reactions has no client of Redis and checks nothing
   (`ReactionsPanic`; the theorem `NothingCheckedAlways` says that nothing ever comes
   of it).
2. `JoinChat`'s deletion of the key does not make the next readers see the new
   member (`ParticipantsJoin`).

Others are in the modules as the code has them:

* a shutdown loses the message that the reading goroutine has committed and not
  handed over (`Done` in `KafkaWorker`, part of `lost`);
* a death between SADD or ZADD and EXPIRE, or an EXPIRE that fails, leaves members,
  chats or fans in a key that never expires, however old its contents (`Expire` in
  `ChatParticipants`, `Stuck` in `ChatLists`, `Fans`);
* `Refresh` drops the error of its deletion, and the old token stays valid
  (`Delete` in `Sessions`); it takes every error of its query for a missing session,
  and deletes a valid one (`Select`, `Purge`): `Rotated` and `ChainKept` count them;
* a registration whose event fails, and a refresh whose answer is lost, leave a
  session that no client knows and a client without one (`Answer`): `NoOrphan`
  counts the sessions;
* a user who left keeps a key in the hub (`Unregister`); no life of a pod gets past
  the first message of the topic (`RUnlock`, `Die`); one failed read ends the watcher
  and not the pod (`watcher = "ended"`);
* overlapping confirmations leave two current avatars (`Clear` in `Avatars`), and
  overlapping requests trim candidates nobody was shown (`Trimmed` in `Discovery`);
* an answer of 200 to `SendMessage` does not mean that the message is in the
  topic: the writer asks for no acknowledgement (`dropped` in `Messages`);
* with a client of Redis, a couple could get two dialogs (two workers at `Find`
  before either is at `Commit`), and the key of the fans would be of the other kind
  for whoever comes second (`FanAdded`, `FillFans` in `ReactionMatch`); a dialog
  may be announced whose rows are then rolled back (`Commit`);
* the watcher may find a torn header and read past an array (`Overrun` in `Hub`),
  and a removal may make it skip a socket or write to one twice (`Shift`);
* a refresh token of 30 days works for 15 minutes: the route needs a valid access
  token (`Sessions`);
* the saver of messages never stores anything, and keeps each batch it was
  given (`SaverStoresNothing`);
* each message ends the process of every pod that has a watcher, in each of its
  lives (`CrashLoop`);
* the key of a message does not choose its partition, so nothing orders the
  messages of a chat in the topic (`Deliver`);
* a failed count of memberships is answered 403 (`Forbid`, `Refuse`), a failed
  count of older messages ends the history (`CountFails`), a failed transaction
  of an avatar is answered 200 (`Rollback`), and the queue of candidates is
  trimmed when their profiles could not be read (`TrimUnread`);
* the first match of a user without a list makes a list that never expires and
  that no query accepts (`Stuck` in `ChatLists`);
* `ChangeProfile` writes a column no migration creates (`migrated` in `Avatars`).

## 6. Not modelled, and what is left

Not worth a model: search (one query), the saver of registrations (its body is
commented out), login (refuses everything), configuration, migrations beyond the
constraints the modules use, models, the gateway, development mains. `SetReaction`
writes to a topic nobody reads, and `StartNotificationWatcher` is started
nowhere. Of the producer's main, what is left is I/O at start-up: the
connections, the retry of S3, a port that is taken (logged, and the process goes
on without it).

Left for later:

1. `KafkaWorker` with the handlers' `Process` in one module: that a batch refused
   for ever also ends the checks of the reactions that come after it.
2. The scores and cursors of the chat list and of the fans, as data: which chats
   `next_ts` repeats or skips.
3. An abstract specification of the pushes over several pods, for a watcher that
   takes the lock for reading: as the code is, no pod outlives a message.
