# Verification of the FavorDAO backend

TLA+ modules, TLC configurations and TLAPS proofs for the Go service in this
repository: DAOs, posts, comments, red packets and paid subscriptions behind an
HTTP API, on MongoDB, Redis, a job queue (asynq), a full-text search engine and an
external payment gateway.

The models are written from the code, not from its documents. `PROJECT.json` lists
the components, the runs, the lines of source each definition stands for, the
hazards, the findings and the theorems; this file explains them.

## 1. Inventory

A request goes from `internal/routers/api` (binding, signatures) to
`internal/service` (the logic, its transactions and its calls to the gateways), to
`internal/dao` (`monogo` over MongoDB, `cache`, `search`) and `internal/model` (one
file per collection). Requests are goroutines; nothing but MongoDB, Redis and a few
Go maps and channels keeps them apart.

| Component | State | Operations | What makes it hard | What makes it correct |
|---|---|---|---|---|
| Red packets (`service/redpacket.go`, `tasks.go`, `model/redpacket*.go`) | the packet's and the claims' documents; the counter `redpacket_send:<id>` and the queue in Redis; the creator's subscription | create and pay, claim, the gateway's callbacks for the three payments, the delayed task that closes the packet and refunds the rest | transactions that call the gateway, whole-document updates from stale copies, callbacks that are early, late, repeated or lost, retries, restarts | one claim per user; shares add up to the amount; nothing is paid twice; what no one claims goes back; the sender gets an answer |
| Drawing of shares (`redpacketRand`, `redpacketLucked`) | none | one share of what is left | integer division at the boundaries | shares add up, none is negative, the later ones can still be served |
| Payment callbacks (`service/point.go`, `api/pay.go`, `pkg/pointSystem`) | none | dispatch by method to the component that ordered the payment | at-least-once delivery | an outcome is stored once and reaches whoever waits |
| Publish/subscribe (`pkg/psub`) | a map from keys to channels of size 1 | NewSubscribe, Notify, Cancel | two subscribers of one key; Notify against Cancel | a waiting subscriber gets the outcome; no send on a closed channel |
| MongoDB layer (`model/model.go`, `hook.go`, `pkg/util/mongo.go`) | the documents | create, findOne, update (`$set` of the whole struct), findAndUpdate, remove, UseTransaction (retries), MongoTransaction (does not) | snapshots, write conflicts, retries of non-idempotent callbacks | no lost update |
| Job queue (`setupJobServer`, `tasks.go`) | scheduled tasks | RedpacketDone, PostUnpin | retries, restarts, one consumer | every task ends and runs as if once |
| DAO subscriptions (`SubDao`, `eventSubDAO`, `model/dao_subscribe.go`) | orders with a status; the waiting requests' subscriptions | order and pay, wait, callback | two requests of one user, a shared channel, an order nobody is waiting for | one paid order per user and DAO; status follows the payment |
| DAOs, following, bookmarks (`service/dao.go`, `dao/monogo/dao.go`, `model/dao*.go`) | DAO with FollowCount, bookmarks, rows and members of chat groups | create, update, follow, unfollow, cancel | copies read outside transactions, counters that are read and written back, calls of the chat service inside transactions that may still fail | who follows is the same in the count, the bookmarks, the rows, the group and on every screen |
| Posts, stars, collections, views, tags (`service/post.go`, `dao/monogo/tweets.go`) | posts with counters, stars, collections, tags; what a reader may see | create, delete, repost, star, collect, view, stick, change visibility; show one or a page | counters read and written back, check-then-create, a repost against a delete; views made of six reads, in three versions | counters = number of documents; no repost of a deleted post; members, and only they, see what is for members |
| Comments and replies (`service/comment.go`, `dao/monogo/comments.go`) | comments, contents, replies, the post's counter | create, delete | as above, and a cap checked before the insert | CommentCount, the cap |
| Cache of indexes (`dao/cache`) | pages of posts by user and offset | get, fill, expire, delete by action | a page read before and stored after an invalidation | a stale page does not outlive its invalidation for ever |
| Search bridge (`dao/search/bridge.go`) | a channel of updates, workers | add, delete | several workers on one channel, a temporary channel on overflow | the index ends as the posts are |
| Users, sessions, cancellation (`service/user.go`, `middleware/session.go`, `model/user.go`) | users, session tokens, login failures | login, logout, update, request and undo a cancellation, the task that carries it out | whole-document updates from stale copies, many deletes without a transaction | a cancelled account stays cancelled, and only then |
| Messages (`service/notify.go`, `dao/monogo/msg*.go`, `model/msg*.go`) | messages, a row of each per reader, read marks | send (another program), list, read, delete | several documents without a transaction, several devices | a mark stays, the list agrees with what is stored, nothing is orphaned |
| Chat gateway (`pkg/comet`, `service/chat.go`) | none | users, tokens, groups and members at the chat service | which of its errors count as success | its calls are part of the actions that make them |
| Search engines' clients (`dao/search/zinc.go`, `meili.go`) | none | search, add and delete documents | - | what a search leaves out, what an add or delete does; the HTTP is not modelled |
| Authority of reading, signatures, avatars, captcha, routers | none | - | - | pure look-ups or formatting; not modelled |

| Component | Modules |
|---|---|
| Red packets, drawing of shares, job queue, payment callbacks | `Redpacket`, `RedpacketSplit`, `RedpacketDraws` |
| DAO subscriptions, publish/subscribe | `DaoSubscribe` (and the subscription of `Redpacket`) |
| Posts, comments | `PostCounters` (what is stored), `PostFeed` (what of it the cache and the index see), `PostViews` (what a reader sees) |
| Cache of indexes, search bridge | `PageCache`, `SearchBridge`, composed by `PostFeed` |
| DAOs, following | `DaoMembership` (what is promised), `DaoFollow` (how) |
| Users, sessions, cancellation | `Accounts` |
| Messages | `Messages` |
| MongoDB layer, chat gateway | in each of the above, as far as it uses them |

## 2. What is modelled

### Red packets: `Redpacket`

One packet stands for all: every document, key, subscription and task carries its
id. Five kinds of processes interleave, each step one access to shared state.

| Process | Code | Actions |
|---|---|---|
| the creator | `CreateRedpacket` | `Create`, `CreatePay`, `CreateCommit`, `CreateUpdate`, `CreateWait` |
| requests (`Slots`) | `ClaimRedpacket` | `ClaimGate` (limiter, counter, look-up), `ClaimRead` (the transaction's first read), `ClaimWrite` (upsert and conditional update), `ClaimPay`, `ClaimCommit`, `ClaimDecr`, `ClaimError` |
| deliveries (`Handlers`) | `PayNotify` | `SendRead`, `SendUpdate`, `SendSet`, `SendFinish`, `RefundRead`, `RefundUpdate`, `CallbackError` |
| the worker | `HandleRedpacketDoneTask` under asynq | `TaskStart`, `TaskMark`, `TaskRead`, `TaskPay`, `TaskCommit` |
| gateway, server | external | `GatewaySettles`, `Crash` |

* **MongoDB.** `rp` is the packet's committed document and `claims` the claims'. A
  transaction keeps what it read in `snap`; it is in `fresh` as long as that is the
  document's last version. `lock` is the transaction that has written the document.
  Writing a document that another transaction holds or has changed is a write
  conflict: the driver's `WithTransaction` runs the callback again. An update outside
  a transaction waits for the holder.
* **`Update(doc, own)`** is `model.update`: `$set` of the whole struct. `own` names
  the fields the caller means to change; `lost` remembers which others it put back to
  an older value, so that properties can say under which losses they hold.
* **Redis** is `key` and `count`; `Decr` on a missing key makes it with -1, as Redis
  does. `tasks` counts the packet's queued tasks.
* **The gateway** takes an order and answers, refuses it, or takes it and its answer
  is lost. It settles the sender's payment once, and repeats a callback until it is
  answered with success; a delivery beside a running one or after the answer is a
  duplicate. `purse` is what the shared red packet account holds for this packet.
* **Restarts** lose goroutines, subscriptions and open transactions; asynq hands the
  running task out again.

Left out: TxID and RefundStatus (nothing decides on them); `eventClaimRedpacket`
(stores the outcome of a claim's payment, which nothing reads); the rate limiter
(three attempts a minute do not order anything); lists and statistics (they only read).
The Redis gate and the look-up of an earlier claim are one step: neither is in the
transaction, and the transaction checks everything again.

### Drawing of shares: `RedpacketSplit`, `RedpacketDraws`

`RedpacketSplit` holds the sets of amounts one draw may return, used by `Redpacket`
and by `RedpacketDraws`, which draws a whole packet (the loop of `redpacketLucked`,
or the successive calls of `redpacketRand`).

### Paid subscriptions: `DaoSubscribe`

One user and one DAO; each of `Requests` is one call of `POST /dao/sub/:dao_id`. A
request makes at most one order and one channel, and both bear its name.

| Process | Code | Actions |
|---|---|---|
| requests | `api.SubDao`, `service.SubDao`, `SubscribeDAO` | `Arrive`; `FindNone`, `FindOld`, `FindError` (the look-up outside the transaction); `Order`, `Commit`, `UpdateTxID`; `Load`, `Store` (NewSubscribe for an old order); `Hear`, `HearClosed`, `Timeout` (the select); `Return` (with the deferred Cancel) |
| deliveries | `eventSubDAO` | `Deliver` (UpdateSubscribeDAO), `NotifyLoad`, `NotifySend` |
| gateway, server | external | `GatewaySettles`, `Crash` |

`sub` is the `sync.Map` of `pkg/psub`, `buf` and `closed` its channels, `hold` the
`*Notify` each request keeps. `Cancel` deletes by key and closes what was there, which
may be another request's channel; receiving from a closed channel gives nil, sending
to one panics. The message that a panic becomes (gin's Recovery) is `"error"` for a
request and no answer for the gateway, which repeats the callback.

### Posts and what counts on them: `PostCounters`

One post; each of `Requests` is one call of the API, or one run of the PostUnpin task,
and the star, comment, reply or repost it makes bears its name. `Call` stands for the
handler up to the first access to the post (`CallStar` looks for a star first,
`CallOnComment` for the comment, and so on); the rest is a chain of steps, each one
access to the database:

| Operation | Code | Steps |
|---|---|---|
| star, comment, reply | `CreatePostStar`, `CreatePostComment`, `CreatePostCommentReply` | `Read`, `Insert`, `Write` |
| take a star back, delete a reply | `DeletePostStar`, `DeletePostCommentReply` | `Remove`, `Read`, `Write` |
| delete a comment | `DeletePostComment` | `Read`, `Write`, `Remove` |
| view, pin, unpin task, visibility | `CreatePostView`, `StickPost`, `HandlePostUnpinTask`, `VisiblePost` | `Read`, `Write` |
| retweet, quote | `tweetManageServant.CreatePost` | `Read`, `Refer` |
| delete | `DeletePost`, `Post.Delete` | `Read`, `Gather`, `Mark` |

`Write` is `Post.Update`: the whole copy, where `is_del` is 0. `Refer` is the only
transaction that both reads and writes: it commits if what it read is still the last version
of its document (`fresh`) and ends with an error if not, for `MongoTransaction` does not
retry. `VisiblePost` hands its session to the one update of a copy read before; the driver
repeats that transaction until it meets no conflict, so it is a `Write` like the others (and
none at all when the visibility stays the same). `DeletePost` opens a
transaction but hands its session to none of its calls, so `Gather` and `Mark` are steps
of their own.

A retweet may be made of a retweet (`CallRetweet`). `CreatePost` then reads and counts on that
retweet's document (`Target`), but stores the original's `RefId` and looks for an earlier
repost of the original (`tweets.go:416-449`). So retweets of a post and of a retweet of it do
not conflict; the other writes of a retweet's document, which the model has not, only make
more transactions about it fail, as any of them may. `lost` remembers which fields a stale copy put back, and `uneven` which
requests counted down what was not counted (a star taken back twice, a reply deleted
beside its comment), so that the properties can say where the counters are right.

Left out: tags; collections, which cannot be made (`PostCollection.Get` matches private
posts only, and `GetUserPostCollection` dereferences its nil result); what counts on a
retweet's own document, and quotes of a retweet, which refer to it and not to the post;
`UpdateMany` of a post and its retweets is one step.

### DAOs and who follows them: `DaoMembership`, `DaoFollow`

A follower is a bookmark, a row of `chat_group`, a member of the DAO's group at the
chat service and one in `FollowCount`. `DaoFollow` has all four, the transactions that
change them and the calls they make; `DaoMembership` is the abstract specification,
where a follower is a pair in a set and founding, following, leaving, dissolving and
forgetting are one step each.

| Operation | Code | Steps |
|---|---|---|
| follow, leave | `ActionDaoBookmark`, `CreateDaoBookmark`, `DeleteDaoBookmark` | `ActionDaoBookmark` (or `JoinSubscribed`, which a subscription makes), `Begin`, `Write`, `JoinOrLeaveGroup`, `CommitFollow` / `CommitUnfollow` |
| edit | `UpdateDao` | `CallUpdate` (reads the DAO), `RefuseName`, `Begin`, `Write`, `UpdateChatGroup`, `CommitUpdate` |
| create | `CreateDao` | `CallCreate`, `RefuseName`, `BeginCreate`, `CreateChatGroup`, `CommitCreate` |
| cancel an account | `Cancellation`, `DeleteDaoBookmark`, `RealDeleteDAO` | `DeleteChatUser`, `ListBookmarks`, `LeaveNext` and a transaction for each, `DropGroups`, `DropWrite`, `DropCommit`, `Purge` |

A transaction sees the database as it was at `Begin`; `missed` are the DAOs that have been
written since and `holder` the transaction that has written one and not ended, so that
`Write` meets a conflict exactly as MongoDB reports it. Nothing is retried. An edit
replaces the whole DAO with a copy read before its transaction (`lost`). The calls of
the chat service are made inside the transaction, and a commit that fails does not take
them back (`strayed`). `ChatFails`, `CommitFails`, `DropGroupsFails` and `DropFails` are the
faults. What is shown of a DAO has operators of its own (`GetDaoBookmarkList`,
`CountMark`, `GetMyDaoList`, `GetDaoFormatted`), for three screens compute it in three ways.

`DeleteDao` and `KickGroupMembers` have no caller and are not modelled. Names are a refusal that may
happen; the search index of DAOs is `SearchBridge`'s.

### Accounts: `Accounts`

| Process | Code | Actions |
|---|---|---|
| login | `api.Login`, `DoLoginWallet` | `CallLogin` (reads the account), `FindDevice`, `ClearDevice`, `CommitClear` (the device is taken from whoever had it), `CheckTries`, `GoodSignature`, `BadSignature`, `StoreUser` or `BeginCreate`, `CommitUser`, `CommitCreate`, `ClearTries`, `GetAuthToken`, `SetSession` |
| change of the profile | `ChangeNickname`, `ChangeAvatar` | `ChangeUser` (the middleware's copy), `StoreUser`, `CommitUser` |
| anything that makes documents | | `CallMake`, `Make` |
| request to be deleted | `DeleteUser` | `CallDelete`, `Look`, `ListTokens`, `DeleteToken`, `DeleteSession`, `NoMoreTokens`, `StoreWish` |
| the cancellation's ticker | `Cancellation` of `service/user.go` | `Tick`, `NextAddress`, `DeleteChatUser`, `DeleteDaoBookmarks`, `RealDeletePosts`, `RealDeleteDAO`, `Cancellation`, `CancellationFails` |

A user's document is replaced as a whole by whatever copy a request has; that the account is
to be deleted (`wish`) is a field of it, so an older copy takes the wish back (`undone`).
An address can register again after its cancellation: `id` tells the registrations
apart. Sessions are in Redis and their tokens at the chat service, removed
one after the other; `slipped` are the sessions a deletion could not know of, or failed to
remove after their token. `late` are documents made behind the cancellation's back. The run of
the binary with `-del-address`, which cancels one address by hand, is not modelled.

### From a change of a post to the pages and the index: `PageCache`, `SearchBridge`, `PostFeed`

`PostFeed` composes the other two with a post whose changes are stored (`Store`), told to the
cache (`Tell`) and pushed to the search engine (`Unpush`, `PushToSearch`), in three steps.

* `PageCache` has both variants of `dao/cache`: `SimpleCacheIndex`, which keeps the first page
  and refetches it (`Check`, `StoreIndex`, `Remove`), and `BigCacheIndex`, which keeps
  pages per reader, fetched by readers (`IndexPosts`, `SetPosts`, `HandleIndexAction`). A page
  is the number of changes there were when it was read. Both channels are bounded and who finds
  one full waits in a goroutine, so that what is sent is received in any order.
* `SearchBridge` has the two channels, the goroutines for what fits in neither, the workers
  (`UpdateDocs`, `Take`, `HandleUpdate`, `HandleAlone`, `Refuse`), and the process that ends
  with updates in memory (`Exit`).

What the code does and its comments do not say, and the model follows the code:

* The goroutine that is to "watch updateDocsTempch to continue handle update if needed"
  (`bridge.go:61-62`) loops while `count > 60` from a count of 0, so that the second channel
  is filled and never drained.
* `bigcache.go:139` says a reset within the duration is prevented; each action moves the time on,
  whether or not it reset, so under a steady stream of changes only the authors' pages go.
* `cache.go:57` says that the page expires every `ExpireTickDuration`; line 59 uses
  `CheckTickDuration`. `Expire` may happen at any time.
* The query of `IndexPosts` for a user who is logged in has a document for its `$or`, which MongoDB
  refuses: only the page for nobody is ever cached (`Answered`). `GetIndexPosts` has no route.
* A deletion tells the cache nothing (`SendAction` is commented out); a pin by hand and the
  deletion of a comment (`comment.go:154-166`, unlike that of a reply) are not pushed to the index; `VisiblePost` with the visibility the post has stores nothing and
  pushes; `-push-search` logs success and returns before its workers have handled anything.

### Messages: `Messages`

One reader, several devices. A message is a document (`msgs`) and a row for the reader
(`sends`), made by the notification service, which is another program (`StoreMsg`,
`StampSend`, `StoreSend`: external); the mark is a row per sender (`rows`).

| Operation | Code | Steps |
|---|---|---|
| mark as read | `PutNotifyRead` | `GetMsgRead`, `Stamp`, `CreateMsgRead` or `UpdateReadAt`; `GetMsgReadFails` (an error is taken for "no row"), `MarkFails` |
| clear | `DeleteNotifyByFrom` | `ListSends`, `DeleteMsgSend`, `DeleteMsgRead`, `DeleteMsg`, `Cleared`; `ClearFails` |
| list the senders | `NotifyGroupList` | `ListMsgSend`, `GetLastMsg`, `GetMsgById`, `GetSender` |

`UpdateReadAt` sets the whole row, with its `_id`, on every row of the sender: two first marks
that race make two rows, and from then on every mark of that sender is refused
(`Refused`). `GetLast` gives neither a row nor an error when there is none, and its use
panics; so does the error made for an account that is gone, whose code is taken
(`errcode.NewError(000000, ...)`, `notify.go:78`), while a DAO that is gone fails the
whole list.

Left out, since it writes nothing: `DeleteNotifyById` looks a row up by `msgID` where the field is
`msg_id` (`model/msg_send.go:22`, `dao/monogo/msg_send.go:25-33`) and finds none; `GetNotifyUnread`,
`NotifyOrganList`, `NotifyByFrom`, `NotifySys` only read. (`GetNotifyUnread` gives 0 for a sender that
was never marked where the list counts all, and `NotifyOrganList` dereferences nil when the
database fails.)

### What a reader is shown: `PostViews`

A view is put together from half a dozen reads, and there are three versions of the assembly:
`GetPost` with `FilterMemberContent` (one post), `RevampPosts` (pages the search finds) and
`MergePosts` (pages from the database). Three posts tell the cases apart: a video, its quote
from another DAO, and a post that cites a reply.

| Steps | Code |
|---|---|
| `GetPost`; `GetBlockDaoIDs`, `GetBlockPostIDs`, `Search`; `GetUserStars`; `LastPosts` | which posts: one, a search without what is blocked, the starred ones, a DAO's last |
| `GetContents`, `GetUsersByAddresses`, `GetDaos`, `GetSubscribed`, `GetRef`, `FormatPage`, `FilterMemberContent` | the rest of each view, in the order of its version |
| `Subscribe`, `Block`, `DeletePost`, `DeleteByPostId`, `DeleteReply`, `CancelPosts`, `CancelDaos`, `CancelRest` | what happens between two of these reads |

`Search` returns any of the posts it does not exclude, also deleted ones: the index lags behind (that
is `PostFeed`'s subject). What the models bring out, and the properties name as exceptions:
`MergePosts` leaves the DAO of a quoted post blank, so that a subscriber is not shown
the video of a marked quote there; a filter goes by the quote's own mark and never by that of
the post it quotes; a quote of a cancelled author's post panics in `GetPost`
from then on; one cited reply that is gone fails a whole page; the list of followed DAOs
ignores blocked DAOs. Left out: texts, order and length of pages, private posts, collections
(`GetUserCollections` always fails), a search by DAO with a query, which forgets the blocked
DAOs, and `PostStar.Count`, which panics where there is no star.

## 3. What the runs check

| Run | Instance | Shows |
|---|---|---|
| `draws` | amounts to 12, up to 5 shares, both functions | `Exact`, `NoneLeftOut` |
| `rp_faults` | two users, 2 shares of an amount of 2, two deliveries at once, claims from the moment the packet is stored, one fault, duplicate or restart | `SharesCovered`, `Books`, `ClaimsPaid`, `ClosedByRefund` |
| `rp_live` | two requests of one user, all three kinds of packets, one delivery at a time, one fault, duplicate or restart | `ClaimOnce`, `NoLockout`, `PurseTracksBalance`; under fairness `SenderAnswered`, `LeftoverReturned`, `PaidIsClosed` |
| `rp_refund_once` | as `rp_faults` | violated: `RefundedOnce` |
| `sub` | two requests, two deliveries, one fault, duplicate or restart | `HeardIsStored`, `ToldIsPaid`, `PaidTwiceIsRace`; under fairness `SettledIsStored`, `CreatorReleased` |
| `sub_nil` | as `sub` | violated: `NeverNil` |
| `posts` | three requests of two users (enough for a retweet, a retweet of it and one of the post), every operation, a cap of one comment, one request failing half-way | `UpvotesCounted`, `CommentsCounted`, `RefsCounted`, `RetweetOnce`, `OrphanIsLate` |
| `follow` | three requests of two users, two DAOs, one failing call or commit | `FollowsCounted`, `RowsAgree`, `MembersAgree`, `ScreensAgree`; the refinement `IsMembership` |
| `accounts` | two requests of one user, which may delete the account, log in, change the profile or make something, a login of another user with the same device, the cancellation task, one failing call | `WishKept`, `SessionsEnd`, `NothingLeft`; under fairness `DeletionHappens` |
| `feed` | two changes of one post, both caches, two workers, channels of size 1, one refused update or restart | `PageExplained`, `IndexSettled`, `SearchShowsPost` |
| `msgs` | two requests, a DAO and a user sending two messages, one failing read or write | `MarkKept`, `ListExplained`, `OrphanExplained` |
| `views` | every view of three posts, at any point of deletions, a cancellation, a payment and up to two blocks | `VideoShown`, `PanicIsLate`, `BlockedHidden` |

The properties, in words:

* `SharesCovered`: whichever stale copy is written last, the stored balance serves
  the shares still promised.
* `Books`: unless an update has brought an old balance or claim count back, claims and
  balance account for the whole amount.
* `ClaimsPaid`: every claim was ordered at its amount under an order of its own, and
  an order without a claim is explained by a transaction still open or one that failed.
* `ClaimOnce`: no unique index says so, and two requests of one user may pass every
  check together; the write conflict on the packet decides.
* `NoLockout`: until the task runs, the counter in Redis is never below what the
  document still holds.
* `PurseTracksBalance`: if nothing failed, the account holds what the document says.
* `ClosedByRefund`: after a refund is ordered no claim is added, as long as
  `is_timeout` was not lost.
* `SenderAnswered`, `LeftoverReturned`, `PaidIsClosed`: the creator's wait ends, a
  scheduled task ends with nothing left, a paid packet gets its task.
* `HeardIsStored`, `ToldIsPaid`: what a request hears is the stored end of its own
  order's payment; who is told of a subscription has paid for one.
* `PaidTwiceIsRace`: two charges of a user come from two requests that found no order
  at the same time, or from a payment whose transaction did not commit.
* `SettledIsStored`, `CreatorReleased`: the end of a payment is stored and answered,
  though Notify may panic on the way, and releases the request that ordered it.
* `UpvotesCounted`, `CommentsCounted`: if no stale copy went over the field,
  nothing was counted down twice and no request was cut off, the counter is what was
  made less what was taken back, at every point between the steps.
* `RefsCounted`, `RetweetOnce`: the write conflict on the counter keeps two retweets of one
  document by one user apart, and the look-up those that come one after the other; what is left is a
  user with two live retweets, one of the post and one of a retweet of it (or of two retweets), made
  by transactions that did not see each other. The run reaches that state: three requests are enough.
  The counter itself is only lost to writes outside transactions, and counts the reposts
  of the post itself.
* `OrphanIsLate`: a retweet outlives its post only if it was made between the
  deletion's look-up and its update, or of such a retweet.
* `FollowsCounted`: `FollowCount` is the number of followers, unless an edit put an older
  count back, two requests removed the same bookmark, or a cancellation removed one
  without counting it down; following twice from two devices counts once.
* `RowsAgree`, `MembersAgree`: the rows, and the members of the group at the chat service, are
  the followers; the latter but for a commit under way or undone.
* `ScreensAgree`: the three ways to show whether one has joined agree, and the total of the list
  of followed DAOs is its length, though one counts bookmarks and the other looks DAOs up.
* `IsMembership`: the transactions of `DaoFollow`, with their conflicts and faults, do to DAOs and
  bookmarks nothing but the steps of `DaoMembership`.
* `WishKept`: the wish of a user who was told that the account will be deleted stays stored, unless a
  copy read before is written over it. `DeletionHappens`: it is then carried out.
* `SessionsEnd`: who was told so has no session left, but those of a login that the deletion
  could not see, one whose removal failed, and one that is about to be removed.
* `NothingLeft`: a cancelled account leaves nothing but what a request of the same user
  made behind the cancellation's back.
* `PageExplained`: a page misses a change only while word of it is on the way, or for a cause
  that is named: a deletion, a page stored after the word of it, a reset held back.
* `IndexSettled`, `SearchShowsPost`: if updates went through the channel one at a time, the index
  ends as the last of them; and, if no request stored the post between another's reading
  and pushing, as the post is; unless a pin, a repost or the deletion of a comment came last,
  which are stored and never pushed.
* `MarkKept`: the mark a reader was told of stays, there is one row of it and it can be renewed,
  unless two marks of that sender were under way together or one could not read the row.
* `ListExplained`: the list of senders fails or panics only if rows were deleted while it was made, or
  a sender's account or DAO is gone.
* `OrphanExplained`: a message that cannot be reached any more is on its way out, came between the
  listing and the deletion, or belongs to a clearing that failed.
* `VideoShown`: the three assemblies agree on who sees a video for members, whatever happens
  between their reads; who had paid before asking sees it, and nobody who has not paid by now.
* `PanicIsLate`: a view panics only over what a cancellation has taken.
* `BlockedHidden`: what was blocked before asking is not listed, nor a quote of it.

**Bounds.** Two requests are the least that can race, and two deliveries the least
that can overlap; more add requests that repeat what one of two does, since they
meet only in the documents they share. An amount of 2 in 2 shares has shares of 0, 1 and
the rest. `MaxTrouble` = 1 allows one fault, duplicate or restart at any point, which
already breaks what one can break (see the findings); it is a guard of the faults only.
`CHECK_DEADLOCK FALSE`: requests are calls, and when all have been made the models end.

* `sub`: two requests are one that makes the order and one that joins it, or two that race to make
  it. With three the safety properties are proved, and liveness is too large to check.
* `posts`, `follow`: three requests are one that makes something and two that count on it or take it
  back. Two DAOs, of which any may be there at the start, let a cancellation leave
  one and dissolve the other.
* `accounts`: one device that both users log in with, one bad signature allowed (`MaxLoginErrTimes` = 1),
  two registrations of an address (`MaxIds`) and two tokens (`MaxTokens`): before and after a
  cancellation. `Calls` gives each request what it may be.
* `feed`: channels of size 1 (10 to 10000 and 100 in the code) overflow with two changes, as the
  task that unpins pushes twice; `MaxEntries` = 1 is the page fetched and not stored.
* `msgs`: `MaxTime` = 2 tells an older mark from a newer one. It was also checked with three requests and
  no message, where marks and clearings race three ways.
* `views`: `MaxBlocks` is 1 instead of 300, so that a second block crosses the limit.

Symmetry is used in the runs without liveness only, and of requests only among those of one
user.

**Fairness.** Goroutines and the worker run (weak fairness of their steps); the
gateway settles a payment and repeats a callback until it is answered, but never has
to repeat one that was (`UNCHANGED dups`); no one has to claim. asynq's limit of
25 retries is not reached with one fault. Requests to subscribe run, and callers need
not hang up. In `Accounts` the ticker ticks (`Tick`), the task goes on (`TaskStep`) and so does
every request that has begun (`CallStep`); nobody has to call. A cancellation
that fails is tried again at the next tick, and only finitely many fail.

**Findings.**

* `rp_refund_once`: `RefundTxID` is stored by the refund's callback only,
  so between the order and the callback "check need refund" (`tasks.go:54-55`) sees an
  empty id: a task that is retried, a transaction the driver runs again, or a second
  task from a repeated callback refunds once more, from the account all packets share.
* `sub_nil`: a second request for an order in `submit` waits on the first one's channel
  (`NewSubscribe` returns the subscription there is). The channel carries one value and is closed by
  whoever leaves first; the other receives nil, and `val.(core.DaoSubscribeT)` (`dao.go:503`)
  panics, though the payment may have gone through.

## 4. What is proved

TLAPS checks every proof with no constant fixed: any number of requests, users,
deliveries, DAOs, messages, workers, faults and restarts, any amounts. The assumptions are those of
the constants, each named in its module (`RedpacketAssumption`, `DrawsAssumption`,
`SubscribeAssumption`, `PostAssumption`, `FollowAssumption`, `AccountsAssumption`, `MessagesAssumption`,
`FeedAssumption`, `ViewsAssumption`): that a bound is a natural number, that a map of the constants is one, that
`None`, `"old"` or `Idle` is nobody's name. `FollowAssumption` also has finitely many users and DAOs, for
followers and bookmarks are counted; their identifiers are of 20 and 12 bytes.

Sums are cardinalities: the claims of a packet are as good as the set of the units they gave
(`Units`), which grows by an interval with every claim. A recursive sum could not be reasoned about.

* `RedpacketProofs`, of the shares (`RedpacketDraws`): a share of `redpacketRand` is at most the balance, and if
  the balance was worth a unit per share, what it leaves is too. The heart is
  `n * (b \div n) <= b`; with twice the quotient less one taken, `(n - 2) * q + 1`
  remains. From it types, `NoneLeftOut`, `NeverPanics` (`redpacketLucked` never asks for a
  random number of an empty range) and `Exact` of a whole split; the last because what is drawn and what is
  left make up the amount, and the last share is all that is left.
* `RedpacketProofs`, of `Redpacket`: all safety properties of `rp_faults` and `rp_live`. `TypeOK`, `SharesCovered`,
  `ClaimOnce` and `ClosedByRefund` rest on `IInv`; none
  is inductive alone. That a balance stays natural needs that the share of the
  transaction holding the document was drawn from its snapshot (`SharePending`), that
  every copy that may be written back is covered (`CopiesCovered`), what the creator's
  checks let through (`TermsFit`), and that nobody works on a packet before it is
  stored (`Started`). `ClaimOnce` needs that a snapshot that is still the last version
  shows no claim of its user (`FreshIsOpen`), and `ClosedByRefund` that only an update
  unmarks a marked packet (`MarkedOrLost`). One lemma per
  process shows that its steps keep it. On top of it:
  * `Books` needs that a snapshot that is the last version has the document's balance and
    count (`SnapsCurrent`), so that what a commit takes off a copy it takes off the document.
  * `ClaimsPaid` needs that the order of a transaction on its way to its commit is there and is
    no claim's (`OrderPending`). Every order beyond the claims is then one that is awaited, or was
    left behind by a fault or a restart that the history counts.
  * `NoLockout` is not inductive: between a commit and its `Decr` the counter is too high, and how
    much is what `CounterInv` counts (`Uncounted`), down to the moment before the counter is set.
  * `PurseTracksBalance` is about runs in which nothing goes wrong (`Calm`), and needs all of their
    order: before the sender's payment no money moves (`Unpaid`); the callback that schedules the task runs once
    and so does the task (`OneTask`); the refund it orders is what the document holds (`RefundReady`). From it
    follows what `rp_refund_once` refutes in general: `Calm => RefundedOnce`.
* `DaoSubscribeProofs`: `TypeOK`, `HeardIsStored`, `ToldIsPaid`, `PaidTwiceIsRace`, and two that no run
  repeats: `NoStray` (what the map of subscriptions holds is open and will be cancelled by
  the request it belongs to) and `PanicIsShared` (a closed channel costs an answer only where two
  requests wait for one order). The invariant names things: a request's order
  and the channels it may hold (`OrdersNamed`, `ChannelsNamed`), what has not been
  opened is not closed (`ClosedWasOpen`), orders and channels carry the end of their
  own payment (`OrderFollowsPayment`), who closed a channel under a waiting request
  (`ClosedByAnother`), and which requests may both make an order (`MakersAreRivals`).
* `PostCountersProofs`: all properties of the run `posts`, and two that no run repeats: `CapKept` (what is
  counted stays within the cap) and `StaysDeleted` (no stale copy revives a deleted post). The counters
  need that what is inserted and not yet counted is there or about to be counted down by
  exactly one request (`StarsAccounted`, `CommentsAccounted`), and then every step adds or
  removes the one element it counts; `RetweetOnce` that a transaction that can still commit
  sees every live repost made of its own document, which is still there (`FreshSeen`); `OrphanIsLate` what a deletion about to happen has
  seen (`GatheredOrLate`); the cap what a copy let through (`CapHolds`).
* `DaoFollowProofs`: `TypeOK`, `FollowsCounted`, `RowsAgree`, and the refinement:
  `THEOREM Implements == Spec => IsMembership`. The invariant says what a request
  may rely on: on its way to a write, the DAO it has read is as it was, or was written since
  and the request will meet a conflict; from its write to its commit it holds the DAO
  (`Fit`, `Expects`). With it a commit changes the count by one and exactly one bookmark.
  `FollowersOfOpen` is what makes dissolving a DAO one step of the abstract specification. Each action
  is mapped to one abstract step or to a stutter, with one lemma for each process.
  `ScreensAgree` follows from the same invariant, for there is one bookmark to a user and DAO and the list
  loses none of them when it looks up what it shows. `MembersAgree` has an invariant of its own (`GroupInv`):
  the call of the chat service is before the commit, and in between, when the members are
  not the followers, the request holds the DAO and nobody else is there; a new DAO's group has
  its owner alone; a cancelled user is nobody's member.
* `AccountsProofs`: `TypeOK`, `WishKept`, `SessionsEnd`, `NothingLeft`. `WishKept` needs that a copy
  with the wish in it was read from a user who was told, unless that registration is
  gone (`Copied`), and whose registration a writer holds (`Writing`); `SessionsEnd` that a session
  nothing slipped past has its token at the chat service and on the list of everybody who is
  deleting the account (`Known`); `NothingLeft` which kinds a cancellation has passed.
* `MessagesProofs`: `TypeOK`, `MarkKept`, `OrphanExplained`, `ListExplained`. As long as no two marks of a
  sender crossed there is at most one row, it is the one the reader was told of, and it is what the
  one request that marks has found, or a clearing came between (`Sole`, `Fits`). The proof
  changed the property: "a mark is refused only after two crossed", said of
  answers given, is false with three requests, when a clearing between the refusal and
  now makes the crossing forgotten; it is now said of a mark about to be refused. `ListExplained` needs
  that whatever a list has still to show has a row, unless rows were deleted since it began (`Listable`),
  and that a set of rows has a newest one: times are naturals, and `<` is well-founded on those.
* `PostFeedProofs`: all properties of the run `feed`. `PageExplained` is said of what a page shows, and
  is inductive when said of everything that is kept or about to be (`PagesInv`): the page fetched and not yet
  stored may miss a change for the same causes. `IndexSettled` needs where the updates are: those not taken
  are in the channel in the order they were sent, the one taken last is in one worker's hands or
  is what the index holds, and nobody helps out (`BridgeInv`). `SearchShowsPost` needs that a request between its
  store and its push is the last that stored, and that without one the last update is right (`PushInv`).
* `PostViewsProofs`: all properties of the run `views`, with any limit of blocks instead of 300 and any number of
  them. `IInv` says of each step what the view has read by then: if nothing was cancelled, all
  the users and DAOs it asked for (`ReadInv`), from which `PanicIsLate` follows; whose videos a page has let
  through, and which a single post still has to filter (`ShownInv`); and what was blocked and is
  excluded (`HiddenInv`). For the latter a later block must not make an older one newer: the blocks before one
  are counted, and the counts before and after are compared by an injection (`BlocksAge`).

Every safety property of a passing run is thus a theorem. Model-checked only:

* the liveness properties (`SenderAnswered`, `LeftoverReturned`, `PaidIsClosed`, `SettledIsStored`,
  `CreatorReleased`, `DeletionHappens`), for the prover does neither fairness nor ENABLED;
* the two violations, which are counterexamples. What holds of `RefundedOnce` is proved: it needs a fault, a
  restart, a repeated callback or a lost update to break it.

## 5. Plan, and what is not modelled

In this order:

1. Tags, and quotes of reposts: the chain of references a quote can make.
2. An abstract `RedpacketPot` (amount = left + given + returned) implemented by
   `Redpacket` as long as nothing is lost, with a theorem.
3. Private posts and their readers in `PostViews`.

**Not modelled**, and why:

* Authority of reading (`dao/monogo/authority.go`): `isFriend` answers true and the filters are
  empty ("just empty now"); there is nothing to decide.
* Signatures, avatars, captcha, object storage: libraries and pure functions.
* Routers, middleware other than the session's, configuration, start-up: wiring.
* The HTTP of the chat, search, payment and notification services: what they answer is in the
  actions that call them, and their own behaviour is external.
* Lists and statistics that only read and whose result no property is about; tags; collections, which
  cannot be made.
* `DeleteDao`, `KickGroupMembers`: no caller. `-del-address`: a run by hand of what the
  cancellation task does.
* The red packet's claim callback (`eventClaimRedpacket`): what it stores is never read.
