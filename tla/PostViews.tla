------------------------------ MODULE PostViews -----------------------------
(***************************************************************************)
(* What a reader is shown of posts: one post, the pages that the search    *)
(* engine finds and the pages made from the database                       *)
(* (internal/service/post.go, internal/dao/monogo/tweets.go,               *)
(* internal/dao/search/zinc.go, internal/routers/api/post.go).             *)
(*                                                                         *)
(* A view is put together from half a dozen reads: posts, contents, users, *)
(* DAOs, subscriptions, what each post quotes.  Between any two of them a  *)
(* post can be deleted, an account cancelled, a subscription paid.  There  *)
(* are three versions of this assembly, which are meant to agree on who    *)
(* sees the video of a post for members.                                   *)
(*                                                                         *)
(* Three posts tell the cases apart: a video in a DAO, its quote by        *)
(* somebody else in another DAO, and a post that cites a reply made by the *)
(* author of the video.  The author is the one whose account may be        *)
(* cancelled.  Left out: texts, order and length of a page, who follows    *)
(* what, private posts.                                                    *)
(***************************************************************************)
EXTENDS Integers, Sequences, FiniteSets

CONSTANTS
    MaxBlocks, \* the blocked posts, and DAOs, that a search excludes (300 in the code)
    Blockable, \* bound: the posts and DAOs that the viewer may block
    MaxBlocked \* bound: how many of them

ASSUME ViewsAssumption ==
    /\ MaxBlocks \in Nat \ {0}
    /\ MaxBlocked \in Nat
    /\ Blockable \subseteq {"video", "quote", "citing", "da", "db"}

VARIABLES
    viewer,   \* who reads: nobody who is known, the author, or another user
    marked,   \* the posts that are for members
    stored,   \* each post is live, deleted (the row remains) or gone
    contents, \* the contents of the video are there
    reply,    \* the reply that is cited is there
    users,    \* the accounts there are
    daos,     \* the DAOs there are
    subs,     \* the viewer has subscribed the DAO of the video
    blocked,  \* what the viewer has blocked, the newest first
    cancel,   \* how far the cancellation of the author's account is
    pc, call, \* where the view is, and what it has read
    \* History:
    before,   \* what was subscribed, blocked and cancelled when the view began
    meddled   \* TRUE after a step of the cancellation during the view

data == <<stored, contents, reply, users, daos>>
mine == <<subs, blocked>>
vars == <<viewer, marked, data, mine, cancel, pc, call, before, meddled>>

-----------------------------------------------------------------------------
(* The posts. *)

Posts == {"video", "quote", "citing"}
Daos  == {"da", "db"}

Address(p) == IF p = "video" THEN "author" ELSE "other"
DaoId(p) == IF p = "video" THEN "da" ELSE "db"

\* Who and what is quoted; a reply has no DAO.
AuthorId(p) == IF p = "video" THEN {} ELSE {"author"}
AuthorDaoId(p) == IF p = "quote" THEN {"da"} ELSE {}
RefPost(p) == IF p = "quote" THEN {"video"} ELSE {}
RefReply(p) == p = "citing"

\* The views: one post; the list, with what is blocked left out, the one of the DAOs
\* that the viewer follows, and a user's or a DAO's; and from the database the posts
\* starred and the last post of a DAO.
Searches == {"list", "focus", "profile"}
Merges == {"stars", "last"}
Views == {"post"} \cup Searches \cup Merges

Nothing == [view |-> "none", page |-> {}, hidden |-> {}, own |-> {}, users |-> {},
            daos |-> {}, told |-> {}, left |-> {}, shown |-> {}, error |-> "none"]

\* What a view has before it when nothing has happened.
Clean == [subs |-> FALSE, blocked |-> {}, cancel |-> "no"]

Init ==
    /\ viewer \in {"nobody", "author", "reader"}
    /\ marked \in SUBSET {"video", "quote"}
    /\ stored = [p \in Posts |-> "live"]
    /\ contents = TRUE
    /\ reply = TRUE
    /\ users = {"author", "other"}
    /\ daos = Daos
    /\ subs = FALSE
    /\ blocked = <<>>
    /\ cancel = "no"
    /\ pc = "idle"
    /\ call = Nothing
    /\ before = Clean
    /\ meddled = FALSE

Live == {p \in Posts : stored[p] = "live"}
Rows == {p \in Posts : stored[p] # "gone"}
SetOf(s) == {s[i] : i \in DOMAIN s}

Goto(label) == pc' = label
Only(part) == call' = part
Reading == UNCHANGED <<viewer, marked, data, mine, cancel, before, meddled>>

-----------------------------------------------------------------------------
(* What happens meanwhile. *)

\* The callback of a payment.
Subscribe ==
    /\ viewer = "reader"
    /\ "da" \in daos
    /\ ~subs
    /\ subs' = TRUE
    /\ UNCHANGED <<viewer, marked, data, blocked, cancel, pc, call, before, meddled>>

\* BlockPost and BlockDAO want it to be there; a second time changes nothing.
Block(x) ==
    /\ viewer # "nobody"
    /\ Len(blocked) < MaxBlocked
    /\ x \in (Blockable \cap (Live \cup daos)) \ SetOf(blocked)
    /\ blocked' = <<x>> \o blocked
    /\ UNCHANGED <<viewer, marked, data, subs, cancel, pc, call, before, meddled>>

\* Post.Delete is given the database and not the transaction's session, so that it
\* is seen before the contents are deleted.
DeletePost(p) ==
    /\ stored[p] = "live"
    /\ stored' = [stored EXCEPT ![p] = "deleted"]
    /\ UNCHANGED <<viewer, marked, contents, reply, users, daos, mine, cancel,
                   pc, call, before, meddled>>

DeleteByPostId ==
    /\ stored["video"] = "deleted"
    /\ contents
    /\ contents' = FALSE
    /\ UNCHANGED <<viewer, marked, stored, reply, users, daos, mine, cancel,
                   pc, call, before, meddled>>

DeleteReply ==
    /\ reply
    /\ reply' = FALSE
    /\ UNCHANGED <<viewer, marked, stored, contents, users, daos, mine, cancel,
                   pc, call, before, meddled>>

\* Nothing is blocked twice.
Unblocked(x) ==
    IF x \notin SetOf(blocked) THEN blocked
    ELSE LET i == CHOOSE i \in DOMAIN blocked : blocked[i] = x
         IN  SubSeq(blocked, 1, i - 1) \o SubSeq(blocked, i + 1, Len(blocked))

\* The account is cancelled in three transactions: posts, DAOs, the rest.  A quote has
\* contents of its own and outlives the post that it quotes.
CancelPosts ==
    /\ cancel = "no"
    /\ cancel' = "posts"
    /\ stored' = [stored EXCEPT !["video"] = "gone"]
    /\ contents' = FALSE
    /\ blocked' = Unblocked("video")
    /\ meddled' = TRUE
    /\ UNCHANGED <<viewer, marked, reply, users, daos, subs, pc, call, before>>

CancelDaos ==
    /\ cancel = "posts"
    /\ cancel' = "daos"
    /\ daos' = daos \ {"da"}
    /\ blocked' = Unblocked("da")
    /\ meddled' = TRUE
    /\ UNCHANGED <<viewer, marked, stored, contents, reply, users, subs, pc,
                   call, before>>

CancelRest ==
    /\ cancel = "daos"
    /\ cancel' = "rest"
    /\ users' = users \ {"author"}
    /\ reply' = FALSE
    /\ meddled' = TRUE
    /\ UNCHANGED <<viewer, marked, stored, contents, daos, mine, pc, call, before>>

\* An answer is looked at as it is given.
Meanwhile ==
    /\ pc # "answered"
    /\ \/ Subscribe
       \/ \E x \in Posts \cup Daos : Block(x)
       \/ \E p \in Posts : DeletePost(p)
       \/ DeleteByPostId \/ DeleteReply
       \/ CancelPosts \/ CancelDaos \/ CancelRest

-----------------------------------------------------------------------------
(* The posts of a view. *)

Called(v) ==
    /\ pc = "idle"
    /\ before' = [subs |-> subs, blocked |-> IF v \in Searches THEN SetOf(blocked) ELSE {},
                  cancel |-> cancel]
    /\ meddled' = FALSE
    /\ UNCHANGED <<viewer, marked, data, mine, cancel>>

Found(v, page, hidden) == [Nothing EXCEPT !.view = v, !.page = page, !.hidden = hidden]

\* GetPostByID.
GetPost(p) ==
    /\ Called("post")
    /\ Only(IF p \in Live THEN Found("post", {p}, {})
                          ELSE [Nothing EXCEPT !.view = "post", !.error = "not found"])
    /\ Goto(IF p \in Live THEN "contents" ELSE "answered")

\* What has fewer than MaxBlocks newer blocks of its kind.
Newer(i, kind) == {j \in 1 .. i - 1 : blocked[j] \in kind}
Newest(kind) == {x \in kind : \E i \in DOMAIN blocked :
                     blocked[i] = x /\ Cardinality(Newer(i, kind)) < MaxBlocks}

\* GetPostList and GetFocusPostList read what is blocked in two queries, of which the
\* latter makes only the one about posts; GetUserPosts and GetDaoPosts make none.
GetBlockDaoIDs(v) ==
    /\ Called(v)
    /\ v = "focus" => viewer # "nobody"
    /\ Only(Found(v, {}, IF v = "list" THEN Newest(Daos) ELSE {}))
    /\ Goto("blocks")

GetBlockPostIDs ==
    /\ pc = "blocks"
    /\ Only([call EXCEPT !.hidden = @ \cup IF call.view = "profile" THEN {} ELSE Newest(Posts)])
    /\ Goto("search")
    /\ Reading

\* MUTANT: the DAO of the post that is quoted does not count.
NamesNoAuthorDao(p) == {p, DaoId(p)} \cup RefPost(p)

\* A post is left out for what it is, where it is, and what it quotes.
Names(p) == {p, DaoId(p)} \cup RefPost(p) \cup AuthorDaoId(p)

MustNot(p, hidden) == Names(p) \cap hidden # {}

\* Any query, any page of the result; the documents lag behind the posts for as long
\* as the bridge takes, so that any may be missing, and there for posts deleted.
Search ==
    /\ pc = "search"
    /\ \E page \in SUBSET {p \in Posts : ~MustNot(p, call.hidden)} :
          Only([call EXCEPT !.page = page, !.hidden = {}])
    /\ Goto("contents")
    /\ Reading

\* The stars are joined with the rows of the posts, those of deleted ones too.
GetUserStars ==
    /\ Called("stars")
    /\ viewer # "nobody"
    /\ \E page \in SUBSET Rows : Only(Found("stars", page, {}))
    /\ Goto("contents")

\* The last post of a type in a DAO, shown with the DAO: one that fails is left out.
LastPosts ==
    /\ Called("last")
    /\ \E p \in Live : Only(Found("last", {p}, {}))
    /\ Goto("contents")

-----------------------------------------------------------------------------
(* The rest of a view. *)

Single == call.view = "post"
Answer(what) == Only(what) /\ Goto("answered")
Panic == Answer([call EXCEPT !.error = "panic", !.shown = {}])

\* GetPost then reads what the post quotes, the pages only at their end.
GetContents ==
    /\ pc = "contents"
    /\ Only([call EXCEPT !.own = IF contents THEN {"video"} \cap call.page ELSE {},
                         !.left = call.page])
    /\ Goto(IF Single THEN "refs" ELSE "users")
    /\ Reading

\* MUTANT: the author of what is quoted is not asked for.
AddressesNoAuthor(p) == {Address(p)}

\* MergePosts does not ask for the authors of what is quoted, and shows none.
Addresses(p) == {Address(p)} \cup IF call.view \in Merges THEN {} ELSE AuthorId(p)

GetUsersByAddresses ==
    /\ pc = "users"
    /\ Only([call EXCEPT !.users = users \cap UNION {Addresses(p) : p \in call.page}])
    /\ Goto("daos")
    /\ Reading

\* The users and DAOs that GetPost formats without looking whether they were found.
Formatted(p) == {Address(p), DaoId(p)} \cup AuthorId(p) \cup AuthorDaoId(p)

DaoIds(p) == {DaoId(p)} \cup IF call.view \in Merges THEN {} ELSE AuthorDaoId(p)

GetDaos ==
    /\ pc = "daos"
    /\ LET found == daos \cap UNION {DaoIds(p) : p \in call.page}
       IN  IF Single /\ \E p \in call.page : ~(Formatted(p) \subseteq call.users \cup found)
           THEN Panic
           ELSE Only([call EXCEPT !.daos = found, !.users = {}]) /\ Goto("subscribed")
    /\ Reading

\* The owner of a DAO counts as subscribed.
Subs == IF subs THEN {"da"} ELSE {}
Owned == IF viewer = "author" THEN {"da"} ELSE {}

GetSubscribed ==
    /\ pc = "subscribed"
    /\ Only([call EXCEPT !.told = call.daos \cap (Subs \cup Owned)])
    /\ Goto(IF Single THEN "filter" ELSE "refs")
    /\ Reading

\* MUTANT: the DAO of the quote decides.
DecidingDaoOwn(p) == DaoId(p)

\* Where the DAO that decides is looked for: the quote's own mark counts, and the DAO
\* of the post that it quotes.
DecidingDao(p) == IF p = "video" THEN DaoId(p) ELSE CHOOSE d \in AuthorDaoId(p) : TRUE
Poster(p) == IF p = "video" THEN Address(p) ELSE CHOOSE a \in AuthorId(p) : TRUE

\* What a page's filter takes the viewer for: it goes by the DAO as read, which is
\* blank for the DAO of a quoted post in MergePosts, and panics when there is none.
Blank(p) == call.view \in Merges /\ p = "quote"
Undecided(p) == p \in marked /\ viewer # "nobody" /\ viewer # Poster(p)
Lacks(p) == Undecided(p) /\ ~Blank(p) /\ DecidingDao(p) \notin call.daos
MaySee(p) == \/ p \notin marked
             \/ viewer = Poster(p)
             \/ Undecided(p) /\ ~Blank(p) /\ DecidingDao(p) \in call.told

\* The video among the contents read of p, or of what it quotes.
HasVideo(p, own) == \/ p = "video" /\ p \in own
                    \/ p = "quote" /\ contents

GetRef(p) ==
    /\ pc = "refs"
    /\ p \in call.left
    /\ LET rest  == [call EXCEPT !.left = @ \ {p}]
           video == IF HasVideo(p, call.own) THEN {p} ELSE {}
       IN  IF RefReply(p) /\ ~reply
           THEN Answer([call EXCEPT !.error = "failed", !.shown = {}])
           ELSE IF Single
           THEN Only([rest EXCEPT !.shown = video]) /\ Goto("users")
           ELSE IF Lacks(p)
           THEN Panic
           ELSE /\ Only([rest EXCEPT !.shown = @ \cup IF MaySee(p) THEN video ELSE {}])
                /\ UNCHANGED pc
    /\ Reading

FormatPage ==
    /\ pc = "refs"
    /\ call.left = {}
    /\ Answer(call)
    /\ Reading

\* FilterMemberContent asks for the subscription again.
FilterMemberContent ==
    /\ pc = "filter"
    /\ Answer([call EXCEPT !.shown = {p \in call.shown :
                  \/ p \notin marked
                  \/ viewer = Poster(p)
                  \/ DecidingDao(p) \in Subs}])
    /\ Reading

Done ==
    /\ pc = "answered"
    /\ Only(Nothing)
    /\ Goto("idle")
    /\ before' = Clean
    /\ meddled' = FALSE
    /\ UNCHANGED <<viewer, marked, data, mine, cancel>>

View ==
    \/ \E p \in Posts : GetPost(p) \/ GetRef(p)
    \/ \E v \in Searches : GetBlockDaoIDs(v)
    \/ GetBlockPostIDs \/ Search \/ GetUserStars \/ LastPosts
    \/ GetContents \/ GetUsersByAddresses \/ GetDaos \/ GetSubscribed
    \/ FormatPage \/ FilterMemberContent \/ Done

Next == View \/ Meanwhile

Spec == Init /\ [][Next]_vars

-----------------------------------------------------------------------------
(* Properties. *)

Answered == pc = "answered" /\ call.error = "none"

\* Whoever pays for a DAO, or owns it, before asking.
Member == viewer = "author" \/ before.subs

\* Who may see the video of p by now, and who must; the exception is MergePosts.
May(p) == p \notin marked \/ viewer = "author" \/ subs
Must(p) == /\ contents
           /\ p \notin marked \/ Member \/ "da" \in call.told
           /\ ~(Blank(p) /\ p \in marked /\ viewer = "reader")

\* The three assemblies agree on who sees a video: nobody sees one for members
\* without being its author or a subscriber of its DAO by now; who was before asking
\* sees it in every view, as does everybody an unmarked one, as long as it is there;
\* and a page that says that the viewer has subscribed shows it.  The exception is
\* MergePosts, which hides from a subscriber the video of a marked quote.
VideoShown ==
    Answered => \A p \in call.page \ {"citing"} :
        /\ p \in call.shown => May(p)
        /\ Must(p) => p \in call.shown

\* A view panics only over what a cancellation has taken: while it ran, or before if
\* the view finds a post that outlives the account or that the search engine still
\* has.  With the account in place no order of deletions makes it panic, and a page
\* fails only over a reply that is gone.
PanicIsLate ==
    pc = "answered" =>
        /\ call.error = "panic" =>
              \/ meddled
              \/ before.cancel # "no" /\ "quote" \in call.page
              \/ before.cancel # "no" /\ "citing" \in call.page /\ Single
              \/ before.cancel # "no" /\ "video" \in call.page /\ call.view \in Searches
        /\ call.error = "failed" => ~reply /\ "citing" \in call.page

\* What was blocked before asking and is among the newest blocked; the list of the DAOs
\* followed goes by the posts only.
Held == before.blocked \cap
            (Newest(Posts) \cup IF call.view = "list" THEN Newest(Daos) ELSE {})

\* It is not listed: no blocked post and no quote of one, nor posts of a blocked DAO or
\* quotes of them.
Hidden ==
    /\ "quote" \in call.page => {"quote", "video", "da", "db"} \cap Held = {}
    /\ "video" \in call.page => {"video", "da"} \cap Held = {}
    /\ "citing" \in call.page => {"citing", "db"} \cap Held = {}

\* What the viewer has blocked before asking for a list is hidden in it, whatever is
\* blocked or deleted meanwhile.  (A cancellation during the view may take a newer
\* block away, and with it what made this one too old.)
BlockedHidden == Answered /\ ~meddled /\ call.view \in {"list", "focus"} => Hidden

-----------------------------------------------------------------------------
(* The invariant that the proofs use. *)

Labels == {"idle", "blocks", "search", "contents", "users", "daos", "subscribed",
           "refs", "filter", "answered"}
Stages == {"no", "posts", "daos", "rest"}
People == {"author", "other"}

Call == [view : Views \cup {"none"}, page : SUBSET Posts, hidden : SUBSET (Posts \cup Daos),
         own : SUBSET Posts, users : SUBSET People, daos : SUBSET Daos,
         told : SUBSET Daos, left : SUBSET Posts, shown : SUBSET Posts,
         error : {"none", "not found", "panic", "failed"}]

TypeOK ==
    /\ viewer \in {"nobody", "author", "reader"}
    /\ marked \in SUBSET {"video", "quote"}
    /\ stored \in [Posts -> {"live", "deleted", "gone"}]
    /\ contents \in BOOLEAN /\ reply \in BOOLEAN /\ subs \in BOOLEAN /\ meddled \in BOOLEAN
    /\ users \in SUBSET People
    /\ daos \in SUBSET Daos
    /\ blocked \in Seq(Posts \cup Daos)
    /\ cancel \in Stages
    /\ pc \in Labels
    /\ call \in Call
    /\ before \in [subs : BOOLEAN, blocked : SUBSET (Posts \cup Daos), cancel : Stages]

\* What each stage of the cancellation has taken, and what it leaves.
WorldInv ==
    /\ stored["quote"] # "gone" /\ stored["citing"] # "gone"
    /\ stored["video"] = "gone" <=> cancel # "no"
    /\ "other" \in users /\ "db" \in daos
    /\ cancel # "rest" => "author" \in users
    /\ cancel \in {"no", "posts"} => "da" \in daos
    /\ subs => viewer = "reader"

\* A view under way, and what has not changed since it began.
CallInv ==
    pc # "idle" =>
        /\ call.view \in Views
        /\ ~meddled => cancel = before.cancel
        /\ before.subs => subs
        /\ call.left \subseteq call.page
        /\ call.error # "none" => pc = "answered"
        /\ pc \in {"blocks", "search"} => call.view \in Searches /\ call.page = {}
        /\ Single /\ pc # "answered" => \E p \in Posts : call.page = {p}
        /\ pc = "filter" => Single
        /\ "video" \in call.page /\ call.view \notin Searches => before.cancel = "no"

\* What a view has read by each of its steps as far as nothing has been cancelled.
ReadInv ==
    ~meddled /\ before.cancel = "no" =>
        /\ pc = "daos" => call.users = UNION {Addresses(p) : p \in call.page}
        /\ pc = "subscribed" \/ (pc = "refs" /\ ~Single) =>
              call.daos = UNION {DaoIds(p) : p \in call.page}

\* VideoShown, step by step.  A page is filtered post by post, a single post at the end.
ShownInv ==
    /\ call.told \subseteq {"da"}
    /\ "da" \in call.told => subs \/ viewer = "author"
    /\ pc \in {"users", "daos", "subscribed", "refs"} /\ contents =>
          call.page \cap {"video"} \subseteq call.own
    /\ pc \in {"users", "daos", "subscribed", "filter"} /\ contents /\ Single =>
          call.page \ {"citing"} \subseteq call.shown
    /\ pc \notin {"refs", "answered"} /\ ~Single => call.shown = {}
    /\ IF Single THEN pc = "refs" => call.left = call.page
                 ELSE pc \in {"users", "daos", "subscribed"} => call.left = call.page
    /\ pc = "refs" /\ ~Single =>
          /\ before.subs /\ "da" \in call.daos => "da" \in call.told
          /\ \A p \in call.page \ {"citing"} :
                /\ p \in call.shown => May(p)
                /\ p \notin call.left /\ Must(p) => p \in call.shown

\* BlockedHidden, step by step.
HiddenInv ==
    pc # "idle" /\ ~meddled /\ call.view \in {"list", "focus"} =>
        /\ before.blocked \subseteq SetOf(blocked)
        /\ pc = "blocks" /\ call.view = "list" =>
              before.blocked \cap Newest(Daos) \subseteq call.hidden
        /\ pc = "search" => Held \subseteq call.hidden
        /\ pc \notin {"blocks", "search"} => Hidden

IInv ==
    /\ TypeOK /\ WorldInv /\ CallInv /\ ReadInv /\ ShownInv /\ HiddenInv
    /\ VideoShown /\ PanicIsLate
=============================================================================
