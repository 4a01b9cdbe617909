----------------------------- MODULE PageCache -----------------------------
(***************************************************************************)
(* The cached index of posts: the pages SimpleCacheIndex or BigCacheIndex, *)
(* whichever the configuration names, shows instead of the database        *)
(* (internal/dao/cache, internal/dao/monogo/index.go, internal/core).      *)
(*                                                                         *)
(* One goroutine owns the cache.  It receives what SendAction sends on     *)
(* every change of posts, and the pages that readers have fetched.  Both   *)
(* channels are bounded: who finds one full waits in a goroutine of its    *)
(* own, so what is sent is received in any order.                          *)
(*                                                                         *)
(* What the database holds is only counted: a page is the number of        *)
(* changes there were when it was read, and misses those made since.       *)
(***************************************************************************)
EXTENDS Integers, Sequences, FiniteSets

CONSTANTS
    Viewers,    \* the users
    Author,     \* the author of the posts that change
    Anonymous,  \* the key of pages read for nobody
    Empty,      \* no page
    MaxEntries  \* bound: pages fetched and not stored yet

VARIABLES
    log,     \* the changes of posts in the database, in order
    kind,    \* the service that is configured
    pages,   \* the pages in the cache
    loading, \* SimpleCacheIndex: the page its goroutine has read and not stored
    entries, \* BigCacheIndex: the pages fetched and not stored
    actions, \* the changes sent and not received
    recent,  \* BigCacheIndex: the last reset is not older than preventDuration
    muted,   \* changes received when the last reset was recent
    passed   \* changes received before a page that misses them was stored

Keys == Viewers \cup {Anonymous}

\* The changes that a page read after n changes misses.
Missed(n) == IF n = Empty THEN {} ELSE {log[i] : i \in n + 1 .. Len(log)}

CacheInit ==
    /\ kind \in {"simple", "big"}
    /\ pages = [k \in Keys |-> Empty]
    /\ loading = Empty
    /\ entries = {} /\ actions = {}
    /\ recent = FALSE
    /\ muted = {} /\ passed = {}

-----------------------------------------------------------------------------
(* What the database answers, and who asks. *)

\* The query for nobody is answered; the one for a user has a document for its $or
\* where MongoDB wants an array, and is refused.
Answered(k) == k = Anonymous

\* BigCacheIndex.IndexPosts, when the page is not in the cache: the reader fetches it
\* and sends it to the goroutine.
IndexPosts(k) ==
    /\ kind = "big"
    /\ pages[k] = Empty
    /\ Answered(k)
    /\ Cardinality(entries) < MaxEntries
    /\ entries' = entries \cup {<<k, Len(log)>>}
    /\ UNCHANGED <<log, kind, pages, loading, actions, recent, muted, passed>>

\* What a reader is shown: the page, or else what the database holds.
Shown(k) == IF pages[k] # Empty THEN pages[k] ELSE Len(log)

SendAction(c) == actions' = actions \cup {c}

-----------------------------------------------------------------------------
(* SimpleCacheIndex: one page, which its goroutine fetches itself. *)

Check ==
    /\ kind = "simple"
    /\ loading = Empty
    /\ pages[Anonymous] = Empty
    /\ loading' = Len(log)
    /\ UNCHANGED <<log, kind, pages, entries, actions, recent, muted, passed>>

StoreIndex ==
    /\ loading # Empty
    /\ pages' = [pages EXCEPT ![Anonymous] = loading]
    /\ loading' = Empty
    /\ UNCHANGED <<log, kind, entries, actions, recent, muted, passed>>

Receive(c) ==
    /\ c \in actions
    /\ actions' = actions \ {c}

\* MUTANT: the page is fetched in another goroutine.
RemoveAnyTime(c) ==
    /\ kind = "simple"
    /\ Receive(c)
    /\ pages' = [pages EXCEPT ![Anonymous] = Empty]
    /\ UNCHANGED <<log, kind, loading, entries, recent, muted, passed>>

\* Every kind of action removes the page, if there is one.
Remove(c) ==
    /\ kind = "simple"
    /\ loading = Empty
    /\ Receive(c)
    /\ pages' = [pages EXCEPT ![Anonymous] = Empty]
    /\ UNCHANGED <<log, kind, loading, entries, recent, muted, passed>>

\* The expire tick, and the life window of BigCacheIndex.
Expire ==
    /\ loading = Empty
    /\ \E k \in Keys :
          /\ pages[k] # Empty
          /\ pages' = [pages EXCEPT ![k] = Empty]
    /\ UNCHANGED <<log, kind, loading, entries, actions, recent, muted, passed>>

-----------------------------------------------------------------------------
(* BigCacheIndex: pages by reader. *)

SetPosts ==
    \E e \in entries :
        /\ pages' = [pages EXCEPT ![e[1]] = e[2]]
        /\ entries' = entries \ {e}
        /\ passed' = passed \cup (Missed(e[2]) \ actions)
        /\ UNCHANGED <<log, kind, loading, actions, recent, muted>>

\* The pages of the author are removed.
DeleteCacheByAddress(k) == k = Author

\* handleIndexAction: a post that is made private shows in its author's pages only.
\* Otherwise all pages go, but only the author's when pages went recently; either way
\* the time counts from now.
HandleIndexAction(c, private) ==
    /\ kind = "big"
    /\ Receive(c)
    /\ pages' = [k \in Keys |->
                    IF private \/ recent => DeleteCacheByAddress(k)
                    THEN Empty ELSE pages[k]]
    /\ recent' = TRUE
    /\ muted' = IF recent /\ ~private THEN muted \cup {c} ELSE muted
    /\ UNCHANGED <<log, kind, loading, entries, passed>>

PreventDurationPasses ==
    /\ recent
    /\ recent' = FALSE
    /\ UNCHANGED <<log, kind, pages, loading, entries, actions, muted, passed>>
=============================================================================
