--------------------------- MODULE PostViewsProofs --------------------------
(***************************************************************************)
(* PostViews, proved for every limit of blocked posts and DAOs and any     *)
(* number of blocks: VideoShown, PanicIsLate and BlockedHidden, from the   *)
(* invariant IInv, which says what each step of a view has read.           *)
(***************************************************************************)
EXTENDS PostViews, FiniteSetTheorems, TLAPS

USE ViewsAssumption

-----------------------------------------------------------------------------
(* Lemmas about the posts and about what is blocked. *)

\* The DAO of the video decides, and so does its author, for the video and its quote.
LEMMA Deciding ==
    \A p \in {"video", "quote"} : DecidingDao(p) = "da" /\ Poster(p) = "author"
<1>1. (CHOOSE d \in {"da"} : TRUE) = "da" /\ (CHOOSE a \in {"author"} : TRUE) = "author"
    OBVIOUS
<1> QED BY <1>1 DEF DecidingDao, Poster, DaoId, AuthorDaoId, Address, AuthorId

LEMMA NewerFinite ==
    ASSUME TypeOK, NEW i \in Nat, NEW kind
    PROVE  IsFiniteSet(Newer(i, kind)) /\ Cardinality(Newer(i, kind)) \in Nat
<1>1. IsFiniteSet(1 .. i - 1)
    BY FS_Interval
<1>2. Newer(i, kind) \subseteq 1 .. i - 1
    BY DEF Newer
<1> QED BY <1>1, <1>2, FS_Subset, FS_CardinalityType

\* Another block makes none of the blocks there are newer.
LEMMA BlocksAge ==
    ASSUME TypeOK, NEW x \in Posts \cup Daos, blocked' = <<x>> \o blocked, NEW kind
    PROVE  /\ SetOf(blocked') = SetOf(blocked) \cup {x}
           /\ Newest(kind)' \subseteq Newest(kind) \cup {x}
<1>1. /\ blocked \in Seq(Posts \cup Daos) /\ blocked' \in Seq(Posts \cup Daos)
      /\ Len(blocked') = Len(blocked) + 1 /\ Len(blocked) \in Nat
      /\ blocked'[1] = x
      /\ \A i \in 1 .. Len(blocked) : blocked'[i + 1] = blocked[i]
    BY DEF TypeOK
<1>2. DOMAIN blocked = 1 .. Len(blocked) /\ DOMAIN blocked' = 1 .. Len(blocked) + 1
    BY <1>1
<1>3. \A j \in DOMAIN blocked' : j = 1 \/ (j - 1 \in DOMAIN blocked /\ blocked'[j] = blocked[j - 1])
    BY <1>1, <1>2
<1>4. \A i \in DOMAIN blocked : i + 1 \in DOMAIN blocked' /\ blocked'[i + 1] = blocked[i]
    BY <1>1, <1>2
<1>5. SetOf(blocked') = SetOf(blocked) \cup {x}
    <2>1. \A y : y \in SetOf(blocked') => y \in SetOf(blocked) \cup {x}
        BY <1>1, <1>3 DEF SetOf
    <2>2. \A y \in SetOf(blocked) : y \in SetOf(blocked')
        BY <1>4 DEF SetOf
    <2>3. 1 \in DOMAIN blocked'
        BY <1>1, <1>2
    <2>4. x \in SetOf(blocked')
        BY <1>1, <2>3 DEF SetOf
    <2> QED BY <2>1, <2>2, <2>4
<1>6. ASSUME NEW y \in Newest(kind)', y # x PROVE y \in Newest(kind)
    <2>1. PICK j \in DOMAIN blocked' :
              blocked'[j] = y /\ Cardinality(Newer(j, kind)') < MaxBlocks
        BY <1>6 DEF Newest, Newer
    <2>2. j # 1 /\ j - 1 \in DOMAIN blocked /\ blocked[j - 1] = y /\ j - 1 \in Nat /\ j \in Nat
        BY <1>1, <1>2, <1>3, <1>6, <2>1
    <2>3. y \in kind
        BY <1>6 DEF Newest
    <2> DEFINE Older == Newer(j - 1, kind)
               Now == Newer(j, kind)'
               f == [i \in Older |-> i + 1]
    <2>4. IsFiniteSet(Now) /\ Cardinality(Now) \in Nat
        <3>1. IsFiniteSet(1 .. j - 1)
            BY <2>2, FS_Interval
        <3>2. Now \subseteq 1 .. j - 1
            BY DEF Newer
        <3> QED BY <3>1, <3>2, FS_Subset, FS_CardinalityType
    <2>5. \A i \in Older : i \in Nat /\ i + 1 \in Now
        <3> SUFFICES ASSUME NEW i \in Older PROVE i \in Nat /\ i + 1 \in Now
            OBVIOUS
        <3>1. i \in 1 .. j - 2 /\ blocked[i] \in kind
            BY <2>2 DEF Newer
        <3>2. i \in DOMAIN blocked
            BY <1>2, <2>2, <3>1
        <3> QED BY <1>4, <2>2, <3>1, <3>2 DEF Newer
    <2>6. IsFiniteSet(Older) /\ Cardinality(Older) <= Cardinality(Now)
        <3>1. f \in Injection(Older, Now)
            <4> HIDE DEF Older, Now
            <4> QED BY <2>5 DEF Injection, IsInjective
        <3>2. IsFiniteSet(Older)
            <4>1. TypeOK /\ j - 1 \in Nat
                BY <2>2
            <4> QED BY <4>1, NewerFinite
        <3> HIDE DEF Older, Now, f
        <3> QED BY <2>4, <3>1, <3>2, FS_Injection
    <2>7. Cardinality(Older) \in Nat
        BY <2>6, FS_CardinalityType
    <2>8. Cardinality(Older) < MaxBlocks
        BY <2>1, <2>4, <2>6, <2>7
    <2> QED BY <2>2, <2>3, <2>8 DEF Newest
<1> QED BY <1>5, <1>6

LEMMA HeldStays ==
    ASSUME UNCHANGED <<blocked, before>>
    PROVE  /\ \A kind : Newest(kind)' = Newest(kind)
           /\ SetOf(blocked') = SetOf(blocked)
           /\ call'.view = call.view => Held' = Held
<1>1. blocked' = blocked /\ before' = before
    OBVIOUS
<1>2. \A kind : Newest(kind)' = Newest(kind)
    BY <1>1 DEF Newest, Newer
<1> QED BY <1>1, <1>2 DEF Held, SetOf

-----------------------------------------------------------------------------
(* The steps of a view. *)

LEMMA InitHolds == Init => IInv
<1> SUFFICES ASSUME Init PROVE IInv
    OBVIOUS
<1> USE DEF Init, Nothing, Clean
<1>1. TypeOK
    <2>1. call \in Call
        BY DEF Call, Views, Searches, Merges
    <2>2. before \in [subs : BOOLEAN, blocked : SUBSET (Posts \cup Daos), cancel : Stages]
        BY DEF Stages
    <2>3. stored \in [Posts -> {"live", "deleted", "gone"}] /\ blocked \in Seq(Posts \cup Daos)
        OBVIOUS
    <2> QED BY <2>1, <2>2, <2>3 DEF TypeOK, Labels, Stages, People
<1>2. WorldInv /\ CallInv /\ ReadInv /\ ShownInv /\ HiddenInv
    BY DEF WorldInv, CallInv, ReadInv, ShownInv, HiddenInv, Posts, Daos
<1>3. VideoShown /\ PanicIsLate
    BY DEF VideoShown, PanicIsLate, Answered
<1> QED BY <1>1, <1>2, <1>3 DEF IInv

\* What a step of a view leaves to show.
LEMMA ReadingKeeps ==
    ASSUME IInv, Reading, pc' \in Labels, call' \in Call
    PROVE  TypeOK' /\ WorldInv'
BY DEF IInv, Reading, data, mine, TypeOK, WorldInv

LEMMA GetPostKeeps == ASSUME IInv, NEW p \in Posts, GetPost(p) PROVE IInv'
<1> USE DEF GetPost, Called, Goto, Only
<1>1. TypeOK /\ WorldInv /\ pc = "idle"
    BY DEF IInv
<1>2. UNCHANGED <<viewer, marked, stored, contents, reply, users, daos, subs, blocked, cancel>>
    BY DEF data, mine
<1>3. meddled' = FALSE /\ before' = [subs |-> subs, blocked |-> {}, cancel |-> cancel]
    BY DEF Searches
<1>4. before' \in [subs : BOOLEAN, blocked : SUBSET (Posts \cup Daos), cancel : Stages]
    BY <1>1, <1>3 DEF TypeOK
<1>5. WorldInv'
    BY <1>1, <1>2 DEF WorldInv
<1>6. CASE p \in Live
    <2> DEFINE one == {p}
    <2>1. one \in SUBSET Posts
        OBVIOUS
    <2>2. call' = Found("post", one, {}) /\ pc' = "contents"
        BY <1>6
    <2>3. /\ call' \in Call /\ call'.view = "post" /\ call'.page = one /\ call'.left = {}
          /\ call'.error = "none" /\ call'.told = {} /\ call'.shown = {}
        <3> HIDE DEF one
        <3> QED BY <2>1, <2>2 DEF Found, Nothing, Call, Views
    <2>4. p = "video" => cancel = "no"
        BY <1>1, <1>6 DEF Live, WorldInv
    <2>5. TypeOK'
        BY <1>1, <1>2, <1>3, <1>4, <2>2, <2>3 DEF TypeOK, Labels
    <2>6. CallInv'
        <3>1. call'.view \in Views /\ Single'
            BY <2>3 DEF Views, Single
        <3>2. before'.subs = subs' /\ before'.cancel = cancel'
            BY <1>2, <1>3
        <3>3. call'.page = {p} /\ call'.left \subseteq call'.page
            BY <2>3
        <3> QED BY <1>2, <2>2, <2>3, <2>4, <3>1, <3>2, <3>3 DEF CallInv
    <2>7. ReadInv' /\ ShownInv' /\ HiddenInv' /\ VideoShown' /\ PanicIsLate'
        BY <2>2, <2>3 DEF ReadInv, ShownInv, HiddenInv, VideoShown, PanicIsLate, Answered, Single
    <2> QED BY <1>5, <2>5, <2>6, <2>7 DEF IInv
<1>7. CASE p \notin Live
    <2>1. call' = [Nothing EXCEPT !.view = "post", !.error = "not found"] /\ pc' = "answered"
        BY <1>7
    <2>2. /\ call' \in Call /\ call'.view = "post" /\ call'.page = {} /\ call'.left = {}
          /\ call'.error = "not found" /\ call'.told = {} /\ call'.shown = {}
        BY <2>1 DEF Nothing, Call, Views
    <2>3. TypeOK'
        BY <1>1, <1>2, <1>3, <1>4, <2>1, <2>2 DEF TypeOK, Labels
    <2>4. CallInv'
        <3>1. call'.view \in Views /\ Single'
            BY <2>2 DEF Views, Single
        <3>2. before'.subs = subs' /\ before'.cancel = cancel'
            BY <1>2, <1>3
        <3>3. "video" \notin call'.page /\ call'.left \subseteq call'.page
            BY <2>2
        <3> QED BY <2>1, <3>1, <3>2, <3>3 DEF CallInv
    <2>5. ReadInv' /\ ShownInv' /\ HiddenInv' /\ VideoShown' /\ PanicIsLate'
        BY <2>1, <2>2 DEF ReadInv, ShownInv, HiddenInv, VideoShown, PanicIsLate, Answered, Single
    <2> QED BY <1>5, <2>3, <2>4, <2>5 DEF IInv
<1> QED BY <1>6, <1>7

LEMMA GetBlockDaoIDsKeeps == ASSUME IInv, NEW v \in Searches, GetBlockDaoIDs(v) PROVE IInv'
<1> USE DEF GetBlockDaoIDs, Called, Goto, Only
<1>1. TypeOK /\ WorldInv
    BY DEF IInv
<1>2. UNCHANGED <<viewer, marked, stored, contents, reply, users, daos, subs, blocked, cancel>>
    BY DEF data, mine
<1>3. meddled' = FALSE /\ before' = [subs |-> subs, blocked |-> SetOf(blocked), cancel |-> cancel]
    OBVIOUS
<1>4. Newest(Daos) \subseteq Daos /\ SetOf(blocked) \subseteq Posts \cup Daos
    BY <1>1 DEF Newest, SetOf, TypeOK
<1> DEFINE h == IF v = "list" THEN Newest(Daos) ELSE {}
<1>5. call' = [Nothing EXCEPT !.view = v, !.page = {}, !.hidden = h] /\ pc' = "blocks"
    BY DEF Found
<1>6. /\ call' \in Call /\ call'.view = v /\ call'.page = {} /\ call'.left = {}
      /\ call'.error = "none" /\ call'.told = {} /\ call'.shown = {} /\ call'.hidden = h
    <2>1. h \subseteq Daos
        BY <1>4
    <2> HIDE DEF h
    <2> QED BY <1>5, <2>1 DEF Nothing, Call, Views
<1>7. TypeOK' /\ WorldInv'
    <2>1. before' \in [subs : BOOLEAN, blocked : SUBSET (Posts \cup Daos), cancel : Stages]
        BY <1>1, <1>3, <1>4 DEF TypeOK
    <2>2. TypeOK'
        BY <1>1, <1>2, <1>3, <1>5, <1>6, <2>1 DEF TypeOK, Labels
    <2>3. WorldInv'
        BY <1>1, <1>2 DEF WorldInv
    <2> QED BY <2>2, <2>3
<1>8. CallInv' /\ ReadInv'
    BY <1>2, <1>3, <1>5, <1>6 DEF CallInv, ReadInv, Single, Views, Searches
<1>9. ShownInv' /\ VideoShown' /\ PanicIsLate'
    BY <1>5, <1>6 DEF ShownInv, VideoShown, PanicIsLate, Answered, Single, Searches
<1>10. HiddenInv'
    <2>1. Newest(Daos)' = Newest(Daos) /\ SetOf(blocked)' = SetOf(blocked)
        BY <1>2 DEF Newest, Newer, SetOf
    <2> QED BY <1>2, <1>3, <1>5, <1>6, <2>1 DEF HiddenInv
<1> QED BY <1>7, <1>8, <1>9, <1>10 DEF IInv

LEMMA GetBlockPostIDsKeeps == ASSUME IInv, GetBlockPostIDs PROVE IInv'
<1> USE DEF GetBlockPostIDs, Goto, Only
<1> DEFINE more == IF call.view = "profile" THEN {} ELSE Newest(Posts)
<1>1. /\ TypeOK /\ CallInv /\ pc = "blocks" /\ pc' = "search" /\ call \in Call
      /\ UNCHANGED <<viewer, marked, stored, contents, subs, blocked, cancel, before, meddled>>
    BY DEF IInv, TypeOK, Reading, data, mine
<1>2. Newest(Posts) \subseteq Posts
    BY DEF Newest
<1> DEFINE all == call.hidden \cup more
<1>3. call' = [call EXCEPT !.hidden = all] /\ all \in SUBSET (Posts \cup Daos)
    <2>1. more \subseteq Posts
        BY <1>2
    <2>2. all \in SUBSET (Posts \cup Daos)
        <3> HIDE DEF more
        <3> QED BY <1>1, <2>1 DEF Call
    <2> QED BY <2>2
<1>4. /\ call' \in Call /\ call'.view = call.view /\ call'.page = call.page /\ call'.left = call.left
      /\ call'.error = call.error /\ call'.told = call.told /\ call'.shown = call.shown
      /\ call'.hidden = call.hidden \cup more
    <2> HIDE DEF all
    <2>1. call'.hidden = all
        BY <1>1, <1>3 DEF Call
    <2> QED BY <1>1, <1>3, <2>1 DEF Call, all
<1>5. TypeOK' /\ WorldInv'
    BY <1>1, <1>4, ReadingKeeps DEF Labels
<1>6. CallInv' /\ ReadInv'
    BY <1>1, <1>4 DEF CallInv, ReadInv, Single, Views, Searches
<1>7. ShownInv' /\ VideoShown' /\ PanicIsLate'
    BY <1>1, <1>4 DEF IInv, ShownInv, VideoShown, PanicIsLate, Answered, Single, Searches
<1>8. HiddenInv'
    <2>1. /\ Held' = Held /\ SetOf(blocked') = SetOf(blocked)
          /\ Newest(Daos)' = Newest(Daos)
        BY <1>1, <1>4, HeldStays
    <2>2. ASSUME ~meddled, call.view \in {"list", "focus"} PROVE Held \subseteq call'.hidden
        <3>1. call.view = "list" => before.blocked \cap Newest(Daos) \subseteq call.hidden
            BY <1>1, <2>2 DEF IInv, HiddenInv
        <3> QED BY <1>4, <2>2, <3>1 DEF Held
    <2> QED BY <1>1, <1>4, <2>1, <2>2 DEF IInv, HiddenInv
<1> QED BY <1>5, <1>6, <1>7, <1>8 DEF IInv

LEMMA ReadingFacts ==
    Reading => UNCHANGED <<viewer, marked, stored, contents, reply, users, daos, subs,
                           blocked, cancel, before, meddled>>
BY DEF Reading, data, mine

\* A step that reads and keeps the posts found.
LEMMA SameCall ==
    ASSUME IInv, Reading, pc # "idle", pc' \in Labels \ {"idle", "blocks", "search", "filter"},
           call' \in Call, call'.view = call.view, call'.page = call.page,
           call'.left \subseteq call'.page, call'.error # "none" => pc' = "answered",
           pc # "answered"
    PROVE  CallInv'
BY ReadingFacts DEF IInv, CallInv, Single

LEMMA SameHidden ==
    ASSUME IInv, Reading, pc \notin {"idle", "blocks", "search"}, pc' \notin {"blocks", "search"},
           call'.view = call.view, call'.page = call.page
    PROVE  HiddenInv'
<1>1. Held' = Held /\ SetOf(blocked') = SetOf(blocked)
    BY ReadingFacts, HeldStays
<1> QED BY <1>1, ReadingFacts DEF IInv, HiddenInv, Hidden

LEMMA SearchKeeps == ASSUME IInv, Search PROVE IInv'
<1> USE DEF Search, Goto, Only
<1>1. /\ TypeOK /\ CallInv /\ pc = "search" /\ pc' = "contents" /\ call \in Call
      /\ UNCHANGED <<viewer, marked, stored, contents, subs, blocked, cancel, before, meddled>>
    BY DEF IInv, TypeOK, Reading, data, mine
<1>2. PICK page \in SUBSET {p \in Posts : ~MustNot(p, call.hidden)} :
          call' = [call EXCEPT !.page = page, !.hidden = {}]
    OBVIOUS
<1>3. /\ call' \in Call /\ call'.view = call.view /\ call'.page = page /\ call'.left = call.left
      /\ call'.error = call.error /\ call'.told = call.told /\ call'.shown = call.shown
    BY <1>1, <1>2 DEF Call
<1>4. call.view \in Searches /\ call.view # "post" /\ call.left = {}
    BY <1>1 DEF CallInv, Searches
<1>5. TypeOK' /\ WorldInv'
    BY <1>1, <1>3, ReadingKeeps DEF Labels
<1>6. CallInv' /\ ReadInv'
    BY <1>1, <1>3, <1>4 DEF CallInv, ReadInv, Single
<1>7. ShownInv' /\ VideoShown' /\ PanicIsLate'
    BY <1>1, <1>3, <1>4 DEF IInv, ShownInv, VideoShown, PanicIsLate, Answered, Single
<1>8. HiddenInv'
    <2>1. Held' = Held /\ SetOf(blocked') = SetOf(blocked)
        BY <1>1, <1>3, HeldStays
    <2>2. ASSUME ~meddled, call.view \in {"list", "focus"} PROVE Hidden'
        <3>1. Held \subseteq call.hidden
            BY <1>1, <2>2 DEF IInv, HiddenInv
        <3>2. \A p \in page : Names(p) \cap Held = {}
            BY <3>1 DEF MustNot
        <3> QED BY <1>3, <2>1, <3>2 DEF Hidden, Names, DaoId, RefPost, AuthorDaoId
    <2> QED BY <1>1, <1>3, <2>1, <2>2 DEF IInv, HiddenInv
<1> QED BY <1>5, <1>6, <1>7, <1>8 DEF IInv

LEMMA MergeKeeps == ASSUME IInv, GetUserStars \/ LastPosts PROVE IInv'
<1> USE DEF GetUserStars, LastPosts, Called, Goto, Only
<1>1. TypeOK /\ WorldInv
    BY DEF IInv
<1>2. UNCHANGED <<viewer, marked, stored, contents, reply, users, daos, subs, blocked, cancel>>
    BY DEF data, mine
<1>3. /\ meddled' = FALSE /\ pc' = "contents"
      /\ before' = [subs |-> subs, blocked |-> {}, cancel |-> cancel]
    BY DEF Searches
<1>4. PICK v \in Merges, page \in SUBSET Rows : call' = Found(v, page, {})
    <2>1. CASE GetUserStars
        BY <2>1 DEF Merges
    <2>2. CASE LastPosts
        <3>1. PICK p \in Live : call' = Found("last", {p}, {})
            BY <2>2
        <3>2. {p} \in SUBSET Rows /\ "last" \in Merges
            BY DEF Live, Rows, Merges
        <3> QED BY <3>1, <3>2
    <2> QED BY <2>1, <2>2
<1>5. /\ call' \in Call /\ call'.view = v /\ call'.page = page /\ call'.left = {}
      /\ call'.error = "none" /\ call'.told = {} /\ call'.shown = {}
    <2>1. page \in SUBSET Posts
        BY DEF Rows
    <2> QED BY <1>4, <2>1 DEF Found, Nothing, Call, Views
<1>6. v # "post" /\ v \notin Searches /\ v \in Views
    BY DEF Merges, Searches, Views
<1>7. "video" \in page => cancel = "no"
    BY <1>1 DEF Rows, WorldInv
<1>8. TypeOK' /\ WorldInv'
    <2>1. before' \in [subs : BOOLEAN, blocked : SUBSET (Posts \cup Daos), cancel : Stages]
        BY <1>1, <1>3 DEF TypeOK
    <2>2. TypeOK'
        BY <1>1, <1>2, <1>3, <1>5, <2>1 DEF TypeOK, Labels
    <2>3. WorldInv'
        BY <1>1, <1>2 DEF WorldInv
    <2> QED BY <2>2, <2>3
<1>9. CallInv' /\ ReadInv'
    <2>1. before'.subs = subs' /\ before'.cancel = cancel'
        BY <1>2, <1>3
    <2> QED BY <1>2, <1>3, <1>5, <1>6, <1>7, <2>1 DEF CallInv, ReadInv, Single
<1>10. ShownInv' /\ HiddenInv' /\ VideoShown' /\ PanicIsLate'
    BY <1>3, <1>5, <1>6 DEF ShownInv, HiddenInv, VideoShown, PanicIsLate, Answered, Single, Searches
<1> QED BY <1>8, <1>9, <1>10 DEF IInv

LEMMA GetContentsKeeps == ASSUME IInv, GetContents PROVE IInv'
<1> USE DEF GetContents, Goto, Only
<1> DEFINE mine2 == IF contents THEN {"video"} \cap call.page ELSE {}
<1>1. /\ TypeOK /\ CallInv /\ ShownInv /\ pc = "contents" /\ call \in Call
      /\ pc' = IF Single THEN "refs" ELSE "users"
      /\ call.page \in SUBSET Posts /\ call.error = "none"
    BY DEF IInv, TypeOK, Call, CallInv
<1>2. call' = [call EXCEPT !.own = mine2, !.left = call.page] /\ mine2 \in SUBSET Posts
    BY <1>1
<1>3. /\ call' \in Call /\ call'.view = call.view /\ call'.page = call.page /\ call'.left = call.page
      /\ call'.error = call.error /\ call'.told = call.told /\ call'.shown = call.shown
      /\ call'.own = mine2
    <2> HIDE DEF mine2
    <2> QED BY <1>1, <1>2 DEF Call
<1>4. TypeOK' /\ WorldInv'
    BY <1>1, <1>3, ReadingKeeps DEF Labels
<1>5. CallInv' /\ HiddenInv'
    BY <1>1, <1>3, SameCall, SameHidden DEF Labels
<1>6. ReadInv' /\ VideoShown' /\ PanicIsLate'
    BY <1>1, <1>3 DEF ReadInv, VideoShown, PanicIsLate, Answered, Single
<1>7. ShownInv'
    BY <1>1, <1>3, ReadingFacts DEF ShownInv, Single
<1> QED BY <1>4, <1>5, <1>6, <1>7 DEF IInv

LEMMA GetUsersKeeps == ASSUME IInv, GetUsersByAddresses PROVE IInv'
<1> USE DEF GetUsersByAddresses, Goto, Only
<1> DEFINE asked == UNION {Addresses(p) : p \in call.page}
           us == users \cap asked
<1>1. /\ TypeOK /\ CallInv /\ ShownInv /\ WorldInv /\ pc = "users" /\ pc' = "daos"
      /\ call \in Call /\ call.page \in SUBSET Posts /\ call.error = "none"
    BY DEF IInv, TypeOK, Call, CallInv
<1>2. call' = [call EXCEPT !.users = us] /\ us \in SUBSET People
    BY <1>1 DEF TypeOK
<1>3. /\ call' \in Call /\ call'.view = call.view /\ call'.page = call.page /\ call'.left = call.left
      /\ call'.error = call.error /\ call'.told = call.told /\ call'.shown = call.shown
      /\ call'.own = call.own /\ call'.users = us
    <2> HIDE DEF us
    <2> QED BY <1>1, <1>2 DEF Call
<1>4. TypeOK' /\ WorldInv'
    BY <1>1, <1>3, ReadingKeeps DEF Labels
<1>5. CallInv' /\ HiddenInv'
    BY <1>1, <1>3, SameCall, SameHidden DEF Labels, CallInv
<1>6. ReadInv'
    <2>1. ASSUME ~meddled, before.cancel = "no" PROVE us = asked
        <3>1. users = People
            BY <1>1, <2>1 DEF TypeOK, WorldInv, CallInv, People
        <3>2. \A p \in Posts : Addresses(p) \subseteq People
            BY DEF Addresses, Address, AuthorId, People
        <3> QED BY <1>1, <3>1, <3>2
    <2>2. (UNION {Addresses(p) : p \in call.page})' = asked
        BY <1>3 DEF Addresses
    <2> HIDE DEF us, asked
    <2> QED BY <1>1, <1>3, <2>1, <2>2, ReadingFacts DEF ReadInv
<1>7. VideoShown' /\ PanicIsLate' /\ ShownInv'
    BY <1>1, <1>3, ReadingFacts DEF VideoShown, PanicIsLate, Answered, ShownInv, Single
<1> QED BY <1>4, <1>5, <1>6, <1>7 DEF IInv

LEMMA GetDaosKeeps == ASSUME IInv, GetDaos PROVE IInv'
<1> USE DEF Goto, Only
<1> DEFINE asked == UNION {DaoIds(p) : p \in call.page}
           found == daos \cap asked
<1>1. /\ TypeOK /\ CallInv /\ ShownInv /\ ReadInv /\ WorldInv /\ pc = "daos" /\ Reading
      /\ call \in Call /\ call.page \in SUBSET Posts /\ call.error = "none"
    BY DEF IInv, TypeOK, Call, CallInv, GetDaos
<1>2. found \in SUBSET Daos
    BY <1>1 DEF TypeOK
<1>3. ASSUME ~meddled, before.cancel = "no" PROVE found = asked
    <2>1. daos = Daos
        <3>1. cancel = "no"
            BY <1>1, <1>3 DEF CallInv
        <3>2. "da" \in daos /\ "db" \in daos /\ daos \in SUBSET Daos
            BY <1>1, <3>1 DEF TypeOK, WorldInv
        <3> QED BY <3>2 DEF Daos
    <2>2. \A p \in Posts : DaoIds(p) \subseteq Daos
        BY DEF DaoIds, DaoId, AuthorDaoId, Daos
    <2> QED BY <1>1, <2>1, <2>2
<1>4. CASE Panic
    <2>1. call' = [call EXCEPT !.error = "panic", !.shown = {}] /\ pc' = "answered"
        BY <1>4 DEF Panic, Answer
    <2>2. /\ call' \in Call /\ call'.view = call.view /\ call'.page = call.page /\ call'.left = call.left
          /\ call'.error = "panic" /\ call'.told = call.told /\ call'.shown = {}
        BY <1>1, <2>1 DEF Call
    <2>3. PICK q \in call.page : Single /\ call.page = {q} /\ ~(Formatted(q) \subseteq call.users \cup found)
        <3>1. Single /\ \E p \in call.page : ~(Formatted(p) \subseteq call.users \cup found)
            BY <1>4, <1>1, <2>2 DEF GetDaos, Panic, Answer
        <3> QED BY <1>1, <3>1 DEF CallInv
    <2>4. TypeOK' /\ WorldInv'
        BY <1>1, <2>1, <2>2, ReadingKeeps DEF Labels
    <2>5. CallInv' /\ HiddenInv'
        BY <1>1, <2>1, <2>2, SameCall, SameHidden DEF Labels, CallInv
    <2>6. meddled \/ before.cancel # "no"
        <3> SUFFICES ASSUME ~meddled, before.cancel = "no" PROVE FALSE
            OBVIOUS
        <3>1. found = DaoIds(q) /\ call.users = Addresses(q)
            <4>1. asked = DaoIds(q) /\ UNION {Addresses(p) : p \in call.page} = Addresses(q)
                BY <2>3
            <4> QED BY <1>1, <1>3, <4>1 DEF ReadInv
        <3> QED BY <2>3, <3>1 DEF Formatted, Addresses, DaoIds, Single, Merges
    <2>7. PanicIsLate'
        <3>1. call.view = "post" /\ "video" \in call.page => before.cancel = "no"
            BY <1>1 DEF CallInv, Searches
        <3>2. call.page \subseteq {"video", "quote", "citing"} /\ call.view = "post"
            BY <1>1, <2>3 DEF Posts, Single
        <3> QED BY <2>2, <2>3, <2>6, <3>1, <3>2, <1>1, ReadingFacts DEF PanicIsLate, Single
    <2>8. ReadInv' /\ ShownInv' /\ VideoShown'
        BY <1>1, <2>1, <2>2, ReadingFacts DEF ReadInv, ShownInv, VideoShown, Answered
    <2> QED BY <2>4, <2>5, <2>7, <2>8 DEF IInv
<1>5. CASE ~Panic
    <2>1. call' = [call EXCEPT !.daos = found, !.users = {}] /\ pc' = "subscribed"
        BY <1>5 DEF GetDaos
    <2>2. /\ call' \in Call /\ call'.view = call.view /\ call'.page = call.page /\ call'.left = call.left
          /\ call'.error = "none" /\ call'.told = call.told /\ call'.shown = call.shown
          /\ call'.own = call.own /\ call'.daos = found
        <3> HIDE DEF found
        <3> QED BY <1>1, <1>2, <2>1 DEF Call
    <2>3. TypeOK' /\ WorldInv'
        BY <1>1, <2>1, <2>2, ReadingKeeps DEF Labels
    <2>4. CallInv' /\ HiddenInv'
        BY <1>1, <2>1, <2>2, SameCall, SameHidden DEF Labels, CallInv
    <2>5. ReadInv'
        <3>1. (UNION {DaoIds(p) : p \in call.page})' = asked
            BY <2>2 DEF DaoIds
        <3> HIDE DEF found, asked
        <3> QED BY <1>1, <1>3, <2>1, <2>2, <3>1, ReadingFacts DEF ReadInv
    <2>6. ShownInv' /\ VideoShown' /\ PanicIsLate'
        BY <1>1, <2>1, <2>2, ReadingFacts DEF ShownInv, VideoShown, PanicIsLate, Answered, Single
    <2> QED BY <2>3, <2>4, <2>5, <2>6 DEF IInv
<1> QED BY <1>4, <1>5

LEMMA GetSubscribedKeeps == ASSUME IInv, GetSubscribed PROVE IInv'
<1> USE DEF GetSubscribed, Goto, Only
<1> DEFINE mine2 == call.daos \cap (Subs \cup Owned)
<1>1. /\ TypeOK /\ CallInv /\ ShownInv /\ ReadInv /\ WorldInv /\ pc = "subscribed"
      /\ pc' = IF Single THEN "filter" ELSE "refs"
      /\ call \in Call /\ call.daos \in SUBSET Daos /\ call.error = "none"
    BY DEF IInv, TypeOK, Call, CallInv
<1>2. call' = [call EXCEPT !.told = mine2] /\ mine2 \in SUBSET Daos
    BY <1>1
<1>3. /\ call' \in Call /\ call'.view = call.view /\ call'.page = call.page /\ call'.left = call.left
      /\ call'.error = call.error /\ call'.told = mine2 /\ call'.shown = call.shown
      /\ call'.own = call.own /\ call'.daos = call.daos
    <2> HIDE DEF mine2
    <2> QED BY <1>1, <1>2 DEF Call
<1>4. TypeOK' /\ WorldInv'
    BY <1>1, <1>3, ReadingKeeps DEF Labels
<1>5. CallInv'
    BY <1>1, <1>3, ReadingFacts DEF CallInv, Single
<1>6. HiddenInv'
    BY <1>1, <1>3, SameHidden
<1>7. ReadInv'
    <2>1. (UNION {DaoIds(p) : p \in call.page})' = UNION {DaoIds(p) : p \in call.page}
        BY <1>3 DEF DaoIds
    <2> QED BY <1>1, <1>3, <2>1, ReadingFacts DEF ReadInv
<1>8. ShownInv'
    <2>1. mine2 \subseteq {"da"} /\ ("da" \in mine2 => subs \/ viewer = "author")
        BY DEF Subs, Owned
    <2>2. before.subs /\ "da" \in call.daos => "da" \in mine2
        BY <1>1 DEF CallInv, Subs
    <2> HIDE DEF mine2
    <2> QED BY <1>1, <1>3, <2>1, <2>2, ReadingFacts DEF ShownInv, Single
<1>9. VideoShown' /\ PanicIsLate'
    BY <1>1, <1>3 DEF VideoShown, PanicIsLate, Answered
<1> QED BY <1>4, <1>5, <1>6, <1>7, <1>8, <1>9 DEF IInv

\* The video is there, and the post is shown with it or it is not for this viewer.
LEMMA GetRefKeeps == ASSUME IInv, NEW p \in Posts, GetRef(p) PROVE IInv'
<1> USE DEF Goto, Only
<1> DEFINE rest == call.left \ {p}
           video == IF HasVideo(p, call.own) THEN {p} ELSE {}
<1>1. /\ TypeOK /\ CallInv /\ ShownInv /\ ReadInv /\ WorldInv /\ pc = "refs" /\ Reading
      /\ p \in call.left /\ p \in call.page
      /\ call \in Call /\ call.left \in SUBSET Posts /\ call.shown \in SUBSET Posts
      /\ call.error = "none"
    BY DEF IInv, TypeOK, Call, CallInv, GetRef
<1>2. ASSUME NEW e \in {"failed", "panic"}, Answer([call EXCEPT !.error = e, !.shown = {}]),
             e = "failed" => ~reply /\ p = "citing",
             e = "panic" => Lacks(p) /\ ~Single
      PROVE  IInv'
    <2>1. call' = [call EXCEPT !.error = e, !.shown = {}] /\ pc' = "answered"
        BY <1>2 DEF Answer
    <2>2. /\ call' \in Call /\ call'.view = call.view /\ call'.page = call.page /\ call'.left = call.left
          /\ call'.error = e /\ call'.told = call.told /\ call'.shown = {}
        BY <1>1, <2>1 DEF Call
    <2>3. TypeOK' /\ WorldInv'
        BY <1>1, <2>1, <2>2, ReadingKeeps DEF Labels
    <2>4. CallInv' /\ HiddenInv'
        BY <1>1, <2>1, <2>2, SameCall, SameHidden DEF Labels, CallInv
    <2>5. ReadInv' /\ ShownInv' /\ VideoShown'
        BY <1>1, <2>1, <2>2, ReadingFacts DEF ReadInv, ShownInv, VideoShown, Answered
    <2>6. CASE e = "failed"
        <3>1. PanicIsLate'
            BY <1>1, <1>2, <2>2, <2>6, ReadingFacts DEF PanicIsLate
        <3> QED BY <2>3, <2>4, <2>5, <3>1 DEF IInv
    <2>7. CASE e = "panic"
        <3>1. /\ p \in {"video", "quote"} /\ ~Single
              /\ "da" \notin call.daos /\ ~Blank(p)
            BY <1>1, <1>2, <2>7, Deciding DEF Lacks, Undecided, TypeOK
        <3>2. "da" \in DaoIds(p)
            BY <3>1 DEF DaoIds, DaoId, AuthorDaoId, Blank
        <3>3. meddled \/ before.cancel # "no"
            BY <1>1, <3>1, <3>2 DEF ReadInv
        <3>4. p = "video" => before.cancel = "no" \/ call.view \in Searches
            BY <1>1 DEF CallInv
        <3>5. PanicIsLate'
            BY <1>1, <2>2, <2>7, <3>1, <3>3, <3>4, ReadingFacts DEF PanicIsLate
        <3> QED BY <2>3, <2>4, <2>5, <3>5 DEF IInv
    <2> QED BY <2>6, <2>7
<1>3. CASE RefReply(p) /\ ~reply
    BY <1>2, <1>3 DEF GetRef, RefReply
<1>4. CASE ~(RefReply(p) /\ ~reply) /\ ~Single /\ Lacks(p)
    BY <1>2, <1>4 DEF GetRef, Panic
<1>5. contents /\ p # "citing" => video = {p}
    BY <1>1 DEF HasVideo, ShownInv, Posts
<1>6. CASE ~(RefReply(p) /\ ~reply) /\ Single
    <2>1. call' = [[call EXCEPT !.left = rest] EXCEPT !.shown = video] /\ pc' = "users"
        BY <1>6 DEF GetRef
    <2>2. video \in SUBSET Posts /\ rest \in SUBSET Posts
        BY <1>1
    <2>3. /\ call' \in Call /\ call'.view = call.view /\ call'.page = call.page /\ call'.left = rest
          /\ call'.error = call.error /\ call'.told = call.told /\ call'.shown = video
          /\ call'.own = call.own
        <3> HIDE DEF rest, video
        <3> QED BY <1>1, <2>1, <2>2 DEF Call
    <2>4. TypeOK' /\ WorldInv'
        BY <1>1, <2>1, <2>3, ReadingKeeps DEF Labels
    <2>5. CallInv' /\ HiddenInv'
        BY <1>1, <2>1, <2>3, SameCall, SameHidden DEF Labels, CallInv
    <2>6. call.page = {p}
        BY <1>1, <1>6 DEF CallInv
    <2>7. ReadInv' /\ ShownInv' /\ VideoShown' /\ PanicIsLate'
        <3>1. contents => call.page \ {"citing"} \subseteq video
            BY <1>5, <2>6
        <3> HIDE DEF rest, video
        <3>2. ShownInv'
            BY <1>1, <1>6, <2>1, <2>3, <3>1, ReadingFacts DEF ShownInv, Single
        <3> QED BY <2>1, <3>2 DEF ReadInv, VideoShown, PanicIsLate, Answered
    <2> QED BY <2>4, <2>5, <2>7 DEF IInv
<1>7. CASE ~(RefReply(p) /\ ~reply) /\ ~Single /\ ~Lacks(p)
    <2> DEFINE now == call.shown \cup IF MaySee(p) THEN video ELSE {}
    <2>1. call' = [[call EXCEPT !.left = rest] EXCEPT !.shown = now] /\ pc' = "refs"
        <3>1. [call EXCEPT !.left = rest].shown = call.shown
            BY <1>1 DEF Call
        <3> QED BY <1>1, <1>7, <3>1 DEF GetRef
    <2>2. now \in SUBSET Posts /\ rest \in SUBSET Posts
        BY <1>1
    <2>3. /\ call' \in Call /\ call'.view = call.view /\ call'.page = call.page /\ call'.left = rest
          /\ call'.error = call.error /\ call'.told = call.told /\ call'.shown = now
          /\ call'.own = call.own /\ call'.daos = call.daos
        <3> HIDE DEF rest, now
        <3> QED BY <1>1, <2>1, <2>2 DEF Call
    <2>4. TypeOK' /\ WorldInv'
        BY <1>1, <2>1, <2>3, ReadingKeeps DEF Labels
    <2>5. CallInv' /\ HiddenInv'
        BY <1>1, <2>1, <2>3, SameCall, SameHidden DEF Labels, CallInv
    <2>6. ReadInv'
        <3>1. (UNION {DaoIds(q) : q \in call.page})' = UNION {DaoIds(q) : q \in call.page}
            BY <2>3 DEF DaoIds
        <3> QED BY <1>1, <1>7, <2>1, <2>3, <3>1, ReadingFacts DEF ReadInv, Single
    <2>7. ASSUME p # "citing" PROVE /\ MaySee(p) => May(p)
                                    /\ Must(p) => MaySee(p)
        <3>1. p \in {"video", "quote"} /\ DecidingDao(p) = "da" /\ Poster(p) = "author"
            BY <2>7, Deciding DEF Posts
        <3>2. MaySee(p) => May(p)
            BY <1>1, <3>1 DEF MaySee, May, ShownInv
        <3>3. ASSUME Must(p), p \in marked, viewer # "author" PROVE MaySee(p)
            <4>1. viewer = "reader"
                BY <1>1, <3>3 DEF Must, Member, ShownInv, CallInv, WorldInv
            <4>2. ~Blank(p) /\ Undecided(p)
                BY <3>1, <3>3, <4>1 DEF Must, Undecided
            <4>3. "da" \in call.daos
                BY <1>7, <3>1, <4>2 DEF Lacks
            <4>4. "da" \in call.told
                BY <1>1, <1>7, <3>3, <4>3 DEF Must, Member, ShownInv
            <4> QED BY <3>1, <4>2, <4>4 DEF MaySee
        <3> QED BY <3>1, <3>2, <3>3 DEF MaySee
    <2>8. ShownInv'
        <3>1. /\ \A q : May(q)' = May(q)
              /\ \A q : Must(q)' = Must(q)
            BY <2>3, <1>1, ReadingFacts DEF May, Must, Member, Blank
        <3>2. \A q \in call.page \ {"citing"} :
                /\ q \in now => May(q)
                /\ q \notin rest /\ Must(q) => q \in now
            <4> SUFFICES ASSUME NEW q \in call.page \ {"citing"}
                         PROVE  /\ q \in now => May(q)
                                /\ q \notin rest /\ Must(q) => q \in now
                OBVIOUS
            <4>1. /\ q \in call.shown => May(q)
                  /\ q \notin call.left /\ Must(q) => q \in call.shown
                BY <1>1, <1>7 DEF ShownInv
            <4>2. Must(q) => contents
                BY DEF Must
            <4>3. CASE q = p
                BY <1>5, <2>7, <4>1, <4>2, <4>3
            <4>4. CASE q # p
                BY <4>1, <4>4
            <4> QED BY <4>3, <4>4
        <3> HIDE DEF now, rest
        <3> QED BY <1>1, <1>7, <2>1, <2>3, <3>1, <3>2, ReadingFacts DEF ShownInv, Single
    <2>9. VideoShown' /\ PanicIsLate'
        BY <2>1 DEF VideoShown, PanicIsLate, Answered
    <2> QED BY <2>4, <2>5, <2>6, <2>8, <2>9 DEF IInv
<1> QED BY <1>3, <1>4, <1>6, <1>7

LEMMA FormatPageKeeps == ASSUME IInv, FormatPage PROVE IInv'
<1>1. /\ TypeOK /\ CallInv /\ ShownInv /\ pc = "refs" /\ Reading /\ call.left = {}
      /\ call' = call /\ pc' = "answered" /\ call \in Call /\ call.error = "none"
    BY DEF IInv, TypeOK, CallInv, FormatPage, Answer, Goto, Only
<1>2. TypeOK' /\ WorldInv' /\ CallInv' /\ HiddenInv'
    BY <1>1, ReadingKeeps, SameCall, SameHidden DEF Labels, CallInv
<1>3. ReadInv' /\ ShownInv' /\ PanicIsLate'
    BY <1>1, ReadingFacts DEF ReadInv, ShownInv, PanicIsLate
<1>4. VideoShown'
    <2>1. ~Single
        BY <1>1 DEF ShownInv, CallInv
    <2>2. \A p : May(p)' = May(p) /\ Must(p)' = Must(p)
        BY <1>1, ReadingFacts DEF May, Must, Member, Blank
    <2> QED BY <1>1, <2>1, <2>2 DEF ShownInv, VideoShown
<1> QED BY <1>2, <1>3, <1>4 DEF IInv

LEMMA FilterKeeps == ASSUME IInv, FilterMemberContent PROVE IInv'
<1> DEFINE kept == {p \in call.shown : p \notin marked \/ viewer = Poster(p) \/ DecidingDao(p) \in Subs}
<1>1. /\ TypeOK /\ CallInv /\ ShownInv /\ WorldInv /\ pc = "filter" /\ Reading /\ Single
      /\ call' = [call EXCEPT !.shown = kept] /\ pc' = "answered"
      /\ call \in Call /\ call.shown \in SUBSET Posts /\ call.page \in SUBSET Posts
      /\ call.error = "none"
    BY DEF IInv, TypeOK, CallInv, Call, FilterMemberContent, Answer, Goto, Only
<1>2. /\ call' \in Call /\ call'.view = call.view /\ call'.page = call.page /\ call'.left = call.left
      /\ call'.error = "none" /\ call'.told = call.told /\ call'.shown = kept
    <2>1. kept \in SUBSET Posts
        BY <1>1
    <2> HIDE DEF kept
    <2> QED BY <1>1, <2>1 DEF Call
<1>3. TypeOK' /\ WorldInv' /\ CallInv' /\ HiddenInv'
    BY <1>1, <1>2, ReadingKeeps, SameCall, SameHidden DEF Labels, CallInv
<1>4. ReadInv' /\ ShownInv' /\ PanicIsLate'
    BY <1>1, <1>2, ReadingFacts DEF ReadInv, ShownInv, PanicIsLate
<1>5. VideoShown'
    <2>1. ASSUME NEW p \in call.page, p # "citing"
          PROVE  /\ p \in kept => May(p)
                 /\ Must(p) => p \in kept
        <3>1. DecidingDao(p) = "da" /\ Poster(p) = "author" /\ p \in Posts
            BY <1>1, <2>1, Deciding DEF Posts
        <3>2. Must(p) => p \in call.shown
            BY <1>1, <2>1 DEF ShownInv, Must
        <3>3. Must(p) /\ p \in marked /\ viewer # "author" => subs
            BY <1>1 DEF ShownInv, Must, Member, CallInv
        <3> QED BY <3>1, <3>2, <3>3 DEF May, Subs
    <2>2. \A p : May(p)' = May(p) /\ Must(p)' = Must(p)
        BY <1>1, <1>2, ReadingFacts DEF May, Must, Member, Blank
    <2> HIDE DEF kept
    <2> QED BY <1>2, <2>1, <2>2 DEF VideoShown
<1> QED BY <1>3, <1>4, <1>5 DEF IInv

LEMMA DoneKeeps == ASSUME IInv, Done PROVE IInv'
<1> USE DEF Done, Goto, Only, Nothing, Clean
<1>1. UNCHANGED <<viewer, marked, stored, contents, reply, users, daos, subs, blocked, cancel>>
    BY DEF data, mine
<1>2. call' \in Call /\ call'.told = {} /\ call'.shown = {} /\ call'.left = {} /\ call'.page = {}
    BY DEF Call, Views
<1>3. before' \in [subs : BOOLEAN, blocked : SUBSET (Posts \cup Daos), cancel : Stages]
    BY DEF Stages
<1>4. TypeOK' /\ WorldInv'
    BY <1>1, <1>2, <1>3 DEF IInv, TypeOK, WorldInv, Labels
<1>5. CallInv' /\ ReadInv' /\ ShownInv' /\ HiddenInv' /\ VideoShown' /\ PanicIsLate'
    BY <1>2 DEF CallInv, ReadInv, ShownInv, HiddenInv, VideoShown, PanicIsLate, Answered
<1> QED BY <1>4, <1>5 DEF IInv

-----------------------------------------------------------------------------
(* What happens meanwhile. *)

\* Whatever does not touch the call, the blocks or the viewer.
LEMMA MeanwhileCalls ==
    ASSUME IInv, pc # "answered", TypeOK', WorldInv',
           UNCHANGED <<viewer, marked, pc, call, before>>,
           meddled' \/ (meddled' = meddled /\ cancel' = cancel),
           subs => subs', contents' => contents
    PROVE  CallInv' /\ ReadInv' /\ ShownInv' /\ VideoShown' /\ PanicIsLate'
<1>1. CallInv'
    BY DEF IInv, CallInv, Single
<1>2. ReadInv'
    <2>1. UNCHANGED <<UNION {Addresses(p) : p \in call.page}, UNION {DaoIds(p) : p \in call.page}>>
        BY DEF Addresses, DaoIds
    <2> QED BY <2>1 DEF IInv, ReadInv, Single
<1>3. ShownInv'
    <2>1. \A p : (May(p) => May(p)') /\ (Must(p)' => Must(p))
        BY DEF May, Must, Member, Blank
    <2> QED BY <2>1 DEF IInv, ShownInv, Single
<1>4. VideoShown' /\ PanicIsLate'
    BY DEF VideoShown, PanicIsLate, Answered
<1> QED BY <1>1, <1>2, <1>3, <1>4

LEMMA BlockKeeps == ASSUME IInv, pc # "answered", NEW x \in Posts \cup Daos, Block(x) PROVE IInv'
<1>1. /\ TypeOK /\ x \notin SetOf(blocked) /\ blocked' = <<x>> \o blocked
      /\ UNCHANGED <<viewer, marked, stored, contents, reply, users, daos, subs, cancel,
                     pc, call, before, meddled>>
    BY DEF IInv, Block, data
<1>2. TypeOK' /\ WorldInv'
    <2>1. blocked' \in Seq(Posts \cup Daos)
        BY <1>1 DEF TypeOK
    <2> QED BY <1>1, <2>1 DEF IInv, TypeOK, WorldInv
<1>3. CallInv' /\ ReadInv' /\ ShownInv' /\ VideoShown' /\ PanicIsLate'
    BY <1>1, <1>2, MeanwhileCalls
<1>4. HiddenInv'
    <2> SUFFICES ASSUME pc # "idle", ~meddled, call.view \in {"list", "focus"} PROVE HiddenInv'
        BY <1>1 DEF HiddenInv
    <2>1. /\ SetOf(blocked') = SetOf(blocked) \cup {x}
          /\ \A kind : Newest(kind)' \subseteq Newest(kind) \cup {x}
        BY <1>1, BlocksAge
    <2>2. before.blocked \subseteq SetOf(blocked) /\ x \notin before.blocked
        BY <1>1 DEF IInv, HiddenInv
    <2>3. Held' \subseteq Held
        BY <1>1, <2>1, <2>2 DEF Held
    <2>4. before.blocked \cap Newest(Daos)' \subseteq before.blocked \cap Newest(Daos)
        BY <2>1, <2>2
    <2>5. Hidden => Hidden'
        BY <1>1, <2>3 DEF Hidden
    <2> QED BY <1>1, <2>1, <2>2, <2>3, <2>4, <2>5 DEF IInv, HiddenInv
<1> QED BY <1>2, <1>3, <1>4 DEF IInv

\* No block changes: what is hidden stays so, or the cancellation has meddled.
LEMMA DeletionKeeps ==
    ASSUME IInv, pc # "answered",
           Subscribe \/ (\E p \in Posts : DeletePost(p)) \/ DeleteByPostId \/ DeleteReply
    PROVE  IInv'
<1>1. UNCHANGED <<viewer, marked, users, daos, blocked, cancel, pc, call, before, meddled>>
    BY DEF Subscribe, DeletePost, DeleteByPostId, DeleteReply, data, mine
<1>2. /\ subs => subs'
      /\ contents' => contents
    BY DEF Subscribe, DeletePost, DeleteByPostId, DeleteReply, data, mine
<1>3. TypeOK' /\ WorldInv'
    <2>1. CASE Subscribe
        BY <2>1 DEF Subscribe, data, IInv, TypeOK, WorldInv
    <2>2. CASE \E p \in Posts : DeletePost(p)
        BY <2>2 DEF DeletePost, mine, IInv, TypeOK, WorldInv, Posts
    <2>3. CASE DeleteByPostId
        BY <2>3 DEF DeleteByPostId, mine, IInv, TypeOK, WorldInv
    <2>4. CASE DeleteReply
        BY <2>4 DEF DeleteReply, mine, IInv, TypeOK, WorldInv
    <2> QED BY <2>1, <2>2, <2>3, <2>4
<1>4. CallInv' /\ ReadInv' /\ ShownInv' /\ VideoShown' /\ PanicIsLate'
    BY <1>1, <1>2, <1>3, MeanwhileCalls
<1>5. HiddenInv'
    <2>1. Held' = Held /\ SetOf(blocked') = SetOf(blocked) /\ Newest(Daos)' = Newest(Daos)
        BY <1>1, HeldStays
    <2> QED BY <1>1, <2>1 DEF IInv, HiddenInv, Hidden
<1> QED BY <1>3, <1>4, <1>5 DEF IInv

\* What is left of the blocks is a sequence of blocks.
LEMMA UnblockedType ==
    ASSUME TypeOK, NEW x PROVE Unblocked(x) \in Seq(Posts \cup Daos)
<1>1. blocked \in Seq(Posts \cup Daos)
    BY DEF TypeOK
<1>2. CASE x \notin SetOf(blocked)
    BY <1>1, <1>2 DEF Unblocked
<1>3. CASE x \in SetOf(blocked)
    <2> DEFINE i == CHOOSE i \in DOMAIN blocked : blocked[i] = x
    <2>1. i \in DOMAIN blocked
        BY <1>3 DEF SetOf
    <2>2. i \in 1 .. Len(blocked) /\ Len(blocked) \in Nat
        BY <1>1, <2>1
    <2>3. Unblocked(x) = SubSeq(blocked, 1, i - 1) \o SubSeq(blocked, i + 1, Len(blocked))
        BY <1>3 DEF Unblocked
    <2> HIDE DEF i
    <2>4. /\ SubSeq(blocked, 1, i - 1) \in Seq(Posts \cup Daos)
          /\ SubSeq(blocked, i + 1, Len(blocked)) \in Seq(Posts \cup Daos)
        BY <1>1, <2>2
    <2> QED BY <2>3, <2>4
<1> QED BY <1>2, <1>3

LEMMA CancellationKeeps ==
    ASSUME IInv, pc # "answered", CancelPosts \/ CancelDaos \/ CancelRest
    PROVE  IInv'
<1>1. UNCHANGED <<viewer, marked, subs, pc, call, before>> /\ meddled' = TRUE
    BY DEF CancelPosts, CancelDaos, CancelRest, mine
<1>2. contents' => contents
    BY DEF CancelPosts, CancelDaos, CancelRest
<1>3. TypeOK' /\ WorldInv'
    <2>1. CASE CancelPosts
        <3>1. blocked' \in Seq(Posts \cup Daos)
            BY <2>1, UnblockedType DEF CancelPosts, IInv
        <3> QED BY <2>1, <3>1 DEF CancelPosts, IInv, TypeOK, WorldInv, Stages, Posts
    <2>2. CASE CancelDaos
        <3>1. blocked' \in Seq(Posts \cup Daos)
            BY <2>2, UnblockedType DEF CancelDaos, IInv
        <3> QED BY <2>2, <3>1 DEF CancelDaos, IInv, TypeOK, WorldInv, Stages
    <2>3. CASE CancelRest
        BY <2>3 DEF CancelRest, mine, IInv, TypeOK, WorldInv, Stages
    <2> QED BY <2>1, <2>2, <2>3
<1>4. CallInv' /\ ReadInv' /\ ShownInv' /\ VideoShown' /\ PanicIsLate'
    BY <1>1, <1>2, <1>3, MeanwhileCalls
<1>5. HiddenInv'
    BY <1>1 DEF HiddenInv
<1> QED BY <1>3, <1>4, <1>5 DEF IInv

LEMMA NextKeeps == IInv /\ [Next]_vars => IInv'
<1> SUFFICES ASSUME IInv, [Next]_vars PROVE IInv'
    OBVIOUS
<1>1. CASE View
    <2>1. CASE \E p \in Posts : GetPost(p) \/ GetRef(p)
        BY <2>1, GetPostKeeps, GetRefKeeps
    <2>2. CASE \E v \in Searches : GetBlockDaoIDs(v)
        BY <2>2, GetBlockDaoIDsKeeps
    <2> QED BY <1>1, <2>1, <2>2, GetBlockPostIDsKeeps, SearchKeeps, MergeKeeps, GetContentsKeeps,
               GetUsersKeeps, GetDaosKeeps, GetSubscribedKeeps, FormatPageKeeps, FilterKeeps,
               DoneKeeps DEF View
<1>2. CASE Meanwhile
    BY <1>2, BlockKeeps, DeletionKeeps, CancellationKeeps DEF Meanwhile
<1>3. CASE UNCHANGED vars
    <2>1. UNCHANGED <<viewer, marked, stored, contents, reply, users, daos, subs, blocked, cancel,
                      pc, call, before, meddled>>
        BY <1>3 DEF vars, data, mine
    <2>2. Held' = Held /\ SetOf(blocked') = SetOf(blocked) /\ Newest(Daos)' = Newest(Daos)
        BY <2>1, HeldStays
    <2>3. TypeOK' /\ WorldInv' /\ CallInv'
        BY <2>1 DEF IInv, TypeOK, WorldInv, CallInv, Single
    <2>4. ReadInv'
        <3>1. UNCHANGED <<UNION {Addresses(p) : p \in call.page}, UNION {DaoIds(p) : p \in call.page}>>
            BY <2>1 DEF Addresses, DaoIds
        <3> QED BY <2>1, <3>1 DEF IInv, ReadInv, Single
    <2>5. ShownInv' /\ VideoShown'
        <3>1. \A p : May(p)' = May(p) /\ Must(p)' = Must(p)
            BY <2>1 DEF May, Must, Member, Blank
        <3> QED BY <2>1, <3>1 DEF IInv, ShownInv, VideoShown, Answered, Single
    <2>6. HiddenInv' /\ PanicIsLate'
        BY <2>1, <2>2 DEF IInv, HiddenInv, Hidden, PanicIsLate, Single
    <2> QED BY <2>3, <2>4, <2>5, <2>6 DEF IInv
<1> QED BY <1>1, <1>2, <1>3 DEF Next

-----------------------------------------------------------------------------
(* The theorems. *)

\* The inductive invariant of a view: what it has read by each of its steps.
THEOREM Invariant == Spec => []IInv
BY InitHolds, NextKeeps, PTL DEF Spec

\* The variables have their types.
THEOREM TypeCorrect == Spec => []TypeOK
<1>1. IInv => TypeOK
    BY DEF IInv
<1> QED BY <1>1, Invariant, PTL

\* The three assemblies of a view agree on who sees a video for members, whatever is
\* paid, deleted or cancelled between their reads.
THEOREM VideosAreShown == Spec => []VideoShown
<1>1. IInv => VideoShown
    BY DEF IInv
<1> QED BY <1>1, Invariant, PTL

\* A view panics only over what a cancellation has taken.
THEOREM PanicsAreLate == Spec => []PanicIsLate
<1>1. IInv => PanicIsLate
    BY DEF IInv
<1> QED BY <1>1, Invariant, PTL

\* What was blocked before asking for a list is hidden in it, for any limit of the blocks
\* that a search excludes and any number of blocks made meanwhile.
THEOREM BlockedIsHidden == Spec => []BlockedHidden
<1>1. IInv => BlockedHidden
    BY DEF IInv, HiddenInv, BlockedHidden, Answered
<1> QED BY <1>1, Invariant, PTL
=============================================================================
