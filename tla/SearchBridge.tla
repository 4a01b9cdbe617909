---------------------------- MODULE SearchBridge ----------------------------
(***************************************************************************)
(* The bridge to the search engine: updates of the index wait in a channel *)
(* for a pool of workers (internal/dao/search/bridge.go, search.go,        *)
(* zinc.go).                                                               *)
(*                                                                         *)
(* When the channel is full an update goes to a second one, and when that  *)
(* is full too, to a goroutine of its own, which was to watch the second   *)
(* channel after it: the condition of that loop is false from the start,   *)
(* so what is in the second channel stays there.                           *)
(***************************************************************************)
EXTENDS Integers, Sequences, FiniteSets

CONSTANTS
    Workers,  \* at least five of them
    MainSize, \* of updateDocsCh: TweetSearch.MaxUpdateQPS, 10 to 10000
    TempSize, \* of updateDocsTempCh: 100
    Idle      \* no update

VARIABLES
    main,   \* updateDocsCh
    temp,   \* updateDocsTempCh
    hand,   \* the update each worker is handling
    helpers,\* the updates that have a goroutine of their own
    index,  \* the document in the search engine: who wrote it, or "absent"
    sent,   \* the updates, in the order they were sent
    orderly,\* only one update was in anyone's hands at a time, all through the channel
    dropped \* updates that the search engine refused

BridgeInit ==
    /\ main = <<>> /\ temp = <<>>
    /\ hand = [w \in Workers |-> Idle]
    /\ helpers = {}
    /\ sent = <<>>
    /\ orderly = TRUE
    /\ dropped = 0

\* An update adds one request's copy of the post, or deletes the post.
Adds(r) == [by |-> r, add |-> TRUE]
Deletes(r) == [by |-> r, add |-> FALSE]

\* The search engine adds or deletes, replacing what is there under the identifier.
Effect(d) == IF d.add THEN d.by ELSE "absent"

InHand == {w \in Workers : hand[w] # Idle}

\* MUTANT: the second channel is not tried when the first is full.
UpdateDocsDropping(d) ==
    /\ sent' = Append(sent, d)
    /\ main' = IF Len(main) < MainSize THEN Append(main, d) ELSE main
    /\ UNCHANGED <<temp, helpers, orderly>>
    /\ UNCHANGED <<hand, index, dropped>>

UpdateDocs(d) ==
    /\ sent' = Append(sent, d)
    /\ \/ /\ Len(main) < MainSize
          /\ main' = Append(main, d)
          /\ UNCHANGED <<temp, helpers, orderly>>
       \/ /\ Len(main) >= MainSize /\ Len(temp) < TempSize
          /\ temp' = Append(temp, d)
          /\ orderly' = FALSE
          /\ UNCHANGED <<main, helpers>>
       \/ /\ Len(main) >= MainSize /\ Len(temp) >= TempSize
          /\ helpers' = helpers \cup {d}
          /\ orderly' = FALSE
          /\ UNCHANGED <<main, temp>>
    /\ UNCHANGED <<hand, index, dropped>>

Take(w) ==
    /\ hand[w] = Idle
    /\ main # <<>>
    /\ hand' = [hand EXCEPT ![w] = main[1]]
    /\ main' = Tail(main)
    /\ orderly' = (orderly /\ InHand = {})
    /\ UNCHANGED <<temp, helpers, index, sent, dropped>>

HandleUpdate(w) ==
    /\ hand[w] # Idle
    /\ index' = Effect(hand[w])
    /\ hand' = [hand EXCEPT ![w] = Idle]
    /\ UNCHANGED <<main, temp, helpers, sent, orderly, dropped>>

HandleAlone ==
    \E d \in helpers :
        /\ index' = Effect(d)
        /\ helpers' = helpers \ {d}
        /\ UNCHANGED <<main, temp, hand, sent, orderly, dropped>>

\* An error is logged, nothing more.
Refuse(w) ==
    /\ hand[w] # Idle
    /\ hand' = [hand EXCEPT ![w] = Idle]
    /\ dropped' = dropped + 1
    /\ UNCHANGED <<main, temp, helpers, index, sent, orderly>>

\* The process ends, which nobody waits for: the updates are in its memory.
Exit ==
    /\ main' = <<>> /\ temp' = <<>>
    /\ hand' = [w \in Workers |-> Idle]
    /\ helpers' = {}
    /\ dropped' = dropped + 1
    /\ UNCHANGED <<index, sent, orderly>>

\* Another process, with a bridge of its own, adds the document d.
AddElsewhere(d) ==
    /\ index' = Effect(d)
    /\ sent' = Append(sent, d)
    /\ orderly' = (orderly /\ main = <<>> /\ InHand = {} /\ helpers = {})
    /\ UNCHANGED <<main, temp, hand, helpers, dropped>>

\* Nothing that was sent will still be handled.
Settled == main = <<>> /\ InHand = {} /\ helpers = {}
=============================================================================
