---------------------------- MODULE CachedReader ----------------------------
(***************************************************************************)
(* The cache of shared piece readers (lib/cachedreader/cachedreader.go)    *)
(* for one piece.  Requests share a cachedSectionReader that counts its    *)
(* references; the cache entry goes by time, by space or because the       *)
(* reader could not be opened, and a callback that runs some time after    *)
(* that closes what nobody uses.                                           *)
(*                                                                         *)
(* pieceReaderCacheMu makes Lookup, Close and the callback atomic; the     *)
(* request that opens a reader fills it in without the mutex.              *)
(***************************************************************************)
EXTENDS Integers, FiniteSets

CONSTANTS
    Requests,     \* callers of GetSharedPieceReader
    MaxReaders    \* bound: cachedSectionReaders that are ever made

ASSUME ReaderAssumption == MaxReaders \in Nat /\ IsFiniteSet(Requests)

VARIABLES
    entry,      \* the reader in the cache, 0 if there is none
    errCached,  \* pieceErrorCache has an entry
    reader,     \* the cachedSectionReaders
    evicted,    \* readers whose expireCallback has yet to run
    request     \* what a request does, and with which reader

readerVars == <<entry, errCached, reader, evicted, request>>

Readers == 1..MaxReaders

\* set: r.reader and r.cancel are assigned; cancelled: r.cancel has been called.
NoReader == [made |-> FALSE, refs |-> 0, open |-> FALSE, set |-> FALSE, failed |-> FALSE,
             ready |-> FALSE, expired |-> FALSE, cancelled |-> FALSE]

\* What a lookup that finds nothing puts into the cache.
NewReader == [made |-> TRUE, refs |-> 1, open |-> FALSE, set |-> FALSE, failed |-> FALSE,
              ready |-> FALSE, expired |-> FALSE, cancelled |-> FALSE]

Resting == [at |-> "rest", r |-> 0]

SectionReader == [made : BOOLEAN, refs : Int, open : BOOLEAN, set : BOOLEAN, failed : BOOLEAN,
                  ready : BOOLEAN, expired : BOOLEAN, cancelled : BOOLEAN]

RequestState == [at : {"rest", "look", "resolve", "publish", "fail", "wait", "use"}, r : Readers \cup {0}]

ReaderTypeOK ==
    /\ entry \in Readers \cup {0}
    /\ errCached \in BOOLEAN
    /\ reader \in [Readers -> SectionReader]
    /\ evicted \subseteq Readers
    /\ request \in [Requests -> RequestState]

ReaderInit ==
    /\ entry = 0
    /\ errCached = FALSE
    /\ reader = [r \in Readers |-> NoReader]
    /\ evicted = {}
    /\ request = [q \in Requests |-> Resting]

At(q, l) == request' = [request EXCEPT ![q].at = l]

-----------------------------------------------------------------------------
(* GetSharedPieceReader.                                                   *)

\* An error of the last five seconds is the answer.
AskErrorCache(q) ==
    /\ request[q] = Resting
    /\ ~errCached
    /\ At(q, "look")
    /\ UNCHANGED <<entry, errCached, reader, evicted>>

\* A new reader with one reference, or one more reference to the reader there is.
LookUp(q) ==
    /\ request[q].at = "look"
    /\ IF entry = 0
       THEN \E r \in Readers :
               /\ ~reader[r].made
               /\ \A s \in Readers : s < r => reader[s].made
               /\ reader' = [reader EXCEPT ![r] = NewReader]
               /\ entry' = r
               /\ request' = [request EXCEPT ![q] = [at |-> "resolve", r |-> r]]
       ELSE /\ reader' = [reader EXCEPT ![entry].refs = @ + 1]
            /\ request' = [request EXCEPT ![q] = [at |-> "wait", r |-> entry]]
            /\ UNCHANGED entry
    /\ UNCHANGED <<errCached, evicted>>

\* PDP park, aggregate and market deals are tried in turn; one opens the piece.
OpenPiece(q) ==
    /\ request[q].at = "resolve"
    /\ reader' = [reader EXCEPT ![request[q].r].open = TRUE]
    /\ At(q, "publish")
    /\ UNCHANGED <<entry, errCached, evicted>>

\* Reader, cancel and size are stored; on return the waiting requests go on.
Publish(q) ==
    /\ request[q].at = "publish"
    /\ reader' = [reader EXCEPT ![request[q].r] = [@ EXCEPT !.set = TRUE, !.ready = TRUE]]
    /\ At(q, "use")
    /\ UNCHANGED <<entry, errCached, evicted>>

\* None opens it: the error is cached ...
OpenFails(q) ==
    /\ request[q].at = "resolve"
    /\ errCached' = TRUE
    /\ At(q, "fail")
    /\ UNCHANGED <<entry, reader, evicted>>

\* ... the entry is removed, whoever has made it, and the request returns with
\* the reference it has taken.
RemoveEntry(q) ==
    /\ request[q].at = "fail"
    /\ entry' = 0
    /\ evicted' = IF entry = 0 THEN evicted ELSE evicted \cup {entry}
    /\ reader' = [reader EXCEPT ![request[q].r] = [@ EXCEPT !.failed = TRUE, !.ready = TRUE]]
    /\ request' = [request EXCEPT ![q] = Resting]
    /\ UNCHANGED errCached

\* cachedSectionReader.Close.
Close(r) ==
    reader' = [reader EXCEPT ![r] =
        IF reader[r].refs = 1 /\ reader[r].expired
        THEN [reader[r] EXCEPT !.refs = 0, !.cancelled = TRUE, !.open = FALSE]
        ELSE [reader[r] EXCEPT !.refs = @ - 1]]

\* A request that has waited: the reader failed, or it is ready for use.
ReaderReady(q) ==
    /\ request[q].at = "wait"
    /\ reader[request[q].r].ready
    /\ IF reader[request[q].r].failed
       THEN /\ Close(request[q].r)
            /\ request' = [request EXCEPT ![q] = Resting]
       ELSE /\ At(q, "use")
            /\ UNCHANGED reader
    /\ UNCHANGED <<entry, errCached, evicted>>

\* The context of the request ends while it waits, or its user is done.
Done(q) ==
    /\ request[q].at \in {"wait", "use"}
    /\ Close(request[q].r)
    /\ request' = [request EXCEPT ![q] = Resting]
    /\ UNCHANGED <<entry, errCached, evicted>>

-----------------------------------------------------------------------------
(* The caches.                                                             *)

\* The entry's time is up, or room is needed for others (external).
Evict ==
    /\ entry # 0
    /\ entry' = 0
    /\ evicted' = evicted \cup {entry}
    /\ UNCHANGED <<errCached, reader, request>>

\* Mutant: what is evicted is closed.
CloseOnExpiry(r) ==
    /\ r \in evicted
    /\ evicted' = evicted \ {r}
    /\ reader' = [reader EXCEPT ![r] = [@ EXCEPT !.expired = TRUE, !.cancelled = @ \/ reader[r].set, !.open = FALSE]]
    /\ UNCHANGED <<entry, errCached, request>>

ExpireCallback(r) ==
    /\ r \in evicted
    /\ evicted' = evicted \ {r}
    /\ reader' = [reader EXCEPT ![r] =
           IF @.refs <= 0 THEN [@ EXCEPT !.expired = TRUE, !.cancelled = TRUE, !.open = FALSE]
           ELSE [@ EXCEPT !.expired = TRUE]]
    /\ UNCHANGED <<entry, errCached, request>>

ErrorExpires ==
    /\ errCached
    /\ errCached' = FALSE
    /\ UNCHANGED <<entry, reader, evicted, request>>

ReaderNext ==
    \/ \E q \in Requests :
          \/ AskErrorCache(q)
          \/ LookUp(q)
          \/ OpenPiece(q)
          \/ Publish(q)
          \/ OpenFails(q)
          \/ RemoveEntry(q)
          \/ ReaderReady(q)
          \/ Done(q)
    \/ Evict
    \/ \E r \in Readers : ExpireCallback(r)
    \/ ErrorExpires

ReaderSpec == ReaderInit /\ [][ReaderNext]_readerVars

-----------------------------------------------------------------------------
(* Properties.                                                             *)

\* A reader is open as long as it is needed and no longer.  Nobody reads from a
\* closed one, not after its entry has expired, and not when another request for
\* the piece fails and removes an entry that is not its own.  Once the entry is
\* gone and its callback has run, a reader without users is closed, whichever of
\* the last Close and the callback came first.
OpenWhileNeeded ==
    /\ \A q \in Requests : request[q].at = "use" => reader[request[q].r].open
    /\ \A r \in Readers :
          reader[r].set /\ reader[r].refs = 0 /\ entry # r /\ r \notin evicted => ~reader[r].open
=============================================================================
