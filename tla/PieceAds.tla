------------------------------ MODULE PieceAds ------------------------------
(***************************************************************************)
(* Indexing and announcing PDP v0 pieces (tasks/indexing, the clean-up in  *)
(* tasks/pdpv0/task_piece_gc.go): a reference to a piece that a data set   *)
(* takes up is indexed, the piece is announced to IPNI by an advertisement *)
(* signed over the head of the provider's chain, and when the last         *)
(* reference is collected a removal is announced and the index dropped.    *)
(* References of one piece share the index and the advertisements; all     *)
(* share the head.                                                         *)
(***************************************************************************)
EXTENDS Naturals, Sequences

CONSTANTS
    AdRefs,       \* rows of pdp_piecerefs
    AdPieces,     \* piece CIDs
    MaxAdFaults   \* bound: failed attempts and crashes

ASSUME AdsAssumption == AdPieces # {} /\ MaxAdFaults \in Nat

VARIABLES
    pieceRef,    \* pdp_piecerefs
    indexing,    \* the PDPv0_Indexing task of a row
    announcing,  \* the PDPv0_IPNI task of a row, and the head it has read
    index,       \* the index store: nothing, a part of the records, all of them
    ads,         \* ipni, in order_number's order
    adHead,      \* ipni_head: the position of an advertisement, or 0
    provider,    \* ipni_peerid has the key of the provider
    gc,          \* the run of PDPv0_PieceGC
    adFaults

adVars == <<pieceRef, indexing, announcing, index, ads, adHead, provider, gc, adFaults>>

PieceOf(r) == pieceRef[r].piece

\* held: a data set has the piece, or a message that adds it is under way.
Ref(status, p) ==
    [row |-> status, piece |-> p, held |-> FALSE,
     needsIndexing |-> FALSE, needsIpni |-> FALSE, advertised |-> FALSE]

NotAnnouncing == [at |-> "none", prev |-> 0]
NoGC == [todo |-> {}, drop |-> {}]

AdsTypeOK ==
    /\ pieceRef \in [AdRefs -> [row : {"unused", "there", "gone"}, piece : AdPieces, held : BOOLEAN,
                                needsIndexing : BOOLEAN, needsIpni : BOOLEAN, advertised : BOOLEAN]]
    /\ indexing \in [AdRefs -> {"none", "check", "add", "adding", "record", "dropped"}]
    /\ announcing \in [AdRefs -> [at : {"none", "check", "head", "insert", "dropped"}, prev : 0..Len(ads)]]
    /\ index \in [AdPieces -> {"none", "part", "full"}]
    /\ \A i \in 1..Len(ads) : ads[i] \in [piece : AdPieces, rm : BOOLEAN, prev : 0..Len(ads)]
    /\ adHead \in 0..Len(ads)
    /\ provider \in BOOLEAN
    /\ gc \in [todo : SUBSET AdRefs, drop : SUBSET AdPieces]
    /\ adFaults \in 0..MaxAdFaults

AdsInit ==
    /\ pieceRef = [r \in AdRefs |-> Ref("unused", CHOOSE p \in AdPieces : TRUE)]
    /\ indexing = [r \in AdRefs |-> "none"]
    /\ announcing = [r \in AdRefs |-> NotAnnouncing]
    /\ index = [p \in AdPieces |-> "none"]
    /\ ads = <<>>
    /\ adHead = 0
    /\ provider = FALSE
    /\ gc = NoGC
    /\ adFaults = 0

RefsOf(p) == {r \in AdRefs : PieceOf(r) = p /\ pieceRef[r].row = "there"}

\* The piece's last advertisement is there and does not remove it.
Announced(p) ==
    \E i \in 1..Len(ads) : /\ ads[i].piece = p
                           /\ ~ads[i].rm
                           /\ \A j \in (i + 1)..Len(ads) : ads[j].piece # p

AdFault == adFaults < MaxAdFaults /\ adFaults' = adFaults + 1

-----------------------------------------------------------------------------
(* References.                                                             *)

\* An upload is complete.
UploadDone(r, p) ==
    /\ pieceRef[r].row = "unused"
    /\ pieceRef' = [pieceRef EXCEPT ![r] = Ref("there", p)]
    /\ UNCHANGED <<indexing, announcing, index, ads, adHead, provider, gc, adFaults>>

\* A piece is added to a data set, or to one more; EnableIndexingForPiecesInTx if
\* the data set asks for it.
AddToDataSet(r, mustIndex) ==
    /\ pieceRef[r].row = "there"
    /\ pieceRef' = [pieceRef EXCEPT ![r].held = TRUE, ![r].needsIndexing = @ \/ mustIndex]
    /\ pieceRef' # pieceRef
    /\ UNCHANGED <<indexing, announcing, index, ads, adHead, provider, gc, adFaults>>

\* The last data set gives it up.
LeaveDataSet(r) ==
    /\ pieceRef[r].held
    /\ pieceRef' = [pieceRef EXCEPT ![r].held = FALSE]
    /\ UNCHANGED <<indexing, announcing, index, ads, adHead, provider, gc, adFaults>>

-----------------------------------------------------------------------------
(* PDPv0_Indexing.                                                         *)

IndexingAt(r, at) == indexing' = [indexing EXCEPT ![r] = at]

\* Nothing takes back the id of a task that was dropped.
ScheduleIndexing(r) ==
    /\ pieceRef[r].row = "there"
    /\ pieceRef[r].needsIndexing
    /\ indexing[r] = "none"
    /\ IndexingAt(r, "check")
    /\ UNCHANGED <<pieceRef, announcing, index, ads, adHead, provider, gc, adFaults>>

\* recordCompletion
RecordIndexed(r, needsIpni) ==
    pieceRef' = [pieceRef EXCEPT ![r].needsIndexing = FALSE, ![r].needsIpni = needsIpni]

\* Any record of the piece is taken for its index and for its announcement.
CheckHasPiece(r) ==
    /\ indexing[r] = "check"
    /\ pieceRef[r].row = "there"
    /\ IF index[PieceOf(r)] # "none"
       THEN RecordIndexed(r, FALSE) /\ IndexingAt(r, "none")
       ELSE UNCHANGED pieceRef /\ IndexingAt(r, "add")
    /\ UNCHANGED <<announcing, index, ads, adHead, provider, gc, adFaults>>

\* AddIndex writes batches.
AddFirst(r) ==
    /\ indexing[r] = "add"
    /\ index' = [index EXCEPT ![PieceOf(r)] = IF @ = "none" THEN "part" ELSE @]
    /\ IndexingAt(r, "adding")
    /\ UNCHANGED <<pieceRef, announcing, ads, adHead, provider, gc, adFaults>>

AddRest(r) ==
    /\ indexing[r] = "adding"
    /\ index' = [index EXCEPT ![PieceOf(r)] = IF @ = "none" THEN "part" ELSE "full"]
    /\ IndexingAt(r, "record")
    /\ UNCHANGED <<pieceRef, announcing, ads, adHead, provider, gc, adFaults>>

FinishIndexing(r) ==
    /\ indexing[r] = "record"
    /\ pieceRef[r].row = "there"
    /\ RecordIndexed(r, TRUE)
    /\ IndexingAt(r, "none")
    /\ UNCHANGED <<announcing, index, ads, adHead, provider, gc, adFaults>>

\* An attempt fails or its node dies: it is repeated, or was the last one.
IndexingFails(r) ==
    /\ indexing[r] \notin {"none", "dropped"}
    /\ AdFault
    /\ \E at \in {"check", "dropped"} : IndexingAt(r, at)
    /\ UNCHANGED <<pieceRef, announcing, index, ads, adHead, provider, gc>>

\* The row is gone: all attempts fail.
IndexingLost(r) ==
    /\ indexing[r] \in {"check", "record"}
    /\ pieceRef[r].row = "gone"
    /\ IndexingAt(r, "none")
    /\ UNCHANGED <<pieceRef, announcing, index, ads, adHead, provider, gc, adFaults>>

-----------------------------------------------------------------------------
(* PDPv0_IPNI.                                                             *)

AnnouncingAt(r, at) == announcing' = [announcing EXCEPT ![r] = [at |-> at, prev |-> 0]]

\* Mutant: the ids of dropped tasks are not taken back.
ScheduleIpniOnce(r) ==
    /\ pieceRef[r].row = "there"
    /\ pieceRef[r].needsIpni
    /\ announcing[r].at = "none"
    /\ AnnouncingAt(r, "check")
    /\ provider' = TRUE
    /\ UNCHANGED <<pieceRef, indexing, index, ads, adHead, gc, adFaults>>

\* schedule takes back the ids of dropped tasks first.  PDPInitProvider.
ScheduleIpni(r) ==
    /\ pieceRef[r].row = "there"
    /\ pieceRef[r].needsIpni
    /\ announcing[r].at \in {"none", "dropped"}
    /\ AnnouncingAt(r, "check")
    /\ provider' = TRUE
    /\ UNCHANGED <<pieceRef, indexing, index, ads, adHead, gc, adFaults>>

\* recordCompletion
RecordAnnounced(r) ==
    pieceRef' = [pieceRef EXCEPT ![r].needsIpni = FALSE, ![r].advertised = TRUE]

\* A piece that is announced is done.  Otherwise its records are chunked.
CheckAd(r) ==
    /\ announcing[r].at = "check"
    /\ pieceRef[r].row = "there"
    /\ IF Announced(PieceOf(r))
       THEN RecordAnnounced(r) /\ AnnouncingAt(r, "none")
       ELSE /\ index[PieceOf(r)] # "none"
            /\ UNCHANGED pieceRef
            /\ AnnouncingAt(r, "head")
    /\ UNCHANGED <<indexing, index, ads, adHead, provider, gc, adFaults>>

\* The advertisement is signed over the head.
ReadHead(r) ==
    /\ announcing[r].at = "head"
    /\ announcing' = [announcing EXCEPT ![r] = [at |-> "insert", prev |-> adHead]]
    /\ UNCHANGED <<pieceRef, indexing, index, ads, adHead, provider, gc, adFaults>>

\* Mutant: insert_ad_and_update_head, which checked nothing.
AnyHead(prev) == TRUE

\* The condition of insert_ad_and_update_head_checked.
HeadIs(prev) == adHead = prev

AppendAd(p, rm, prev) ==
    /\ ads' = Append(ads, [piece |-> p, rm |-> rm, prev |-> prev])
    /\ adHead' = Len(ads) + 1

\* One transaction inserts the advertisement, moves the head and marks the row.
\* When the head has moved another advertisement is signed (16 times at most,
\* then the attempt fails).
InsertAd(r) ==
    /\ announcing[r].at = "insert"
    /\ IF ~HeadIs(announcing[r].prev)
       THEN AnnouncingAt(r, "head") /\ UNCHANGED <<pieceRef, ads, adHead>>
       ELSE /\ pieceRef[r].row = "there"
            /\ AppendAd(PieceOf(r), FALSE, announcing[r].prev)
            /\ RecordAnnounced(r)
            /\ AnnouncingAt(r, "none")
    /\ UNCHANGED <<indexing, index, provider, gc, adFaults>>

IpniFails(r) ==
    /\ announcing[r].at \in {"check", "head", "insert"}
    /\ AdFault
    /\ \E at \in {"check", "dropped"} : AnnouncingAt(r, at)
    /\ UNCHANGED <<pieceRef, indexing, index, ads, adHead, provider, gc>>

IpniLost(r) ==
    /\ announcing[r].at \in {"check", "insert"}
    /\ pieceRef[r].row = "gone"
    /\ AnnouncingAt(r, "none")
    /\ UNCHANGED <<pieceRef, indexing, index, ads, adHead, provider, gc, adFaults>>

-----------------------------------------------------------------------------
(* PDPv0_PieceGC: processIndexingAndIPNICleanup.                           *)

Collectable(r) == pieceRef[r].row = "there" /\ ~pieceRef[r].held

SelectUnused ==
    /\ gc = NoGC
    /\ provider
    /\ gc' = [NoGC EXCEPT !.todo = {r \in AdRefs : Collectable(r)}]
    /\ gc' # gc
    /\ UNCHANGED <<pieceRef, indexing, announcing, index, ads, adHead, provider, adFaults>>

\* Mutant: the other references of the piece are not looked for.
AlwaysLast(r) == TRUE

LastOfPiece(r) == RefsOf(PieceOf(r)) = {r}

\* The transaction for one row of the selection.
CollectRef(r) ==
    /\ gc.drop = {}
    /\ r \in gc.todo
    /\ pieceRef' = IF Collectable(r) THEN [pieceRef EXCEPT ![r] = Ref("gone", PieceOf(r))] ELSE pieceRef
    /\ IF Collectable(r) /\ LastOfPiece(r) /\ Announced(PieceOf(r))
       THEN /\ AppendAd(PieceOf(r), TRUE, adHead)
            /\ gc' = [todo |-> gc.todo \ {r}, drop |-> {PieceOf(r)}]
       ELSE /\ gc' = [gc EXCEPT !.todo = @ \ {r}]
            /\ UNCHANGED <<ads, adHead>>
    /\ UNCHANGED <<indexing, announcing, index, provider, adFaults>>

\* RemoveIndexes, after the transaction.
DropIndex ==
    /\ gc.drop # {}
    /\ index' = [p \in AdPieces |-> IF p \in gc.drop THEN "none" ELSE index[p]]
    /\ gc' = [gc EXCEPT !.drop = {}]
    /\ UNCHANGED <<pieceRef, indexing, announcing, ads, adHead, provider, adFaults>>

GCFails ==
    /\ gc # NoGC
    /\ AdFault
    /\ gc' = NoGC
    /\ UNCHANGED <<pieceRef, indexing, announcing, index, ads, adHead, provider>>

-----------------------------------------------------------------------------

AdsNext ==
    \/ \E r \in AdRefs, p \in AdPieces : UploadDone(r, p)
    \/ \E r \in AdRefs, mustIndex \in BOOLEAN : AddToDataSet(r, mustIndex)
    \/ \E r \in AdRefs : LeaveDataSet(r)
    \/ \E r \in AdRefs : ScheduleIndexing(r)
    \/ \E r \in AdRefs : CheckHasPiece(r)
    \/ \E r \in AdRefs : AddFirst(r)
    \/ \E r \in AdRefs : AddRest(r)
    \/ \E r \in AdRefs : FinishIndexing(r)
    \/ \E r \in AdRefs : IndexingFails(r)
    \/ \E r \in AdRefs : IndexingLost(r)
    \/ \E r \in AdRefs : ScheduleIpni(r)
    \/ \E r \in AdRefs : CheckAd(r)
    \/ \E r \in AdRefs : ReadHead(r)
    \/ \E r \in AdRefs : InsertAd(r)
    \/ \E r \in AdRefs : IpniFails(r)
    \/ \E r \in AdRefs : IpniLost(r)
    \/ SelectUnused
    \/ \E r \in AdRefs : CollectRef(r)
    \/ DropIndex
    \/ GCFails

AdsSpec == AdsInit /\ [][AdsNext]_adVars

-----------------------------------------------------------------------------
(* Properties.                                                             *)

\* The advertisements form one chain that ends in the head: each was signed over
\* the one before it, though publishers read the head, sign, and insert in steps
\* of their own and the clean-up publishes next to them.
OneAdChain == adHead = Len(ads) /\ \A i \in 1..Len(ads) : ads[i].prev = i - 1

\* The announcements agree with the references, though these come, are indexed
\* and go independently: what a row was marked as advertised for is announced,
\* what is announced has a reference, and what is to be announced has an index.
AdsMatchRefs ==
    \A r \in AdRefs :
        /\ pieceRef[r].advertised => Announced(PieceOf(r))
        /\ Announced(PieceOf(r)) => RefsOf(PieceOf(r)) # {}
        /\ pieceRef[r].needsIpni => index[PieceOf(r)] # "none"

\* A row that is to be announced is, unless it is collected or indexed again.
EveryAdAppears == \A r \in AdRefs : []<>~pieceRef[r].needsIpni
=============================================================================
