---------------------------- MODULE PieceProofs ----------------------------
(***************************************************************************)
(* The piece park and the announcement of pieces, for any number of deals, *)
(* rows, references, pieces and failures.                                  *)
(***************************************************************************)
EXTENDS PiecePark, PieceAds, WellFoundedInduction, TLAPS

-----------------------------------------------------------------------------
(* The piece park.                                                         *)

PieceRow == [row : {"unused", "there", "deleted"}, complete : BOOLEAN, claimed : BOOLEAN, tasked : BOOLEAN]

RowsTypeOK ==
    /\ piece \in [Pieces -> PieceRow]
    /\ file \subseteq Pieces
    /\ ref \in [Deals -> Pieces \cup {NoPiece}]
    /\ asking \in [Deals -> {"nothing", "insert", "holds"}]
    /\ fetching \in [Pieces -> {"none", "queued", "write", "store", "dropped"}]
    /\ cleaning \in [Pieces -> {"none", "queued", "delete", "unclaim", "remove", "dropped"}]

\* A row that was never inserted has no task, data outlives its row, whoever is
\* writing it, and DropPiece removes data only of rows that it has deleted.
PieceOK(i) ==
    /\ piece[i].row = "unused" => fetching[i] = "none"
    /\ piece[i].row = "there" /\ fetching[i] = "store" => i \in file
    /\ piece[i].row = "there" /\ piece[i].complete => i \in file
    /\ cleaning[i] = "remove" => piece[i].row = "deleted"

DealOK(d) == asking[d] = "holds" => ref[d] \in Pieces /\ piece[ref[d]].row = "there"

\* References move to a row that is not deleted with the others; the data that
\* FixParkPiece removes belongs to rows that it has deleted.
FixingOK ==
    /\ fixing = [at |-> fixing.at, seen |-> fixing.seen, winner |-> fixing.winner, losers |-> fixing.losers]
    /\ fixing.at = "merge" => fixing.winner \notin fixing.losers
    /\ fixing.at = "remove" => \A i \in Pieces : i \in fixing.losers => piece[i].row = "deleted"

ParkInv ==
    /\ RowsTypeOK
    /\ \A i \in Pieces : PieceOK(i)
    /\ \A d \in Deals : DealOK(d)
    /\ FixingOK

\* What the inductive invariant says of the data and the references.
LEMMA ParkInvSuffices == ParkInv => RefsSurvive
  BY DEF ParkInv, PieceOK, DealOK, RefsSurvive, There

LEMMA LeastPiece ==
    ASSUME NEW T, T \subseteq Pieces, T # {}
    PROVE  (CHOOSE i \in T : \A j \in T : i <= j) \in T
<1>1. T \subseteq Nat
  BY ParkAssumption DEF Pieces
<1>2. PICK x \in T : \A y \in T : ~(<<y, x>> \in OpToRel(<, Nat))
  BY <1>1, WFMin, NatLessThanWellFounded, Zenon
<1>3. \A y \in T : ~(y < x)
  BY <1>1, <1>2 DEF OpToRel
<1>4. \A y \in T : x <= y
  BY <1>1, <1>3
<1> QED
  BY <1>4

\* Rows, before and after an UPDATE.
LEMMA RowUpdates ==
    ASSUME NEW x \in PieceRow
    PROVE  /\ [x EXCEPT !.tasked = TRUE] \in PieceRow
           /\ [x EXCEPT !.claimed = TRUE] \in PieceRow
           /\ [x EXCEPT !.claimed = FALSE] \in PieceRow
           /\ [x EXCEPT !.complete = TRUE, !.tasked = FALSE] \in PieceRow
  BY Zenon DEF PieceRow

LEMMA NewRows ==
    /\ Unused \in PieceRow /\ Fresh \in PieceRow /\ Deleted \in PieceRow
    /\ Unused.row = "unused" /\ Fresh.row = "there" /\ Deleted.row = "deleted"
    /\ ~Fresh.complete
<1>1. Unused \in PieceRow /\ Unused.row = "unused" /\ Unused.complete = FALSE
  BY DEF Unused, PieceRow
<1>2. Fresh \in PieceRow /\ Deleted \in PieceRow
  BY <1>1, Zenon DEF Fresh, Deleted, PieceRow
<1>3. Fresh.row = "there" /\ Deleted.row = "deleted" /\ Fresh.complete = FALSE
  BY <1>1 DEF Fresh, Deleted, Unused
<1> QED
  BY <1>1, <1>2, <1>3

\* What a step leaves alone: row and completeness of every piece ...
RowsAlike ==
    /\ piece' \in [Pieces -> PieceRow]
    /\ \A j \in Pieces : piece'[j].row = piece[j].row /\ (piece'[j].complete <=> piece[j].complete)

\* ... the run of FixParkPiece ...
LEMMA FixingKept ==
    ASSUME FixingOK, UNCHANGED fixing, \A i \in Pieces : piece[i].row = "deleted" => piece'[i].row = "deleted"
    PROVE  FixingOK'
  BY DEF FixingOK

\* ... and what the deals have.
LEMMA DealsKept ==
    ASSUME ParkInv, NEW d \in Deals, ref'[d] = ref[d], asking'[d] = asking[d],
           asking[d] = "holds" => piece'[ref[d]].row = "there"
    PROVE  DealOK(d)'
  BY DEF ParkInv, DealOK

\* Steps of the tasks that change no row's life: they queue, start, fail, claim
\* and give back.
LEMMA TaskStepPark ==
    ASSUME ParkInv, RowsAlike, UNCHANGED <<ref, asking, fixing>>, RowsTypeOK', \A i \in Pieces : PieceOK(i)'
    PROVE  ParkInv'
<1>1. \A d \in Deals : DealOK(d)'
  BY DealsKept DEF ParkInv, RowsAlike, DealOK
<1>2. FixingOK'
  BY FixingKept DEF ParkInv, RowsAlike
<1> QED
  BY <1>1, <1>2 DEF ParkInv

LEMMA FetchStepPark ==
    ASSUME ParkInv, NEW i \in Pieces,
           PollPieceTasks(i) \/ StartFetch(i) \/ WritePiece(i) \/ FetchFails(i)
    PROVE  ParkInv'
<1>0. piece \in [Pieces -> PieceRow] /\ fetching \in [Pieces -> {"none", "queued", "write", "store", "dropped"}]
  BY DEF ParkInv, RowsTypeOK
<1>1. RowsAlike
  <2>1. CASE UNCHANGED piece
    BY <1>0, <2>1 DEF RowsAlike
  <2>2. CASE piece' = [piece EXCEPT ![i].tasked = TRUE]
    <3>1. piece'[i] = [piece[i] EXCEPT !.tasked = TRUE] /\ \A j \in Pieces : j # i => piece'[j] = piece[j]
      BY <1>0, <2>2
    <3>2. piece'[i].row = piece[i].row /\ piece'[i].complete = piece[i].complete
      BY <1>0, <3>1 DEF PieceRow
    <3>a. piece[i] \in PieceRow
      BY <1>0
    <3>b. piece'[i] \in PieceRow
      BY <3>1, <3>a, RowUpdates
    <3>3. piece' \in [Pieces -> PieceRow]
      BY <1>0, <2>2, <3>1, <3>b
    <3>4. \A j \in Pieces : piece'[j].row = piece[j].row /\ piece'[j].complete = piece[j].complete
      BY <3>1, <3>2
    <3> QED
      BY <3>3, <3>4, Zenon DEF RowsAlike
  <2> QED
    BY <2>1, <2>2 DEF PollPieceTasks, StartFetch, WritePiece, FetchFails
<1>2. UNCHANGED <<ref, asking, fixing, cleaning>>
  BY DEF PollPieceTasks, StartFetch, WritePiece, FetchFails
<1>3. /\ fetching' \in [Pieces -> {"none", "queued", "write", "store", "dropped"}]
      /\ file \subseteq file' /\ file' \subseteq Pieces
      /\ \A j \in Pieces : j # i => fetching'[j] = fetching[j]
      /\ fetching'[i] = "store" => i \in file'
      /\ fetching[i] = "none" => piece[i].row = "there"
  BY <1>0 DEF PollPieceTasks, StartFetch, WritePiece, FetchFails, There, ParkInv, RowsTypeOK
<1>4. RowsTypeOK'
  BY <1>1, <1>2, <1>3 DEF RowsTypeOK, ParkInv, RowsAlike
<1>5. ASSUME NEW j \in Pieces
      PROVE  PieceOK(j)'
  BY <1>1, <1>2, <1>3, <1>5 DEF PieceOK, ParkInv, RowsAlike
<1> QED
  BY <1>1, <1>2, <1>4, <1>5, TaskStepPark

LEMMA StorePiecePark ==
    ASSUME ParkInv, NEW i \in Pieces, StorePiece(i)
    PROVE  ParkInv'
<1>0. piece \in [Pieces -> PieceRow] /\ fetching \in [Pieces -> {"none", "queued", "write", "store", "dropped"}]
  BY DEF ParkInv, RowsTypeOK
<1>1. /\ piece' \in [Pieces -> PieceRow]
      /\ \A j \in Pieces : piece'[j].row = piece[j].row
      /\ \A j \in Pieces : j # i => (piece'[j].complete <=> piece[j].complete)
  <2>1. CASE UNCHANGED piece
    BY <1>0, <2>1
  <2>2. CASE piece' = [piece EXCEPT ![i].complete = TRUE, ![i].tasked = FALSE]
    <3>1. piece'[i] = [piece[i] EXCEPT !.complete = TRUE, !.tasked = FALSE] /\ \A j \in Pieces : j # i => piece'[j] = piece[j]
      BY <1>0, <2>2
    <3>2. piece'[i].row = piece[i].row
      BY <1>0, <3>1 DEF PieceRow
    <3>a. piece[i] \in PieceRow
      BY <1>0
    <3>b. piece'[i] \in PieceRow
      BY <3>1, <3>a, RowUpdates
    <3>3. piece' \in [Pieces -> PieceRow]
      BY <1>0, <2>2, <3>1, <3>b
    <3>4. \A j \in Pieces : j # i => piece'[j].complete = piece[j].complete
      BY <3>1
    <3> QED
      BY <3>1, <3>2, <3>3, <3>4, Zenon
  <2> QED
    BY <2>1, <2>2 DEF StorePiece
<1>2. UNCHANGED <<file, ref, asking, cleaning, fixing>> /\ fetching[i] = "store" /\ fetching' = [fetching EXCEPT ![i] = "none"]
  BY DEF StorePiece
<1>3. RowsTypeOK'
  BY <1>1, <1>2 DEF RowsTypeOK, ParkInv
<1>4. ASSUME NEW j \in Pieces
      PROVE  PieceOK(j)'
  BY <1>0, <1>1, <1>2 DEF PieceOK, ParkInv
<1>5. \A d \in Deals : DealOK(d)'
  BY <1>1, <1>2, DealsKept DEF ParkInv, DealOK
<1>6. FixingOK'
  BY <1>1, <1>2, FixingKept DEF ParkInv
<1> QED
  BY <1>3, <1>4, <1>5, <1>6 DEF ParkInv

LEMMA CleanupStepPark ==
    ASSUME ParkInv, NEW i \in Pieces,
           ScheduleCleanup(i) \/ StartCleanup(i) \/ UnclaimPiece(i) \/ CleanupCrashes(i) \/ RemovePiece(i)
    PROVE  ParkInv'
<1>0. /\ piece \in [Pieces -> PieceRow]
      /\ cleaning \in [Pieces -> {"none", "queued", "delete", "unclaim", "remove", "dropped"}]
  BY DEF ParkInv, RowsTypeOK
<1>1. RowsAlike
  <2>1. CASE UNCHANGED piece
    BY <1>0, <2>1 DEF RowsAlike
  <2>2. ASSUME NEW b \in BOOLEAN, piece' = [piece EXCEPT ![i].claimed = b]
        PROVE  RowsAlike
    <3>1. piece'[i] = [piece[i] EXCEPT !.claimed = b] /\ \A j \in Pieces : j # i => piece'[j] = piece[j]
      BY <1>0, <2>2
    <3>2. piece'[i].row = piece[i].row /\ piece'[i].complete = piece[i].complete
      BY <1>0, <3>1 DEF PieceRow
    <3>3. piece'[i] \in PieceRow
      BY <1>0, <2>2, <3>1, RowUpdates, Zenon
    <3>4. piece' \in [Pieces -> PieceRow]
      BY <1>0, <2>2, <3>1, <3>3
    <3>5. \A j \in Pieces : piece'[j].row = piece[j].row /\ piece'[j].complete = piece[j].complete
      BY <3>1, <3>2
    <3> QED
      BY <3>4, <3>5, Zenon DEF RowsAlike
  <2> QED
    BY <2>1, <2>2 DEF ScheduleCleanup, StartCleanup, UnclaimPiece, CleanupCrashes, RemovePiece
<1>2. UNCHANGED <<ref, asking, fixing, fetching>>
  BY DEF ScheduleCleanup, StartCleanup, UnclaimPiece, CleanupCrashes, RemovePiece
<1>3. /\ cleaning' \in [Pieces -> {"none", "queued", "delete", "unclaim", "remove", "dropped"}]
      /\ \A j \in Pieces : j # i => cleaning'[j] = cleaning[j]
      /\ cleaning'[i] # "remove"
      /\ file' = file \/ (file' = file \ {i} /\ cleaning[i] = "remove")
  BY <1>0 DEF ScheduleCleanup, StartCleanup, UnclaimPiece, CleanupCrashes, RemovePiece, Cleaning
<1>4. RowsTypeOK'
  BY <1>1, <1>2, <1>3 DEF RowsTypeOK, ParkInv, RowsAlike
<1>5. ASSUME NEW j \in Pieces
      PROVE  PieceOK(j)'
  BY <1>1, <1>2, <1>3, <1>5 DEF PieceOK, ParkInv, RowsAlike
<1> QED
  BY <1>1, <1>2, <1>4, <1>5, TaskStepPark

\* A new row comes in, and the deal that inserts it refers to it.
LEMMA InsertPark ==
    ASSUME ParkInv, NEW d \in Deals, Unfilled # {}, piece' = [piece EXCEPT ![NextId] = Fresh], Attach(d, NextId),
           UNCHANGED <<file, fetching, cleaning, fixing>>
    PROVE  ParkInv'
<1>1. PICK i \in Pieces : i = NextId /\ piece[i].row = "unused"
  BY LeastPiece DEF NextId, Unfilled
<1>2. /\ piece' \in [Pieces -> PieceRow] /\ piece'[i] = Fresh
      /\ \A j \in Pieces : j # i => piece'[j] = piece[j]
  BY <1>1, NewRows DEF ParkInv, RowsTypeOK
<1>3. /\ ref' \in [Deals -> Pieces \cup {NoPiece}] /\ asking' \in [Deals -> {"nothing", "insert", "holds"}]
      /\ ref'[d] = i /\ \A e \in Deals : e # d => ref'[e] = ref[e] /\ asking'[e] = asking[e]
  BY <1>1 DEF Attach, ParkInv, RowsTypeOK
<1>4. RowsTypeOK'
  BY <1>2, <1>3 DEF ParkInv, RowsTypeOK
<1>5. ASSUME NEW j \in Pieces
      PROVE  PieceOK(j)'
  <2>1. CASE j = i
    BY <1>1, <1>2, <2>1, NewRows DEF ParkInv, PieceOK
  <2>2. CASE j # i
    BY <1>2, <2>2 DEF ParkInv, PieceOK
  <2> QED
    BY <2>1, <2>2
<1>6. ASSUME NEW e \in Deals
      PROVE  DealOK(e)'
  <2>1. CASE e = d
    BY <1>2, <1>3, <2>1, NewRows DEF DealOK
  <2>2. CASE e # d
    <3>1. asking[e] = "holds" => ref[e] \in Pieces /\ piece[ref[e]].row = "there"
      BY DEF ParkInv, DealOK
    <3>2. asking[e] = "holds" => ref[e] # i
      BY <1>1, <3>1
    <3> QED
      BY <1>2, <1>3, <2>2, <3>1, <3>2 DEF DealOK
  <2> QED
    BY <2>1, <2>2
<1>7. FixingOK'
  <2>1. \A j \in Pieces : piece[j].row = "deleted" => piece'[j].row = "deleted"
    BY <1>1, <1>2
  <2> QED
    BY <2>1, FixingKept DEF ParkInv
<1> QED
  BY <1>4, <1>5, <1>6, <1>7 DEF ParkInv

\* A deal refers to a row that is there, or to none; the rows stay.
LEMMA DealStepPark ==
    ASSUME ParkInv, NEW d \in Deals, UNCHANGED <<piece, file, fetching, cleaning, fixing>>,
           NEW i \in Pieces \cup {NoPiece}, NEW a \in {"nothing", "insert", "holds"},
           ref' \in {ref, [ref EXCEPT ![d] = i]}, asking' = [asking EXCEPT ![d] = a],
           a = "holds" => i \in There /\ ref' = [ref EXCEPT ![d] = i]
    PROVE  ParkInv'
<1>1. RowsTypeOK'
  BY DEF ParkInv, RowsTypeOK
<1>2. \A j \in Pieces : PieceOK(j)'
  BY DEF ParkInv, PieceOK
<1>3. ASSUME NEW e \in Deals
      PROVE  DealOK(e)'
  BY DEF ParkInv, DealOK, RowsTypeOK, There
<1>4. FixingOK'
  BY FixingKept DEF ParkInv
<1> QED
  BY <1>1, <1>2, <1>3, <1>4 DEF ParkInv

LEMMA DealPark ==
    ASSUME ParkInv, NEW d \in Deals,
           Upsert(d) \/ UpsertFallback(d) \/ (\E i \in Pieces : FindPiece(d, i)) \/ DropRef(d)
    PROVE  ParkInv'
<1>1. UNCHANGED <<file, fetching, cleaning, fixing>>
  BY DEF Upsert, UpsertFallback, FindPiece, DropRef
<1>2. CASE Unfilled # {} /\ piece' = [piece EXCEPT ![NextId] = Fresh] /\ Attach(d, NextId)
  BY <1>1, <1>2, InsertPark
<1>3. CASE UNCHANGED piece /\ \E i \in There : Attach(d, i)
  <2>1. PICK i \in There : Attach(d, i)
    BY <1>3
  <2>2. i \in Pieces \cup {NoPiece}
    BY <2>1 DEF There
  <2> QED
    BY <1>1, <1>3, <2>1, <2>2, DealStepPark DEF Attach
<1>4. CASE UNCHANGED <<piece, ref>> /\ \E a \in {"nothing", "insert"} : asking' = [asking EXCEPT ![d] = a]
  BY <1>1, <1>4, DealStepPark
<1>5. CASE DropRef(d)
  BY <1>1, <1>5, DealStepPark DEF DropRef
<1>6. Active # {} => (CHOOSE i \in Active : \A j \in Active : i <= j) \in There
  BY LeastPiece DEF Active, There
<1> QED
  BY <1>2, <1>3, <1>4, <1>5, <1>6 DEF Upsert, UpsertFallback, FindPiece

LEMMA DeletePiecePark ==
    ASSUME ParkInv, NEW i \in Pieces, DeletePiece(i)
    PROVE  ParkInv'
<1>1. UNCHANGED <<file, ref, asking, fetching, fixing>> /\ cleaning \in [Pieces -> {"none", "queued", "delete", "unclaim", "remove", "dropped"}]
  BY DEF DeletePiece, ParkInv, RowsTypeOK
<1>2. CASE UNCHANGED piece /\ cleaning' = [cleaning EXCEPT ![i] = "unclaim"]
  <2>1. RowsAlike /\ RowsTypeOK'
    BY <1>1, <1>2 DEF RowsAlike, RowsTypeOK, ParkInv
  <2>2. \A j \in Pieces : PieceOK(j)'
    BY <1>1, <1>2 DEF PieceOK, ParkInv
  <2> QED
    BY <1>1, <2>1, <2>2, TaskStepPark
<1>3. CASE i \in There /\ Refs(i) = {} /\ piece' = [piece EXCEPT ![i] = Deleted] /\ cleaning' = [cleaning EXCEPT ![i] = "remove"]
  <2>1. /\ piece' \in [Pieces -> PieceRow] /\ piece'[i] = Deleted
        /\ \A j \in Pieces : j # i => piece'[j] = piece[j]
    BY <1>3, NewRows DEF ParkInv, RowsTypeOK
  <2>2. RowsTypeOK'
    BY <1>1, <1>3, <2>1 DEF ParkInv, RowsTypeOK
  <2>3. ASSUME NEW j \in Pieces
        PROVE  PieceOK(j)'
    <3>1. CASE j = i
      BY <1>1, <2>1, <3>1, NewRows DEF PieceOK
    <3>2. CASE j # i
      BY <1>1, <1>3, <2>1, <3>2 DEF PieceOK, ParkInv
    <3> QED
      BY <3>1, <3>2
  <2>4. ASSUME NEW e \in Deals
        PROVE  DealOK(e)'
    <3>1. ref[e] # i
      BY <1>3 DEF Refs
    <3> QED
      BY <1>1, <2>1, <3>1 DEF DealOK, ParkInv
  <2>5. FixingOK'
    <3>1. \A j \in Pieces : piece[j].row = "deleted" => piece'[j].row = "deleted"
      BY <2>1, NewRows
    <3> QED
      BY <1>1, <3>1, FixingKept DEF ParkInv
  <2> QED
    BY <2>2, <2>3, <2>4, <2>5 DEF ParkInv
<1> QED
  BY <1>2, <1>3 DEF DeletePiece, Cleaning

\* The references of the losers go to the winner, which stays.
LEMMA MergePark ==
    ASSUME ParkInv, MergeDuplicates
    PROVE  ParkInv'
<1>1. UNCHANGED <<file, asking, fetching, cleaning>> /\ fixing.at = "merge"
  BY DEF MergeDuplicates
<1> DEFINE moved == {d \in Deals : ref[d] \in fixing.losers}
<1>2. CASE fixing' = NotFixing /\ UNCHANGED <<piece, ref>>
  <2>1. FixingOK'
    BY <1>2 DEF FixingOK, NotFixing
  <2>2. RowsTypeOK' /\ \A j \in Pieces : PieceOK(j)'
    BY <1>1, <1>2 DEF ParkInv, RowsTypeOK, PieceOK
  <2>3. \A d \in Deals : DealOK(d)'
    BY <1>1, <1>2 DEF ParkInv, DealOK
  <2> QED
    BY <2>1, <2>2, <2>3 DEF ParkInv
<1>3. CASE /\ moved = {} \/ fixing.winner \in There
           /\ ref' = [d \in Deals |-> IF d \in moved THEN fixing.winner ELSE ref[d]]
           /\ piece' = [i \in Pieces |-> IF i \in fixing.losers THEN Deleted ELSE piece[i]]
           /\ fixing' = [fixing EXCEPT !.at = "remove"]
  <2>1. fixing'.at = "remove" /\ fixing'.losers = fixing.losers /\ fixing.winner \notin fixing.losers
    BY <1>1, <1>3 DEF ParkInv, FixingOK
  <2>2. fixing' = [at |-> fixing'.at, seen |-> fixing'.seen, winner |-> fixing'.winner, losers |-> fixing'.losers]
    BY <1>3 DEF ParkInv, FixingOK
  <2>3. \A i \in Pieces : (i \in fixing.losers => piece'[i] = Deleted) /\ (i \notin fixing.losers => piece'[i] = piece[i])
    BY <1>3
  <2>4. FixingOK'
    BY <2>1, <2>2, <2>3, NewRows DEF FixingOK
  <2>5. piece' \in [Pieces -> PieceRow]
    BY <1>3, NewRows DEF ParkInv, RowsTypeOK
  <2>6. ref' \in [Deals -> Pieces \cup {NoPiece}]
    BY <1>3 DEF ParkInv, RowsTypeOK, There
  <2>7. RowsTypeOK'
    BY <1>1, <2>5, <2>6 DEF ParkInv, RowsTypeOK
  <2>8. ASSUME NEW j \in Pieces
        PROVE  PieceOK(j)'
    <3>1. CASE j \in fixing.losers
      BY <1>1, <2>3, <3>1, NewRows DEF PieceOK
    <3>2. CASE j \notin fixing.losers
      BY <1>1, <2>3, <3>2 DEF PieceOK, ParkInv
    <3> QED
      BY <3>1, <3>2
  <2>9. ASSUME NEW d \in Deals
        PROVE  DealOK(d)'
    <3>1. CASE d \in moved
      <4>1. ref'[d] = fixing.winner /\ fixing.winner \in Pieces /\ piece[fixing.winner].row = "there"
        BY <1>3, <3>1 DEF There
      <4> QED
        BY <2>1, <2>3, <4>1 DEF DealOK
    <3>2. CASE d \notin moved
      BY <1>1, <1>3, <2>3, <3>2 DEF DealOK, ParkInv
    <3> QED
      BY <3>1, <3>2
  <2> QED
    BY <2>4, <2>7, <2>8, <2>9 DEF ParkInv
<1> QED
  BY <1>2, <1>3 DEF MergeDuplicates

LEMMA FixStepPark ==
    ASSUME ParkInv, FindDuplicates \/ ChooseWinner \/ RemoveLosers \/ CreateIndex \/ FixFails
    PROVE  ParkInv'
<1>1. UNCHANGED <<piece, ref, asking, fetching, cleaning>>
  BY DEF FindDuplicates, ChooseWinner, RemoveLosers, CreateIndex, FixFails
<1>2. FixingOK'
  <2>1. CASE FindDuplicates \/ RemoveLosers \/ CreateIndex \/ FixFails
    <3>1. \/ fixing' = NotFixing \/ fixing' = [NotFixing EXCEPT !.at = "index"]
          \/ \E S : fixing' = [NotFixing EXCEPT !.at = "choose", !.seen = S]
      BY <2>1, Zenon DEF FindDuplicates, RemoveLosers, CreateIndex, FixFails
    <3>2. ASSUME NEW S, fixing' = [NotFixing EXCEPT !.at = "choose", !.seen = S]
          PROVE  FixingOK'
      <4>1. fixing' = [at |-> "choose", seen |-> S, winner |-> NoPiece, losers |-> {}]
        BY <3>2 DEF NotFixing
      <4> QED
        BY <4>1 DEF FixingOK
    <3>3. CASE fixing' = NotFixing \/ fixing' = [NotFixing EXCEPT !.at = "index"]
      BY <3>3 DEF FixingOK, NotFixing
    <3> QED
      BY <3>1, <3>2, <3>3
  <2>2. CASE ChooseWinner
    BY <2>2 DEF ChooseWinner, FixingOK, NotFixing
  <2> QED
    BY <2>1, <2>2
<1>3. file' \subseteq file /\ \A i \in file : i \notin file' => piece[i].row = "deleted"
  BY DEF FindDuplicates, ChooseWinner, RemoveLosers, CreateIndex, FixFails, ParkInv, FixingOK, RowsTypeOK
<1>4. RowsTypeOK' /\ \A j \in Pieces : PieceOK(j)'
  BY <1>1, <1>3 DEF ParkInv, RowsTypeOK, PieceOK
<1>5. \A d \in Deals : DealOK(d)'
  BY <1>1 DEF ParkInv, DealOK
<1> QED
  BY <1>2, <1>4, <1>5 DEF ParkInv

LEMMA ParkInvInductive ==
    /\ ParkInit => ParkInv
    /\ ParkInv /\ [ParkNext]_parkVars => ParkInv'
<1>1. ASSUME ParkInit
      PROVE  ParkInv
  BY <1>1, NewRows DEF ParkInit, ParkInv, RowsTypeOK, PieceOK, DealOK, FixingOK, NotFixing
<1>2. ASSUME ParkInv, UNCHANGED parkVars
      PROVE  ParkInv'
  BY <1>2 DEF parkVars, ParkInv, RowsTypeOK, PieceOK, DealOK, FixingOK
<1>3. ASSUME ParkInv, ParkNext
      PROVE  ParkInv'
  BY <1>3, DealPark, FetchStepPark, StorePiecePark, CleanupStepPark, DeletePiecePark, MergePark, FixStepPark
  DEF ParkNext
<1> QED
  BY <1>1, <1>2, <1>3

\* A deal keeps its reference until it drops it, and what is complete can be
\* read: DropPiece and FixParkPiece delete no row that somebody refers to and
\* remove no data before its row, however they, the fetches and the deals
\* interleave, crash and fail.
THEOREM RefsAlwaysSurvive == ParkSpec => []RefsSurvive
  BY ParkInvSuffices, ParkInvInductive, PTL DEF ParkSpec

\* The rows that FixParkPiece has read, ...
SeenRow == [id : Pieces, complete : BOOLEAN, active : BOOLEAN]

\* ... of which one comes first: the least of those that were complete, if any.
LEMMA FirstSeen ==
    ASSUME NEW S \in SUBSET SeenRow, S # {}
    PROVE  (CHOOSE s \in S : \A t \in S : (s.complete /\ ~t.complete) \/ (s.complete = t.complete /\ s.id <= t.id)) \in S
<1> DEFINE Whole == {s \in S : s.complete}
           T == IF Whole # {} THEN Whole ELSE S
           Ids == {s.id : s \in T}
<1>1. \A s \in S : s.id \in Pieces /\ s.complete \in BOOLEAN
  BY DEF SeenRow
<1>2. T # {} /\ T \subseteq S /\ (\A s \in T, t \in S : ~s.complete => ~t.complete)
                              /\ (\A s \in T, t \in S : s.complete /\ t.complete => t \in T)
  OBVIOUS
<1>3. \A s \in T, t \in S : t \notin T => s.complete /\ ~t.complete
  OBVIOUS
<1>4. \A s, t \in T : s.complete = t.complete
  BY <1>1
<1>5. \A s \in T : s \in S
  BY <1>2
<1> HIDE DEF T
<1>6. Ids \subseteq Pieces /\ Ids # {}
  BY <1>1, <1>2
<1>7. \A n \in Ids : \E s \in T : s.id = n
  OBVIOUS
<1>8. \A s \in T : s.id \in Ids
  OBVIOUS
<1> HIDE DEF Ids
<1>9. PICK n \in Ids : \A m \in Ids : n <= m
  <2>1. Ids \subseteq Nat
    BY <1>6, ParkAssumption DEF Pieces
  <2>2. PICK x \in Ids : \A y \in Ids : ~(<<y, x>> \in OpToRel(<, Nat))
    BY <1>6, <2>1, WFMin, NatLessThanWellFounded, Zenon
  <2>3. \A y \in Ids : ~(y < x)
    BY <2>1, <2>2 DEF OpToRel
  <2> QED
    BY <2>1, <2>3
<1>10. PICK s \in T : s.id = n
  BY <1>7
<1>11. \A t \in S : (s.complete /\ ~t.complete) \/ (s.complete = t.complete /\ s.id <= t.id)
  BY <1>3, <1>4, <1>8, <1>9, <1>10
<1> QED
  BY <1>5, <1>10, <1>11

\* Winner picks one of them, or none.
LEMMA WinnerType ==
    ASSUME NEW seen \in SUBSET SeenRow
    PROVE  Winner(seen) \in Pieces \cup {NoPiece}
<1> DEFINE First(S) == CHOOSE s \in S : \A t \in S : (s.complete /\ ~t.complete) \/ (s.complete = t.complete /\ s.id <= t.id)
           idle     == {s \in seen : ~s.active}
           readable == {s \in idle : s.complete /\ s.id \in file}
<1>1. \A S \in SUBSET SeenRow : S # {} => First(S) \in S
  BY FirstSeen
<1>2. Winner(seen) = IF readable # {} THEN First(readable).id ELSE IF idle # {} THEN First(idle).id ELSE NoPiece
  BY DEF Winner
<1>3. idle \in SUBSET SeenRow /\ readable \in SUBSET SeenRow
  OBVIOUS
<1> HIDE DEF First, idle, readable
<1>4. \A s \in SeenRow : s.id \in Pieces
  BY DEF SeenRow
<1>5. readable # {} => First(readable).id \in Pieces
  BY <1>1, <1>3, <1>4
<1>6. idle # {} => First(idle).id \in Pieces
  BY <1>1, <1>3, <1>4
<1> QED
  BY <1>2, <1>5, <1>6

FixingType == [at : {"idle", "choose", "merge", "remove", "index"}, winner : Pieces \cup {NoPiece},
               seen : SUBSET SeenRow, losers : SUBSET Pieces]

\* The run of FixParkPiece, as its steps leave it.
LEMMA FixingTypes ==
    ASSUME ParkInv, fixing \in FixingType,
           FindDuplicates \/ ChooseWinner \/ MergeDuplicates \/ RemoveLosers \/ CreateIndex \/ FixFails
    PROVE  fixing' \in FixingType
<1>2. ASSUME NEW at \in {"idle", "choose", "merge", "remove", "index"}, NEW S \in SUBSET SeenRow,
             NEW w \in Pieces \cup {NoPiece}, NEW L \in SUBSET Pieces
      PROVE  [at |-> at, seen |-> S, winner |-> w, losers |-> L] \in FixingType
  BY Zenon DEF FixingType
<1>3. NotFixing \in FixingType /\ [NotFixing EXCEPT !.at = "index"] \in FixingType
  <2>1. NotFixing = [at |-> "idle", seen |-> {}, winner |-> NoPiece, losers |-> {}]
    BY DEF NotFixing
  <2>2. [NotFixing EXCEPT !.at = "index"] = [at |-> "index", seen |-> {}, winner |-> NoPiece, losers |-> {}]
    BY DEF NotFixing
  <2> QED
    BY <1>2, <2>1, <2>2
<1>4. CASE FindDuplicates
  <2> DEFINE S == {[id |-> i, complete |-> piece[i].complete,
                    active |-> fetching[i] \in {"queued", "write", "store"}] : i \in Active}
  <2>1. ASSUME NEW i \in Active
        PROVE  [id |-> i, complete |-> piece[i].complete, active |-> fetching[i] \in {"queued", "write", "store"}] \in SeenRow
    <3>1. i \in Pieces /\ piece[i].complete \in BOOLEAN
      BY DEF Active, There, ParkInv, RowsTypeOK, PieceRow
    <3>2. (fetching[i] \in {"queued", "write", "store"}) \in BOOLEAN
      OBVIOUS
    <3> QED
      BY <3>1, <3>2, Zenon DEF SeenRow
  <2>2. S \in SUBSET SeenRow
    BY <2>1, Zenon
  <2>3. \/ fixing' = [NotFixing EXCEPT !.at = "choose", !.seen = S]
        \/ fixing' = [NotFixing EXCEPT !.at = "index"]
    BY <1>4, Zenon DEF FindDuplicates
  <2> HIDE DEF S
  <2>4. ASSUME fixing' = [NotFixing EXCEPT !.at = "choose", !.seen = S]
        PROVE  fixing' \in FixingType
    <3>1. fixing' = [at |-> "choose", seen |-> S, winner |-> NoPiece, losers |-> {}]
      BY <2>4 DEF NotFixing
    <3> QED
      BY <1>2, <2>2, <3>1
  <2> QED
    BY <1>3, <2>3, <2>4
<1>5. CASE ChooseWinner
  <2>1. fixing.seen \in SUBSET SeenRow
    BY DEF FixingType
  <2>2. PICK w \in Pieces \cup {NoPiece} : w = Winner(fixing.seen)
    BY <2>1, WinnerType
  <2>3. PICK L : L = {s.id : s \in {x \in fixing.seen : ~x.active}} \ {w}
    OBVIOUS
  <2>4. L \in SUBSET Pieces
    BY <2>1, <2>3 DEF SeenRow
  <2>5. \/ fixing' = [NotFixing EXCEPT !.at = "index"]
        \/ fixing' = [NotFixing EXCEPT !.at = "merge", !.winner = w, !.losers = L]
    BY <1>5, <2>2, <2>3 DEF ChooseWinner
  <2>6. ASSUME fixing' = [NotFixing EXCEPT !.at = "merge", !.winner = w, !.losers = L]
        PROVE  fixing' \in FixingType
    <3>1. fixing' = [at |-> "merge", seen |-> {}, winner |-> w, losers |-> L]
      BY <2>6 DEF NotFixing
    <3> QED
      BY <1>2, <2>4, <3>1
  <2> QED
    BY <1>3, <2>5, <2>6
<1>6. CASE MergeDuplicates
  <2>1. fixing' = NotFixing \/ fixing' = [fixing EXCEPT !.at = "remove"]
    BY <1>6 DEF MergeDuplicates
  <2>2. [fixing EXCEPT !.at = "remove"] \in FixingType
    BY Zenon DEF FixingType
  <2> QED
    BY <1>3, <2>1, <2>2
<1>7. CASE RemoveLosers \/ CreateIndex \/ FixFails
  BY <1>3, <1>7 DEF RemoveLosers, CreateIndex, FixFails
<1> QED
  BY <1>4, <1>5, <1>6, <1>7

LEMMA ParkTypeInductive ==
    /\ ParkInit => ParkTypeOK
    /\ ParkInv /\ ParkInv' /\ ParkTypeOK /\ [ParkNext]_parkVars => ParkTypeOK'
<1> DEFINE Rest == indexed \in BOOLEAN /\ fixing \in FixingType /\ parkFaults \in 0..MaxParkFaults
<1>1. ParkTypeOK <=> RowsTypeOK /\ Rest
  BY DEF ParkTypeOK, RowsTypeOK, PieceRow, FixingType, SeenRow
<1>2. ASSUME ParkInit
      PROVE  Rest
  <2>1. NotFixing \in FixingType
    BY Zenon DEF NotFixing, FixingType
  <2> QED
    BY <1>2, <2>1, ParkAssumption DEF ParkInit
<1>3. ASSUME ParkInv, Rest, UNCHANGED parkVars
      PROVE  Rest'
  BY <1>3 DEF parkVars
<1>4. ASSUME ParkInv, Rest, ParkNext
      PROVE  Rest'
  <2>1. parkFaults' \in 0..MaxParkFaults
    <3>1. parkFaults' = parkFaults \/ (parkFaults < MaxParkFaults /\ parkFaults' = parkFaults + 1)
      BY <1>4 DEF ParkNext, Upsert, UpsertFallback, FindPiece, DropRef, PollPieceTasks, StartFetch, WritePiece,
         StorePiece, FetchFails, ScheduleCleanup, StartCleanup, DeletePiece, UnclaimPiece, RemovePiece,
         CleanupCrashes, FindDuplicates, ChooseWinner, MergeDuplicates, RemoveLosers, CreateIndex, FixFails
    <3> QED
      BY <1>4, <3>1, ParkAssumption
  <2>2. indexed' \in BOOLEAN
    <3>1. indexed' = indexed \/ CreateIndex
      BY <1>4 DEF ParkNext, Upsert, UpsertFallback, FindPiece, DropRef, PollPieceTasks, StartFetch, WritePiece,
         StorePiece, FetchFails, ScheduleCleanup, StartCleanup, DeletePiece, UnclaimPiece, RemovePiece,
         CleanupCrashes, FindDuplicates, ChooseWinner, MergeDuplicates, RemoveLosers, FixFails
    <3>2. CreateIndex => indexed' \in BOOLEAN
      BY DEF CreateIndex
    <3> QED
      BY <1>4, <3>1, <3>2, Zenon
  <2>3. fixing' \in FixingType
    <3>1. CASE FindDuplicates \/ ChooseWinner \/ MergeDuplicates \/ RemoveLosers \/ CreateIndex \/ FixFails
      BY <1>4, <3>1, FixingTypes
    <3>2. CASE ~(FindDuplicates \/ ChooseWinner \/ MergeDuplicates \/ RemoveLosers \/ CreateIndex \/ FixFails)
      <4>1. UNCHANGED fixing
        BY <1>4, <3>2 DEF ParkNext, Upsert, UpsertFallback, FindPiece, DropRef, PollPieceTasks, StartFetch,
           WritePiece, StorePiece, FetchFails, ScheduleCleanup, StartCleanup, DeletePiece, UnclaimPiece,
           RemovePiece, CleanupCrashes
      <4> QED
        BY <1>4, <4>1
    <3> QED
      BY <3>1, <3>2
  <2> QED
    BY <2>1, <2>2, <2>3
<1>5. RowsTypeOK' /\ Rest' => ParkTypeOK'
  BY DEF ParkTypeOK, RowsTypeOK, PieceRow, FixingType, SeenRow
<1>6. ParkInit => RowsTypeOK
  BY ParkInvInductive DEF ParkInv
<1>7. ParkInv' => RowsTypeOK'
  BY DEF ParkInv
<1> HIDE DEF Rest
<1> QED
  BY <1>1, <1>2, <1>3, <1>4, <1>5, <1>6, <1>7

\* Rows, references, tasks and the run of FixParkPiece keep their types; the
\* winner it chooses is one of the rows it has read, or none.
THEOREM ParkTypesHold == ParkSpec => []ParkTypeOK
  BY ParkInvInductive, ParkTypeInductive, PTL DEF ParkSpec

-----------------------------------------------------------------------------
(* The announcement of pieces.                                             *)

RefRow == [row : {"unused", "there", "gone"}, piece : AdPieces, held : BOOLEAN,
           needsIndexing : BOOLEAN, needsIpni : BOOLEAN, advertised : BOOLEAN]

AdRow == [piece : AdPieces, rm : BOOLEAN, prev : Nat]

AdRowsOK ==
    /\ pieceRef \in [AdRefs -> RefRow]
    /\ indexing \in [AdRefs -> {"none", "check", "add", "adding", "record", "dropped"}]
    /\ announcing \in [AdRefs -> [at : {"none", "check", "head", "insert", "dropped"}, prev : Nat]]
    /\ index \in [AdPieces -> {"none", "part", "full"}]
    /\ ads \in Seq(AdRow)
    /\ adHead \in Nat
    /\ gc \in [todo : SUBSET AdRefs, drop : SUBSET AdPieces]

\* The reference is live, was announced, is to be announced; its tasks are
\* past the check for an index.
Live(r)   == pieceRef[r].row = "there"
Marked(r) == pieceRef[r].advertised
ToAnnounce(r) == pieceRef[r].needsIpni
Writes(r) == indexing[r] \in {"adding", "record"}
Signs(r)  == announcing[r].at \in {"check", "head", "insert"}

\* A reference's flags and tasks: only a live one is announced or to be
\* announced, and then its piece has an index; a reference that was never used
\* has no tasks.
AdRefOK(r) ==
    /\ Marked(r) => Live(r) /\ Announced(PieceOf(r))
    /\ ToAnnounce(r) => Live(r) /\ index[PieceOf(r)] # "none"
    /\ Live(r) /\ (Writes(r) \/ Signs(r)) => index[PieceOf(r)] # "none"
    /\ pieceRef[r].row = "unused" => indexing[r] = "none" /\ announcing[r].at = "none"

\* What is announced has a live reference and an index.
AnnouncedOK(p) ==
    Announced(p) => index[p] # "none" /\ \E r \in AdRefs : PieceOf(r) = p /\ Live(r)

\* No task of the reference is on its way to announce the piece.
Quiet(r) == ~ToAnnounce(r) /\ ~Writes(r) /\ indexing[r] # "add" /\ ~Signs(r)

\* While the clean-up is about to drop the index of a piece, references to the
\* piece that have come meanwhile find the index and stay quiet.
DropOK(p) ==
    /\ ~Announced(p)
    /\ index[p] # "none"
    /\ \A r \in AdRefs : PieceOf(r) = p /\ Live(r) => Quiet(r)

AdsInv ==
    /\ AdRowsOK
    /\ OneAdChain
    /\ \A r \in AdRefs : AdRefOK(r)
    /\ \A p \in AdPieces : AnnouncedOK(p)
    /\ \A p \in gc.drop : DropOK(p)

\* What the inductive invariant says of announcements and references.
LEMMA AdsInvSuffices == AdsInv => AdsMatchRefs
<1> SUFFICES ASSUME AdsInv, NEW r \in AdRefs
             PROVE  /\ pieceRef[r].advertised => Announced(PieceOf(r))
                    /\ Announced(PieceOf(r)) => RefsOf(PieceOf(r)) # {}
                    /\ pieceRef[r].needsIpni => index[PieceOf(r)] # "none"
  BY DEF AdsMatchRefs
<1>1. AdRefOK(r) /\ AnnouncedOK(PieceOf(r))
  BY DEF AdsInv, AdRowsOK, RefRow, PieceOf
<1>2. /\ pieceRef[r].advertised => Announced(PieceOf(r))
      /\ pieceRef[r].needsIpni => index[PieceOf(r)] # "none"
  BY <1>1, Zenon DEF AdRefOK, Marked, ToAnnounce
<1>3. Announced(PieceOf(r)) => RefsOf(PieceOf(r)) # {}
  BY <1>1 DEF AnnouncedOK, RefsOf, Live
<1> QED
  BY <1>2, <1>3

-----------------------------------------------------------------------------
(* One more advertisement.                                                 *)

\* The fields of an advertisement.
AdPiece(i) == ads[i].piece
AdKeeps(i) == ~ads[i].rm

LEMMA AppendedAd ==
    ASSUME AdRowsOK, NEW p \in AdPieces, NEW rm \in BOOLEAN, NEW prev \in Nat, AppendAd(p, rm, prev)
    PROVE  /\ ads' \in Seq(AdRow) /\ Len(ads) \in Nat /\ Len(ads') = Len(ads) + 1 /\ adHead' = Len(ads')
           /\ \A i \in 1 .. Len(ads) : ads'[i] = ads[i]
           /\ ads'[Len(ads')] = [piece |-> p, rm |-> rm, prev |-> prev]
<1> DEFINE new == [piece |-> p, rm |-> rm, prev |-> prev]
<1>1. new \in AdRow
  BY Zenon DEF AdRow
<1>2. ads \in Seq(AdRow) /\ ads' = Append(ads, new) /\ adHead' = Len(ads) + 1
  BY DEF AdRowsOK, AppendAd
<1> HIDE DEF new
<1>3. /\ ads' \in Seq(AdRow) /\ Len(ads) \in Nat /\ Len(ads') = Len(ads) + 1 /\ adHead' = Len(ads')
      /\ \A i \in 1 .. Len(ads) : ads'[i] = ads[i]
      /\ ads'[Len(ads')] = new
  BY <1>1, <1>2
<1> QED
  BY <1>3 DEF new

\* The last advertisement of a piece decides.
LEMMA AnnouncedNext ==
    ASSUME AdRowsOK, NEW p \in AdPieces, NEW rm \in BOOLEAN, NEW prev \in Nat, AppendAd(p, rm, prev)
    PROVE  /\ Announced(p)' <=> ~rm
           /\ \A q : q # p => (Announced(q)' <=> Announced(q))
<1>0. /\ Len(ads) \in Nat /\ Len(ads') = Len(ads) + 1
      /\ \A i \in 1 .. Len(ads) : ads'[i] = ads[i]
      /\ ads'[Len(ads')] = [piece |-> p, rm |-> rm, prev |-> prev]
  BY AppendedAd, Zenon
<1>1. PICK n \in Nat, m \in Nat : n = Len(ads) /\ m = Len(ads') /\ m = n + 1 /\ \A i \in 1 .. n : ads'[i] = ads[i]
  BY <1>0
<1>2. ads'[m].piece = p /\ ads'[m].rm = rm
  BY <1>0, <1>1
<1>3. AdPiece(m)' = p /\ (AdKeeps(m)' <=> ~rm)
  BY <1>2, Zenon DEF AdPiece, AdKeeps
<1>4. \A i \in 1 .. n : AdPiece(i)' = AdPiece(i) /\ (AdKeeps(i)' <=> AdKeeps(i))
  BY <1>1, Zenon DEF AdPiece, AdKeeps
<1>5. ASSUME NEW q
      PROVE  /\ Announced(q) <=> \E i \in 1 .. n : AdPiece(i) = q /\ AdKeeps(i) /\ \A j \in (i + 1) .. n : AdPiece(j) # q
             /\ Announced(q)' <=> \E i \in 1 .. m : AdPiece(i)' = q /\ AdKeeps(i)' /\ \A j \in (i + 1) .. m : AdPiece(j)' # q
  BY <1>1, Zenon DEF Announced, AdPiece, AdKeeps
<1>6. Announced(p)' <=> ~rm
  <2>1. CASE ~rm
    BY <1>1, <1>3, <1>5, <2>1
  <2>2. CASE rm
    BY <1>1, <1>3, <1>5, <2>2
  <2> QED
    BY <2>1, <2>2
<1>7. ASSUME NEW q, q # p
      PROVE  Announced(q)' <=> Announced(q)
  <2>1. Announced(q) => Announced(q)'
    BY <1>1, <1>3, <1>4, <1>5, <1>7
  <2>2. ASSUME Announced(q)'
        PROVE  Announced(q)
    <3>1. PICK i \in 1 .. m : AdPiece(i)' = q /\ AdKeeps(i)' /\ \A j \in (i + 1) .. m : AdPiece(j)' # q
      BY <1>5, <2>2
    <3>2. i \in 1 .. n
      BY <1>1, <1>3, <1>7, <3>1
    <3>3. \A j \in (i + 1) .. n : AdPiece(j) # q
      BY <1>1, <1>4, <3>1, <3>2
    <3> QED
      BY <1>4, <1>5, <3>1, <3>2, <3>3
  <2> QED
    BY <2>1, <2>2
<1> QED
  BY <1>6, <1>7

-----------------------------------------------------------------------------
(* Steps of one reference.                                                 *)

\* What the updates of a row do to the fields that matter here.
LEMMA NewRef ==
    ASSUME NEW p \in AdPieces, NEW s \in {"unused", "there", "gone"}
    PROVE  /\ Ref(s, p) \in RefRow /\ Ref(s, p).row = s /\ Ref(s, p).piece = p
           /\ ~Ref(s, p).needsIpni /\ ~Ref(s, p).advertised
<1>1. Ref(s, p) \in RefRow
  BY Zenon DEF Ref, RefRow
<1>2. Ref(s, p).row = s /\ Ref(s, p).piece = p /\ Ref(s, p).needsIpni = FALSE /\ Ref(s, p).advertised = FALSE
  BY DEF Ref
<1> QED
  BY <1>1, <1>2

LEMMA RefTypes ==
    ASSUME NEW x \in RefRow, NEW b \in BOOLEAN
    PROVE  /\ [x EXCEPT !.held = TRUE, !.needsIndexing = b] \in RefRow
           /\ [x EXCEPT !.held = FALSE] \in RefRow
           /\ [x EXCEPT !.needsIndexing = FALSE, !.needsIpni = b] \in RefRow
           /\ [x EXCEPT !.needsIpni = FALSE, !.advertised = TRUE] \in RefRow
  BY Zenon DEF RefRow

\* Advertisements stay as they are.
LEMMA AnnouncedKept ==
    ASSUME UNCHANGED ads, NEW p
    PROVE  Announced(p)' <=> Announced(p)
  BY DEF Announced

\* A step about reference r: the others stay, a live one stays live, and the
\* index of a piece only grows.
Only(r) ==
    /\ \A s \in AdRefs : s # r => pieceRef'[s] = pieceRef[s] /\ indexing'[s] = indexing[s] /\ announcing'[s] = announcing[s]
    /\ Live(r) => Live(r)' /\ PieceOf(r)' = PieceOf(r)
    /\ \A p \in AdPieces : index[p] # "none" => index'[p] # "none"

LEMMA OthersKept ==
    ASSUME AdsInv, NEW r \in AdRefs, Only(r), NEW s \in AdRefs, s # r
    PROVE  /\ PieceOf(s)' = PieceOf(s) /\ PieceOf(s) \in AdPieces
           /\ (Live(s)' <=> Live(s)) /\ (Marked(s)' <=> Marked(s)) /\ (ToAnnounce(s)' <=> ToAnnounce(s))
           /\ (Writes(s)' <=> Writes(s)) /\ (Signs(s)' <=> Signs(s)) /\ (Quiet(s)' <=> Quiet(s))
<1>1. pieceRef'[s] = pieceRef[s] /\ indexing'[s] = indexing[s] /\ announcing'[s] = announcing[s]
  BY DEF Only
<1>2. PieceOf(s) \in AdPieces
  BY DEF AdsInv, AdRowsOK, RefRow, PieceOf
<1> QED
  BY <1>1, <1>2, Zenon DEF PieceOf, Live, Marked, ToAnnounce, Writes, Signs, Quiet

LEMMA RefStepAds ==
    ASSUME AdsInv, AdRowsOK', NEW r \in AdRefs, Only(r), UNCHANGED <<ads, adHead, gc>>, AdRefOK(r)',
           PieceOf(r)' \in gc.drop /\ Live(r)' => Quiet(r)'
    PROVE  AdsInv'
<1>1. \A p : Announced(p)' <=> Announced(p)
  BY AnnouncedKept
<1>2. OneAdChain'
  BY DEF AdsInv, OneAdChain
<1>3. ASSUME NEW s \in AdRefs, s # r
      PROVE  AdRefOK(s)'
  <2>1. AdRefOK(s) /\ PieceOf(s) \in AdPieces /\ PieceOf(s)' = PieceOf(s)
    BY <1>3, OthersKept DEF AdsInv
  <2>2. (Announced(PieceOf(s))' <=> Announced(PieceOf(s))) /\ (index[PieceOf(s)] # "none" => index'[PieceOf(s)] # "none")
    <3>1. PICK p \in AdPieces : p = PieceOf(s) /\ p = PieceOf(s)'
      BY <2>1
    <3>2. Announced(PieceOf(s))' <=> Announced(p)'
      BY <3>1 DEF Announced
    <3> QED
      BY <1>1, <3>1, <3>2 DEF Only
  <2>3. pieceRef'[s] = pieceRef[s] /\ indexing'[s] = indexing[s] /\ announcing'[s] = announcing[s]
    BY <1>3 DEF Only
  <2> QED
    BY <1>3, <2>1, <2>2, <2>3, OthersKept DEF AdRefOK
<1>4. ASSUME NEW p \in AdPieces
      PROVE  AnnouncedOK(p)'
  <2>1. SUFFICES ASSUME Announced(p)
                 PROVE  index'[p] # "none" /\ \E s \in AdRefs : PieceOf(s)' = p /\ Live(s)'
    BY <1>1 DEF AnnouncedOK
  <2>2. index[p] # "none" /\ \E s \in AdRefs : PieceOf(s) = p /\ Live(s)
    BY <2>1 DEF AdsInv, AnnouncedOK
  <2>3. PICK s \in AdRefs : PieceOf(s) = p /\ Live(s)
    BY <2>2
  <2>4. PieceOf(s)' = p /\ Live(s)'
    BY <2>3, OthersKept DEF Only
  <2> QED
    BY <2>2, <2>4 DEF Only
<1>5. ASSUME NEW p \in gc.drop
      PROVE  DropOK(p)'
  <2>1. DropOK(p) /\ p \in AdPieces
    BY DEF AdsInv, AdRowsOK
  <2>2. ~Announced(p)' /\ index'[p] # "none"
    BY <1>1, <2>1 DEF DropOK, Only
  <2>3. ASSUME NEW s \in AdRefs, PieceOf(s)' = p, Live(s)'
        PROVE  Quiet(s)'
    <3>1. CASE s = r
      BY <2>3, <3>1
    <3>2. CASE s # r
      BY <2>1, <2>3, <3>2, OthersKept DEF DropOK
    <3> QED
      BY <3>1, <3>2
  <2> QED
    BY <2>2, <2>3 DEF DropOK
<1> QED
  BY <1>2, <1>3, <1>4, <1>5 DEF AdsInv

LEMMA UploadDoneAds ==
    ASSUME AdsInv, NEW r \in AdRefs, NEW p \in AdPieces, UploadDone(r, p)
    PROVE  AdsInv'
<1>1. pieceRef[r].row = "unused" /\ UNCHANGED <<indexing, announcing, index, ads, adHead, gc>>
  BY DEF UploadDone
<1>2. /\ pieceRef' \in [AdRefs -> RefRow] /\ pieceRef'[r] = Ref("there", p)
      /\ \A s \in AdRefs : s # r => pieceRef'[s] = pieceRef[s]
  BY NewRef DEF UploadDone, AdsInv, AdRowsOK
<1>3. AdRowsOK'
  BY <1>1, <1>2 DEF AdsInv, AdRowsOK
<1>4. indexing[r] = "none" /\ announcing[r].at = "none"
  BY <1>1 DEF AdsInv, AdRefOK
<1>5. ~Marked(r)' /\ ~ToAnnounce(r)' /\ ~Writes(r)' /\ ~Signs(r)' /\ Live(r)' /\ Quiet(r)'
  BY <1>1, <1>2, <1>4, NewRef DEF Marked, ToAnnounce, Writes, Signs, Quiet, Live
<1>6. AdRefOK(r)'
  BY <1>5 DEF AdRefOK, Live
<1>7. Only(r)
  BY <1>1, <1>2 DEF Only, Live
<1> QED
  BY <1>1, <1>3, <1>5, <1>6, <1>7, RefStepAds

LEMMA DataSetAds ==
    ASSUME AdsInv, NEW r \in AdRefs, (\E b \in BOOLEAN : AddToDataSet(r, b)) \/ LeaveDataSet(r)
    PROVE  AdsInv'
<1>0. pieceRef \in [AdRefs -> RefRow] /\ pieceRef[r] \in RefRow
  BY DEF AdsInv, AdRowsOK
<1>1. UNCHANGED <<indexing, announcing, index, ads, adHead, gc>>
  BY DEF AddToDataSet, LeaveDataSet
<1>2. PICK b \in BOOLEAN : \/ pieceRef' = [pieceRef EXCEPT ![r].held = TRUE, ![r].needsIndexing = b]
                           \/ pieceRef' = [pieceRef EXCEPT ![r].held = FALSE]
  <2>1. CASE LeaveDataSet(r)
    BY <2>1, Zenon DEF LeaveDataSet
  <2>2. ASSUME NEW c \in BOOLEAN, AddToDataSet(r, c)
        PROVE  \E b \in BOOLEAN : pieceRef' = [pieceRef EXCEPT ![r].held = TRUE, ![r].needsIndexing = b]
    <3>1. (pieceRef[r].needsIndexing \/ c) \in BOOLEAN
      OBVIOUS
    <3>2. pieceRef' = [pieceRef EXCEPT ![r].held = TRUE, ![r].needsIndexing = pieceRef[r].needsIndexing \/ c]
      BY <1>0, <2>2 DEF AddToDataSet
    <3> QED
      BY <3>1, <3>2, Zenon
  <2> QED
    BY <2>1, <2>2
<1>3. /\ pieceRef'[r] \in {[pieceRef[r] EXCEPT !.held = TRUE, !.needsIndexing = b], [pieceRef[r] EXCEPT !.held = FALSE]}
      /\ \A s \in AdRefs : s # r => pieceRef'[s] = pieceRef[s]
  BY <1>0, <1>2
<1>4. /\ pieceRef'[r].row = pieceRef[r].row /\ pieceRef'[r].piece = pieceRef[r].piece
      /\ pieceRef'[r].needsIpni = pieceRef[r].needsIpni /\ pieceRef'[r].advertised = pieceRef[r].advertised
  BY <1>0, <1>3 DEF RefRow
<1>5. pieceRef'[r] \in RefRow
  BY <1>0, <1>3, RefTypes
<1>6. pieceRef' \in [AdRefs -> RefRow]
  BY <1>0, <1>2, <1>3, <1>5
<1>7. AdRowsOK'
  BY <1>1, <1>6 DEF AdsInv, AdRowsOK
<1>8. /\ (Marked(r)' <=> Marked(r)) /\ (ToAnnounce(r)' <=> ToAnnounce(r)) /\ (Live(r)' <=> Live(r)) /\ PieceOf(r)' = PieceOf(r)
      /\ (Writes(r)' <=> Writes(r)) /\ (Signs(r)' <=> Signs(r)) /\ (Quiet(r)' <=> Quiet(r))
  BY <1>1, <1>4, Zenon DEF Marked, ToAnnounce, Live, PieceOf, Writes, Signs, Quiet
<1>9. AdRefOK(r)'
  <2>1. Announced(PieceOf(r))' <=> Announced(PieceOf(r))
    BY <1>1, <1>8 DEF Announced
  <2> QED
    BY <1>1, <1>4, <1>8, <2>1 DEF AdsInv, AdRefOK
<1>10. Only(r)
  BY <1>1, <1>3, <1>8 DEF Only
<1>11. PieceOf(r)' \in gc.drop /\ Live(r)' => Quiet(r)'
  BY <1>8 DEF AdsInv, DropOK
<1> QED
  BY <1>1, <1>7, <1>9, <1>10, <1>11, RefStepAds

\* A step of the indexing task that leaves the row alone.
LEMMA IndexingStepAds ==
    ASSUME AdsInv, NEW r \in AdRefs, NEW at \in {"none", "check", "add", "adding", "record", "dropped"},
           indexing' = [indexing EXCEPT ![r] = at], UNCHANGED <<pieceRef, announcing, ads, adHead, gc>>,
           index' \in [AdPieces -> {"none", "part", "full"}],
           \A p \in AdPieces : index[p] # "none" => index'[p] # "none",
           pieceRef[r].row = "unused" => at = "none",
           at \in {"adding", "record"} => index'[PieceOf(r)] # "none",
           at \in {"add", "adding", "record"} /\ PieceOf(r) \in gc.drop /\ Live(r) => indexing[r] \in {"add", "adding", "record"}
    PROVE  AdsInv'
<1>1. AdRowsOK' /\ indexing'[r] = at /\ \A s \in AdRefs : s # r => indexing'[s] = indexing[s]
  BY DEF AdsInv, AdRowsOK
<1>2. PieceOf(r) \in AdPieces /\ AdRefOK(r)
  BY DEF AdsInv, AdRowsOK, RefRow, PieceOf
<1>3. /\ (Marked(r)' <=> Marked(r)) /\ (ToAnnounce(r)' <=> ToAnnounce(r)) /\ (Live(r)' <=> Live(r)) /\ PieceOf(r)' = PieceOf(r)
      /\ (Signs(r)' <=> Signs(r)) /\ (Announced(PieceOf(r))' <=> Announced(PieceOf(r)))
  BY DEF Marked, ToAnnounce, Live, PieceOf, Signs, Announced
<1>4. Writes(r)' <=> at \in {"adding", "record"}
  BY <1>1 DEF Writes
<1>5. AdRefOK(r)'
  BY <1>1, <1>2, <1>3, <1>4 DEF AdRefOK
<1>6. Only(r)
  BY <1>1, <1>3 DEF Only
<1>7. ASSUME PieceOf(r) \in gc.drop, Live(r)
      PROVE  Quiet(r)'
  <2>1. Quiet(r)
    BY <1>7 DEF AdsInv, DropOK
  <2> QED
    BY <1>1, <1>3, <1>4, <1>7, <2>1 DEF Quiet, Writes
<1> QED
  BY <1>1, <1>3, <1>5, <1>6, <1>7, RefStepAds

LEMMA IndexingAds ==
    ASSUME AdsInv, NEW r \in AdRefs,
           ScheduleIndexing(r) \/ AddFirst(r) \/ AddRest(r) \/ IndexingFails(r) \/ IndexingLost(r)
    PROVE  AdsInv'
<1>1. PieceOf(r) \in AdPieces /\ AdRefOK(r) /\ index \in [AdPieces -> {"none", "part", "full"}]
  BY DEF AdsInv, AdRowsOK, RefRow, PieceOf
<1>2. CASE ScheduleIndexing(r)
  BY <1>1, <1>2, IndexingStepAds DEF ScheduleIndexing, IndexingAt
<1>3. CASE IndexingFails(r)
  <2>1. PICK at \in {"check", "dropped"} : indexing' = [indexing EXCEPT ![r] = at]
    BY <1>3 DEF IndexingFails, IndexingAt
  <2>2. pieceRef[r].row # "unused"
    BY <1>1, <1>3 DEF IndexingFails, AdRefOK
  <2> QED
    BY <1>1, <1>3, <2>1, <2>2, IndexingStepAds DEF IndexingFails
<1>4. CASE IndexingLost(r)
  BY <1>1, <1>4, IndexingStepAds DEF IndexingLost, IndexingAt
<1>5. CASE AddFirst(r)
  <2>1. /\ index' \in [AdPieces -> {"none", "part", "full"}] /\ index'[PieceOf(r)] # "none"
        /\ \A p \in AdPieces : index[p] # "none" => index'[p] # "none"
    BY <1>1, <1>5 DEF AddFirst
  <2>2. pieceRef[r].row # "unused" /\ indexing[r] = "add"
    BY <1>1, <1>5 DEF AddFirst, AdRefOK
  <2> QED
    BY <1>5, <2>1, <2>2, IndexingStepAds DEF AddFirst, IndexingAt
<1>6. CASE AddRest(r)
  <2>1. /\ index' \in [AdPieces -> {"none", "part", "full"}] /\ index'[PieceOf(r)] # "none"
        /\ \A p \in AdPieces : index[p] # "none" => index'[p] # "none"
    BY <1>1, <1>6 DEF AddRest
  <2>2. pieceRef[r].row # "unused" /\ indexing[r] = "adding"
    BY <1>1, <1>6 DEF AddRest, AdRefOK
  <2> QED
    BY <1>6, <2>1, <2>2, IndexingStepAds DEF AddRest, IndexingAt
<1> QED
  BY <1>2, <1>3, <1>4, <1>5, <1>6

\* recordCompletion of the indexing task.
LEMMA RecordIndexedAds ==
    ASSUME AdsInv, NEW r \in AdRefs, NEW b \in BOOLEAN, Live(r), RecordIndexed(r, b), IndexingAt(r, "none"),
           UNCHANGED <<announcing, index, ads, adHead, gc>>, b => Writes(r)
    PROVE  AdsInv'
<1>0. pieceRef \in [AdRefs -> RefRow] /\ pieceRef[r] \in RefRow /\ PieceOf(r) \in AdPieces /\ AdRefOK(r)
  BY DEF AdsInv, AdRowsOK, RefRow, PieceOf
<1>1. /\ pieceRef'[r] = [pieceRef[r] EXCEPT !.needsIndexing = FALSE, !.needsIpni = b]
      /\ \A s \in AdRefs : s # r => pieceRef'[s] = pieceRef[s]
  BY <1>0 DEF RecordIndexed
<1>2. /\ pieceRef'[r].row = pieceRef[r].row /\ pieceRef'[r].piece = pieceRef[r].piece
      /\ pieceRef'[r].needsIpni = b /\ pieceRef'[r].advertised = pieceRef[r].advertised
  BY <1>0, <1>1 DEF RefRow
<1>3. pieceRef'[r] \in RefRow
  BY <1>0, <1>1, RefTypes
<1>4. pieceRef' \in [AdRefs -> RefRow]
  BY <1>0, <1>1, <1>3 DEF RecordIndexed
<1>5. AdRowsOK' /\ indexing'[r] = "none" /\ \A s \in AdRefs : s # r => indexing'[s] = indexing[s]
  BY <1>4 DEF IndexingAt, AdsInv, AdRowsOK
<1>6. /\ (Marked(r)' <=> Marked(r)) /\ (ToAnnounce(r)' <=> b) /\ (Live(r)' <=> Live(r)) /\ PieceOf(r)' = PieceOf(r)
      /\ (Signs(r)' <=> Signs(r))
  BY <1>2, Zenon DEF Marked, ToAnnounce, Live, PieceOf, Signs
<1>7. ~Writes(r)' /\ (Announced(PieceOf(r))' <=> Announced(PieceOf(r)))
  BY <1>5, <1>6 DEF Writes, Announced
<1>8. AdRefOK(r)'
  BY <1>0, <1>2, <1>5, <1>6, <1>7 DEF AdRefOK, Live
<1>9. Only(r)
  BY <1>1, <1>5, <1>6 DEF Only
<1>10. ASSUME PieceOf(r) \in gc.drop, Live(r)
       PROVE  Quiet(r)'
  <2>1. Quiet(r)
    BY <1>10 DEF AdsInv, DropOK
  <2> QED
    BY <1>5, <1>6, <1>7, <2>1 DEF Quiet
<1> QED
  BY <1>5, <1>6, <1>8, <1>9, <1>10, RefStepAds

LEMMA IndexedAds ==
    ASSUME AdsInv, NEW r \in AdRefs, CheckHasPiece(r) \/ FinishIndexing(r)
    PROVE  AdsInv'
<1>1. CASE FinishIndexing(r)
  BY <1>1, RecordIndexedAds DEF FinishIndexing, Live, Writes
<1>2. CASE CheckHasPiece(r) /\ index[PieceOf(r)] # "none"
  BY <1>2, RecordIndexedAds DEF CheckHasPiece, Live
<1>3. CASE CheckHasPiece(r) /\ index[PieceOf(r)] = "none"
  <2>1. PieceOf(r) \notin gc.drop
    BY <1>3 DEF AdsInv, DropOK
  <2>2. index \in [AdPieces -> {"none", "part", "full"}]
    BY DEF AdsInv, AdRowsOK
  <2> QED
    BY <1>3, <2>1, <2>2, IndexingStepAds DEF CheckHasPiece, IndexingAt
<1> QED
  BY <1>1, <1>2, <1>3

AdTask == [at : {"none", "check", "head", "insert", "dropped"}, prev : Nat]

\* A step of the announcing task that leaves the row alone: it goes on only if
\* it was under way or the reference is to be announced.
LEMMA AnnouncingStepAds ==
    ASSUME AdsInv, NEW r \in AdRefs, NEW x \in AdTask, announcing' = [announcing EXCEPT ![r] = x],
           UNCHANGED <<pieceRef, indexing, index, ads, adHead, gc>>,
           x.at # "none" => Signs(r) \/ ToAnnounce(r)
    PROVE  AdsInv'
<1>0. AdRefOK(r)
  BY DEF AdsInv
<1>1. AdRowsOK' /\ announcing'[r] = x /\ \A s \in AdRefs : s # r => announcing'[s] = announcing[s]
  BY DEF AdsInv, AdRowsOK, AdTask
<1>2. /\ (Marked(r)' <=> Marked(r)) /\ (ToAnnounce(r)' <=> ToAnnounce(r)) /\ (Live(r)' <=> Live(r)) /\ PieceOf(r)' = PieceOf(r)
      /\ (Writes(r)' <=> Writes(r)) /\ (Announced(PieceOf(r))' <=> Announced(PieceOf(r)))
  BY DEF Marked, ToAnnounce, Live, PieceOf, Writes, Announced
<1>3. Signs(r)' => Signs(r) \/ ToAnnounce(r)
  BY <1>1 DEF Signs
<1>4. AdRefOK(r)'
  BY <1>0, <1>1, <1>2, <1>3 DEF AdRefOK, Signs, Live
<1>5. Only(r)
  BY <1>1, <1>2 DEF Only
<1>6. ASSUME PieceOf(r) \in gc.drop, Live(r)
      PROVE  Quiet(r)'
  <2>1. Quiet(r)
    BY <1>6 DEF AdsInv, DropOK
  <2> QED
    BY <1>2, <1>3, <2>1 DEF Quiet
<1> QED
  BY <1>1, <1>2, <1>4, <1>5, <1>6, RefStepAds

\* recordCompletion of the announcing task.
LEMMA RecordAnnouncedRow ==
    ASSUME AdRowsOK, NEW r \in AdRefs, RecordAnnounced(r), AnnouncingAt(r, "none")
    PROVE  /\ pieceRef' \in [AdRefs -> RefRow] /\ announcing' \in [AdRefs -> AdTask] /\ announcing'[r].at = "none"
           /\ \A s \in AdRefs : s # r => pieceRef'[s] = pieceRef[s] /\ announcing'[s] = announcing[s]
           /\ Marked(r)' /\ ~ToAnnounce(r)' /\ ~Signs(r)' /\ (Live(r)' <=> Live(r)) /\ PieceOf(r)' = PieceOf(r)
<1>0. pieceRef \in [AdRefs -> RefRow] /\ pieceRef[r] \in RefRow /\ announcing \in [AdRefs -> AdTask]
  BY DEF AdRowsOK, AdTask
<1>1. /\ pieceRef'[r] = [pieceRef[r] EXCEPT !.needsIpni = FALSE, !.advertised = TRUE]
      /\ \A s \in AdRefs : s # r => pieceRef'[s] = pieceRef[s]
  BY <1>0 DEF RecordAnnounced
<1>2. /\ pieceRef'[r].row = pieceRef[r].row /\ pieceRef'[r].piece = pieceRef[r].piece
      /\ pieceRef'[r].needsIpni = FALSE /\ pieceRef'[r].advertised = TRUE
  BY <1>0, <1>1 DEF RefRow
<1>3. pieceRef'[r] \in RefRow
  BY <1>0, <1>1, RefTypes
<1>4. pieceRef' \in [AdRefs -> RefRow]
  BY <1>0, <1>1, <1>3 DEF RecordAnnounced
<1>5. /\ announcing' \in [AdRefs -> AdTask] /\ announcing'[r].at = "none"
      /\ \A s \in AdRefs : s # r => announcing'[s] = announcing[s]
  BY <1>0 DEF AnnouncingAt, AdTask
<1>6. Marked(r)' /\ ~ToAnnounce(r)' /\ ~Signs(r)' /\ (Live(r)' <=> Live(r)) /\ PieceOf(r)' = PieceOf(r)
  BY <1>2, <1>5 DEF Marked, ToAnnounce, Live, PieceOf, Signs
<1> QED
  BY <1>1, <1>4, <1>5, <1>6

LEMMA CheckedAds ==
    ASSUME AdsInv, NEW r \in AdRefs, Live(r), Announced(PieceOf(r)), RecordAnnounced(r), AnnouncingAt(r, "none"),
           UNCHANGED <<indexing, index, ads, adHead, gc>>
    PROVE  AdsInv'
<1>0. AdRefOK(r) /\ AdRowsOK
  BY DEF AdsInv
<1>1. /\ pieceRef' \in [AdRefs -> RefRow] /\ announcing' \in [AdRefs -> AdTask] /\ announcing'[r].at = "none"
      /\ \A s \in AdRefs : s # r => pieceRef'[s] = pieceRef[s] /\ announcing'[s] = announcing[s]
      /\ Marked(r)' /\ ~ToAnnounce(r)' /\ ~Signs(r)' /\ (Live(r)' <=> Live(r)) /\ PieceOf(r)' = PieceOf(r)
  BY <1>0, RecordAnnouncedRow
<1>2. AdRowsOK'
  BY <1>0, <1>1 DEF AdRowsOK, AdTask
<1>3. (Writes(r)' <=> Writes(r)) /\ Announced(PieceOf(r))'
  BY <1>1 DEF Writes, Announced
<1>4. AdRefOK(r)'
  BY <1>0, <1>1, <1>3 DEF AdRefOK, Live
<1>5. Only(r)
  BY <1>1 DEF Only
<1>6. PieceOf(r) \notin gc.drop
  BY DEF AdsInv, DropOK
<1> QED
  BY <1>1, <1>2, <1>4, <1>5, <1>6, RefStepAds

LEMMA AnnouncingAds ==
    ASSUME AdsInv, NEW r \in AdRefs,
           ScheduleIpni(r) \/ CheckAd(r) \/ ReadHead(r) \/ IpniFails(r) \/ IpniLost(r)
               \/ (InsertAd(r) /\ ~HeadIs(announcing[r].prev))
    PROVE  AdsInv'
<1> DEFINE at(l) == [at |-> l, prev |-> 0]
<1>0. \A l \in {"none", "check", "head", "insert", "dropped"} : at(l) \in AdTask /\ at(l).at = l
  BY DEF AdTask
<1>1. CASE CheckAd(r) /\ Announced(PieceOf(r))
  BY <1>1, CheckedAds DEF CheckAd, Live
<1>2. CASE ReadHead(r)
  <2>1. [at |-> "insert", prev |-> adHead] \in AdTask /\ Signs(r)
    BY <1>2 DEF AdsInv, AdRowsOK, AdTask, ReadHead, Signs
  <2> QED
    BY <1>2, <2>1, AnnouncingStepAds DEF ReadHead
<1>3. CASE ScheduleIpni(r)
  <2>1. announcing' = [announcing EXCEPT ![r] = at("check")] /\ UNCHANGED <<pieceRef, indexing, index, ads, adHead, gc>> /\ ToAnnounce(r)
    BY <1>3, Zenon DEF ScheduleIpni, AnnouncingAt, ToAnnounce
  <2> HIDE DEF at
  <2> QED
    BY <1>0, <2>1, AnnouncingStepAds
<1>4. CASE \/ (CheckAd(r) /\ ~Announced(PieceOf(r))) \/ IpniFails(r) \/ IpniLost(r)
           \/ (InsertAd(r) /\ ~HeadIs(announcing[r].prev))
  <2>1. Signs(r) /\ UNCHANGED <<pieceRef, indexing, index, ads, adHead, gc>>
    BY <1>4 DEF CheckAd, IpniFails, IpniLost, InsertAd, Signs
  <2>2. PICK l \in {"none", "check", "head", "dropped"} : announcing' = [announcing EXCEPT ![r] = at(l)]
    BY <1>4 DEF CheckAd, IpniFails, IpniLost, InsertAd, AnnouncingAt
  <2> HIDE DEF at
  <2> QED
    BY <1>0, <2>1, <2>2, AnnouncingStepAds
<1> QED
  BY <1>1, <1>2, <1>3, <1>4

-----------------------------------------------------------------------------
(* Steps that publish or collect.                                          *)

\* An advertisement over the head continues the chain.
LEMMA ChainGrows ==
    ASSUME AdRowsOK, OneAdChain, NEW p \in AdPieces, NEW rm \in BOOLEAN, NEW prev \in Nat, prev = adHead, AppendAd(p, rm, prev)
    PROVE  OneAdChain'
<1>1. /\ Len(ads) \in Nat /\ Len(ads') = Len(ads) + 1 /\ adHead' = Len(ads')
      /\ \A i \in 1 .. Len(ads) : ads'[i] = ads[i]
      /\ ads'[Len(ads')] = [piece |-> p, rm |-> rm, prev |-> prev]
  BY AppendedAd, Zenon
<1>2. ads'[Len(ads')].prev = prev /\ prev = Len(ads)
  BY <1>1 DEF OneAdChain
<1>3. \A i \in 1 .. Len(ads) : ads'[i].prev = i - 1
  BY <1>1 DEF OneAdChain
<1>4. \A i \in 1 .. Len(ads') : ads'[i].prev = i - 1
  BY <1>1, <1>2, <1>3
<1> QED
  BY <1>1, <1>4 DEF OneAdChain

LEMMA InsertAdAds ==
    ASSUME AdsInv, NEW r \in AdRefs, InsertAd(r), HeadIs(announcing[r].prev)
    PROVE  AdsInv'
<1>0. AdRefOK(r) /\ AdRowsOK /\ OneAdChain /\ PieceOf(r) \in AdPieces /\ announcing[r].prev \in Nat
  BY DEF AdsInv, AdRowsOK, RefRow, PieceOf
<1>1. /\ Live(r) /\ Signs(r) /\ AppendAd(PieceOf(r), FALSE, announcing[r].prev) /\ RecordAnnounced(r)
      /\ AnnouncingAt(r, "none") /\ UNCHANGED <<indexing, index, gc>> /\ announcing[r].prev = adHead
  BY DEF InsertAd, HeadIs, Live, Signs
<1>2. /\ pieceRef' \in [AdRefs -> RefRow] /\ announcing' \in [AdRefs -> AdTask] /\ announcing'[r].at = "none"
      /\ \A s \in AdRefs : s # r => pieceRef'[s] = pieceRef[s] /\ announcing'[s] = announcing[s]
      /\ Marked(r)' /\ ~ToAnnounce(r)' /\ ~Signs(r)' /\ (Live(r)' <=> Live(r)) /\ PieceOf(r)' = PieceOf(r)
  BY <1>0, <1>1, RecordAnnouncedRow
<1>3. PICK p \in AdPieces : p = PieceOf(r) /\ p = PieceOf(r)'
  BY <1>0, <1>2
<1>4. PICK v \in Nat : v = announcing[r].prev /\ v = adHead /\ AppendAd(p, FALSE, v)
  BY <1>0, <1>1, <1>3
<1>5. OneAdChain' /\ ads' \in Seq(AdRow) /\ adHead' \in Nat
  <2>1. ads' \in Seq(AdRow) /\ Len(ads) \in Nat /\ Len(ads') = Len(ads) + 1 /\ adHead' = Len(ads')
    BY <1>0, <1>4, AppendedAd, Zenon
  <2>2. OneAdChain'
    BY <1>0, <1>4, ChainGrows, Zenon
  <2> QED
    BY <2>1, <2>2
<1>6. Announced(p)' /\ \A q : q # p => (Announced(q)' <=> Announced(q))
  BY <1>0, <1>4, AnnouncedNext, Zenon
<1>7. AdRowsOK'
  BY <1>0, <1>1, <1>2, <1>5 DEF AdRowsOK, AdTask
<1>8. index[p] # "none" /\ p \notin gc.drop
  <2>1. index[p] # "none"
    BY <1>0, <1>1, <1>3 DEF AdRefOK
  <2>2. p \in gc.drop => Quiet(r)
    BY <1>1, <1>3 DEF AdsInv, DropOK
  <2> QED
    BY <1>1, <2>1, <2>2 DEF Quiet
<1>9. Only(r)
  BY <1>1, <1>2 DEF Only
<1>10. ASSUME NEW s \in AdRefs
       PROVE  AdRefOK(s)'
  <2>1. CASE s = r
    <3>1. Announced(PieceOf(r))' <=> Announced(p)'
      BY <1>3 DEF Announced
    <3>2. PieceOf(r)' = p /\ index' = index
      BY <1>1, <1>3
    <3> QED
      BY <1>1, <1>2, <1>6, <1>8, <2>1, <3>1, <3>2 DEF AdRefOK, Live
  <2>2. CASE s # r
    <3>1. PICK q \in AdPieces : q = PieceOf(s) /\ q = PieceOf(s)'
      BY <1>9, <2>2, OthersKept
    <3>2. (Announced(PieceOf(s))' <=> Announced(q)') /\ (Announced(PieceOf(s)) <=> Announced(q))
      BY <3>1 DEF Announced
    <3>3. Announced(PieceOf(s)) => Announced(PieceOf(s))'
      BY <1>6, <3>2
    <3>4. pieceRef'[s] = pieceRef[s] /\ indexing'[s] = indexing[s] /\ announcing'[s] = announcing[s]
      BY <1>9, <2>2 DEF Only
    <3>5. AdRefOK(s) /\ PieceOf(s)' = PieceOf(s) /\ UNCHANGED index
      BY <1>1, <3>1 DEF AdsInv
    <3> QED
      BY <1>9, <2>2, <3>3, <3>4, <3>5, OthersKept DEF AdRefOK
  <2> QED
    BY <2>1, <2>2
<1>11. ASSUME NEW q \in AdPieces
       PROVE  AnnouncedOK(q)'
  <2>1. CASE q = p
    BY <1>1, <1>2, <1>3, <1>8, <2>1 DEF AnnouncedOK
  <2>2. CASE q # p
    <3>1. SUFFICES ASSUME Announced(q)
                   PROVE  index'[q] # "none" /\ \E s \in AdRefs : PieceOf(s)' = q /\ Live(s)'
      BY <1>6, <2>2 DEF AnnouncedOK
    <3>2. index[q] # "none" /\ \E s \in AdRefs : PieceOf(s) = q /\ Live(s)
      BY <3>1 DEF AdsInv, AnnouncedOK
    <3>3. PICK s \in AdRefs : PieceOf(s) = q /\ Live(s)
      BY <3>2
    <3>4. PieceOf(s)' = q /\ Live(s)'
      BY <1>9, <3>3, OthersKept DEF Only
    <3> QED
      BY <1>1, <3>2, <3>4
  <2> QED
    BY <2>1, <2>2
<1>12. ASSUME NEW q \in gc'.drop
       PROVE  DropOK(q)'
  <2>1. q \in gc.drop /\ q # p /\ DropOK(q)
    BY <1>1, <1>8, <1>12 DEF AdsInv
  <2>2. ~Announced(q)' /\ index'[q] # "none"
    BY <1>1, <1>6, <2>1 DEF DropOK
  <2>3. ASSUME NEW s \in AdRefs, PieceOf(s)' = q, Live(s)'
        PROVE  Quiet(s)'
    BY <1>3, <1>9, <2>1, <2>3, OthersKept DEF DropOK
  <2> QED
    BY <2>2, <2>3 DEF DropOK
<1> QED
  BY <1>5, <1>7, <1>10, <1>11, <1>12 DEF AdsInv

\* The clean-up takes one reference away; the others keep their state.
Apart(r) ==
    \A s \in AdRefs : s # r => pieceRef'[s] = pieceRef[s] /\ indexing'[s] = indexing[s] /\ announcing'[s] = announcing[s]

LEMMA ApartKept ==
    ASSUME AdsInv, NEW r \in AdRefs, Apart(r), NEW s \in AdRefs, s # r
    PROVE  /\ PieceOf(s)' = PieceOf(s) /\ PieceOf(s) \in AdPieces
           /\ (Live(s)' <=> Live(s)) /\ (Marked(s)' <=> Marked(s)) /\ (ToAnnounce(s)' <=> ToAnnounce(s))
           /\ (Writes(s)' <=> Writes(s)) /\ (Signs(s)' <=> Signs(s)) /\ (Quiet(s)' <=> Quiet(s))
<1>1. pieceRef'[s] = pieceRef[s] /\ indexing'[s] = indexing[s] /\ announcing'[s] = announcing[s]
  BY DEF Apart
<1>2. PieceOf(s) \in AdPieces
  BY DEF AdsInv, AdRowsOK, RefRow, PieceOf
<1> QED
  BY <1>1, <1>2, Zenon DEF PieceOf, Live, Marked, ToAnnounce, Writes, Signs, Quiet

\* What a collected reference leaves: its flags are gone with its row.
LEMMA CollectedRow ==
    ASSUME AdsInv, NEW r \in AdRefs, CollectRef(r), Collectable(r)
    PROVE  /\ pieceRef' \in [AdRefs -> RefRow] /\ pieceRef'[r].row = "gone" /\ PieceOf(r)' = PieceOf(r)
           /\ ~Live(r)' /\ ~Marked(r)' /\ ~ToAnnounce(r)' /\ AdRefOK(r)' /\ Apart(r) /\ Live(r)
<1>1. PieceOf(r) \in AdPieces /\ pieceRef \in [AdRefs -> RefRow]
  BY DEF AdsInv, AdRowsOK, RefRow, PieceOf
<1>2. pieceRef' = [pieceRef EXCEPT ![r] = Ref("gone", PieceOf(r))] /\ UNCHANGED <<indexing, announcing>>
  BY DEF CollectRef
<1>3. /\ pieceRef' \in [AdRefs -> RefRow] /\ pieceRef'[r] = Ref("gone", PieceOf(r))
      /\ \A s \in AdRefs : s # r => pieceRef'[s] = pieceRef[s]
  BY <1>1, <1>2, NewRef
<1>4. pieceRef'[r].row = "gone" /\ PieceOf(r)' = PieceOf(r) /\ ~Live(r)' /\ ~Marked(r)' /\ ~ToAnnounce(r)'
  BY <1>1, <1>3, NewRef DEF PieceOf, Live, Marked, ToAnnounce
<1>5. AdRefOK(r)'
  BY <1>4 DEF AdRefOK
<1>6. Apart(r) /\ Live(r)
  BY <1>2, <1>3 DEF Apart, Live, Collectable
<1> QED
  BY <1>3, <1>4, <1>5, <1>6

\* The row of a reference that others share the piece with, or of a piece that
\* nobody announces, goes.
LEMMA CollectQuietly ==
    ASSUME AdsInv, NEW r \in AdRefs, CollectRef(r), Collectable(r), ~(LastOfPiece(r) /\ Announced(PieceOf(r)))
    PROVE  AdsInv'
<1>1. gc' = [gc EXCEPT !.todo = gc.todo \ {r}] /\ gc.drop = {} /\ UNCHANGED <<ads, adHead, indexing, announcing, index>>
  BY DEF CollectRef
<1>2. /\ pieceRef' \in [AdRefs -> RefRow] /\ pieceRef'[r].row = "gone" /\ PieceOf(r)' = PieceOf(r)
      /\ ~Live(r)' /\ ~Marked(r)' /\ ~ToAnnounce(r)' /\ AdRefOK(r)' /\ Apart(r) /\ Live(r)
  BY CollectedRow
<1>3. gc' \in [todo : SUBSET AdRefs, drop : SUBSET AdPieces] /\ gc'.drop = {}
  BY <1>1 DEF AdsInv, AdRowsOK
<1>4. AdRowsOK' /\ OneAdChain'
  BY <1>1, <1>2, <1>3 DEF AdsInv, AdRowsOK, OneAdChain
<1>5. \A q : Announced(q)' <=> Announced(q)
  BY <1>1, AnnouncedKept
<1>6. ASSUME NEW s \in AdRefs
      PROVE  AdRefOK(s)'
  <2>1. CASE s # r
    <3>1. PICK q \in AdPieces : q = PieceOf(s) /\ q = PieceOf(s)'
      BY <1>2, <2>1, ApartKept
    <3>2. (Announced(PieceOf(s))' <=> Announced(q)') /\ (Announced(PieceOf(s)) <=> Announced(q))
      BY <3>1 DEF Announced
    <3>3. pieceRef'[s] = pieceRef[s] /\ indexing'[s] = indexing[s] /\ announcing'[s] = announcing[s]
      BY <1>2, <2>1 DEF Apart
    <3>4. AdRefOK(s) /\ PieceOf(s)' = PieceOf(s) /\ UNCHANGED index
      BY <1>1, <3>1 DEF AdsInv
    <3> QED
      BY <1>2, <1>5, <2>1, <3>2, <3>3, <3>4, ApartKept DEF AdRefOK
  <2> QED
    BY <1>2, <2>1
<1>7. ASSUME NEW q \in AdPieces
      PROVE  AnnouncedOK(q)'
  <2>1. SUFFICES ASSUME Announced(q)
                 PROVE  index'[q] # "none" /\ \E s \in AdRefs : PieceOf(s)' = q /\ Live(s)'
    BY <1>5 DEF AnnouncedOK
  <2>2. index[q] # "none" /\ \E s \in AdRefs : PieceOf(s) = q /\ Live(s)
    BY <2>1 DEF AdsInv, AnnouncedOK
  <2>3. PICK s \in AdRefs : s # r /\ PieceOf(s) = q /\ Live(s)
    <3>1. PICK s \in AdRefs : PieceOf(s) = q /\ Live(s)
      BY <2>2
    <3>2. CASE s = r
      <4>1. ~LastOfPiece(r)
        BY <2>1, <3>1, <3>2
      <4>2. PICK t : ~(t \in RefsOf(q) <=> t \in {r})
        BY <3>1, <3>2, <4>1 DEF LastOfPiece
      <4>3. r \in RefsOf(q)
        BY <3>1, <3>2 DEF RefsOf, Live
      <4> QED
        BY <4>2, <4>3 DEF RefsOf, Live
    <3> QED
      BY <3>1, <3>2
  <2>4. PieceOf(s)' = q /\ Live(s)'
    BY <1>2, <2>3, ApartKept
  <2> QED
    BY <1>1, <2>2, <2>4
<1> QED
  BY <1>3, <1>4, <1>6, <1>7 DEF AdsInv

\* The last reference of an announced piece goes, and a removal is announced
\* over the head.
LEMMA CollectLast ==
    ASSUME AdsInv, NEW r \in AdRefs, CollectRef(r), Collectable(r), LastOfPiece(r), Announced(PieceOf(r))
    PROVE  AdsInv'
<1>1. /\ AppendAd(PieceOf(r), TRUE, adHead) /\ gc' = [todo |-> gc.todo \ {r}, drop |-> {PieceOf(r)}]
      /\ UNCHANGED <<indexing, announcing, index>>
  BY DEF CollectRef
<1>2. /\ pieceRef' \in [AdRefs -> RefRow] /\ pieceRef'[r].row = "gone" /\ PieceOf(r)' = PieceOf(r)
      /\ ~Live(r)' /\ ~Marked(r)' /\ ~ToAnnounce(r)' /\ AdRefOK(r)' /\ Apart(r) /\ Live(r)
  BY CollectedRow
<1>3. PICK p \in AdPieces : p = PieceOf(r) /\ p = PieceOf(r)'
  BY <1>2 DEF AdsInv, AdRowsOK, RefRow, PieceOf
<1>4. PICK v \in Nat : v = adHead /\ AppendAd(p, TRUE, v)
  BY <1>1, <1>3 DEF AdsInv, AdRowsOK
<1>5. AdRowsOK /\ OneAdChain
  BY DEF AdsInv
<1>6. ads' \in Seq(AdRow) /\ adHead' \in Nat /\ OneAdChain'
  <2>1. ads' \in Seq(AdRow) /\ Len(ads) \in Nat /\ Len(ads') = Len(ads) + 1 /\ adHead' = Len(ads')
    BY <1>4, <1>5, AppendedAd, Zenon
  <2>2. OneAdChain'
    BY <1>4, <1>5, ChainGrows, Zenon
  <2> QED
    BY <2>1, <2>2
<1>7. ~Announced(p)' /\ \A q : q # p => (Announced(q)' <=> Announced(q))
  BY <1>4, <1>5, AnnouncedNext, Zenon
<1>8. gc' \in [todo : SUBSET AdRefs, drop : SUBSET AdPieces] /\ gc'.drop = {p}
  BY <1>1, <1>3, <1>5 DEF AdRowsOK
<1>9. AdRowsOK'
  BY <1>1, <1>2, <1>5, <1>6, <1>8 DEF AdRowsOK
<1>10. \A s \in AdRefs : s # r /\ Live(s) => PieceOf(s) # p
  BY <1>3 DEF LastOfPiece, RefsOf, Live
<1>11. ASSUME NEW s \in AdRefs
       PROVE  AdRefOK(s)'
  <2>1. CASE s # r
    <3>1. PICK q \in AdPieces : q = PieceOf(s) /\ q = PieceOf(s)'
      BY <1>2, <2>1, ApartKept
    <3>2. (Announced(PieceOf(s))' <=> Announced(q)') /\ (Announced(PieceOf(s)) <=> Announced(q))
      BY <3>1 DEF Announced
    <3>3. Live(s) => (Announced(PieceOf(s))' <=> Announced(PieceOf(s)))
      BY <1>7, <1>10, <2>1, <3>1, <3>2
    <3>4. pieceRef'[s] = pieceRef[s] /\ indexing'[s] = indexing[s] /\ announcing'[s] = announcing[s]
      BY <1>2, <2>1 DEF Apart
    <3>5. AdRefOK(s) /\ PieceOf(s)' = PieceOf(s) /\ UNCHANGED index
      BY <1>1, <3>1 DEF AdsInv
    <3> QED
      BY <1>2, <2>1, <3>3, <3>4, <3>5, ApartKept DEF AdRefOK
  <2> QED
    BY <1>2, <2>1
<1>12. ASSUME NEW q \in AdPieces
       PROVE  AnnouncedOK(q)'
  <2>1. CASE q = p
    BY <1>7, <2>1 DEF AnnouncedOK
  <2>2. CASE q # p
    <3>1. SUFFICES ASSUME Announced(q)
                   PROVE  index'[q] # "none" /\ \E s \in AdRefs : PieceOf(s)' = q /\ Live(s)'
      BY <1>7, <2>2 DEF AnnouncedOK
    <3>2. index[q] # "none" /\ \E s \in AdRefs : PieceOf(s) = q /\ Live(s)
      BY <3>1 DEF AdsInv, AnnouncedOK
    <3>3. PICK s \in AdRefs : PieceOf(s) = q /\ Live(s)
      BY <3>2
    <3>4. PieceOf(s)' = q /\ Live(s)'
      BY <1>2, <1>3, <2>2, <3>3, ApartKept
    <3> QED
      BY <1>1, <3>2, <3>4
  <2> QED
    BY <2>1, <2>2
<1>13. DropOK(p)'
  <2>1. index'[p] # "none"
    BY <1>1, <1>3 DEF AdsInv, AnnouncedOK
  <2>2. \A s \in AdRefs : ~(PieceOf(s)' = p /\ Live(s)')
    BY <1>2, <1>10, ApartKept
  <2> QED
    BY <1>7, <2>1, <2>2 DEF DropOK
<1> QED
  BY <1>6, <1>8, <1>9, <1>11, <1>12, <1>13 DEF AdsInv

\* Steps of the clean-up that touch neither a reference nor a task.
LEMMA GCStepAds ==
    ASSUME AdsInv, UNCHANGED <<pieceRef, indexing, announcing, ads, adHead>>,
           gc' \in [todo : SUBSET AdRefs, drop : SUBSET AdPieces], gc'.drop = {},
           index' \in [AdPieces -> {"none", "part", "full"}],
           \A p \in AdPieces : p \notin gc.drop => index'[p] = index[p]
    PROVE  AdsInv'
<1>1. AdRowsOK' /\ OneAdChain'
  BY DEF AdsInv, AdRowsOK, OneAdChain
<1>2. \A q : Announced(q)' <=> Announced(q)
  BY AnnouncedKept
<1>3. \A s \in AdRefs : /\ PieceOf(s)' = PieceOf(s) /\ PieceOf(s) \in AdPieces
                        /\ (Live(s)' <=> Live(s)) /\ (Marked(s)' <=> Marked(s)) /\ (ToAnnounce(s)' <=> ToAnnounce(s))
                        /\ (Writes(s)' <=> Writes(s)) /\ (Signs(s)' <=> Signs(s))
  <2>1. \A s \in AdRefs : PieceOf(s) \in AdPieces
    BY DEF AdsInv, AdRowsOK, RefRow, PieceOf
  <2> QED
    BY <2>1, Zenon DEF PieceOf, Live, Marked, ToAnnounce, Writes, Signs
<1>4. ASSUME NEW s \in AdRefs
      PROVE  AdRefOK(s)'
  <2>1. PICK q \in AdPieces : q = PieceOf(s) /\ q = PieceOf(s)'
    BY <1>3
  <2>2. (Announced(PieceOf(s))' <=> Announced(q)') /\ (Announced(PieceOf(s)) <=> Announced(q))
    BY <2>1 DEF Announced
  <2>3. Live(s) /\ (ToAnnounce(s) \/ Writes(s) \/ Signs(s)) => index'[q] = index[q]
    BY <2>1 DEF AdsInv, DropOK, Quiet
  <2>4. AdRefOK(s)
    BY DEF AdsInv
  <2> QED
    BY <1>2, <1>3, <2>1, <2>2, <2>3, <2>4 DEF AdRefOK
<1>5. ASSUME NEW q \in AdPieces
      PROVE  AnnouncedOK(q)'
  <2>1. Announced(q) => index'[q] = index[q]
    BY DEF AdsInv, DropOK
  <2> QED
    BY <1>2, <1>3, <2>1 DEF AdsInv, AnnouncedOK
<1> QED
  BY <1>1, <1>4, <1>5 DEF AdsInv

LEMMA GCAds ==
    ASSUME AdsInv, \/ SelectUnused \/ DropIndex \/ GCFails
                   \/ (\E r \in AdRefs : CollectRef(r) /\ ~Collectable(r))
    PROVE  AdsInv'
<1>1. UNCHANGED <<pieceRef, indexing, announcing, ads, adHead>>
  BY DEF SelectUnused, DropIndex, GCFails, CollectRef
<1>2. gc' \in [todo : SUBSET AdRefs, drop : SUBSET AdPieces] /\ gc'.drop = {}
  <2>1. gc \in [todo : SUBSET AdRefs, drop : SUBSET AdPieces]
    BY DEF AdsInv, AdRowsOK
  <2>2. CASE SelectUnused
    BY <2>2 DEF SelectUnused, NoGC
  <2>3. CASE DropIndex
    BY <2>1, <2>3 DEF DropIndex
  <2>4. CASE GCFails
    BY <2>4 DEF GCFails, NoGC
  <2>5. ASSUME NEW r \in AdRefs, CollectRef(r), ~Collectable(r)
        PROVE  gc' \in [todo : SUBSET AdRefs, drop : SUBSET AdPieces] /\ gc'.drop = {}
    <3>1. gc.drop = {} /\ gc' = [gc EXCEPT !.todo = gc.todo \ {r}]
      BY <2>5 DEF CollectRef
    <3> QED
      BY <2>1, <3>1
  <2> QED
    BY <2>2, <2>3, <2>4, <2>5
<1>3. /\ index' \in [AdPieces -> {"none", "part", "full"}]
      /\ \A p \in AdPieces : p \notin gc.drop => index'[p] = index[p]
  <2>1. index \in [AdPieces -> {"none", "part", "full"}]
    BY DEF AdsInv, AdRowsOK
  <2>2. CASE DropIndex
    BY <2>1, <2>2 DEF DropIndex
  <2>3. CASE ~DropIndex
    <3>1. UNCHANGED index
      BY <2>3 DEF SelectUnused, GCFails, CollectRef
    <3> QED
      BY <2>1, <3>1
  <2> QED
    BY <2>2, <2>3
<1> QED
  BY <1>1, <1>2, <1>3, GCStepAds

LEMMA AdsInvInductive ==
    /\ AdsInit => AdsInv
    /\ AdsInv /\ [AdsNext]_adVars => AdsInv'
<1>1. ASSUME AdsInit
      PROVE  AdsInv
  <2>1. PICK p \in AdPieces : pieceRef = [r \in AdRefs |-> Ref("unused", p)]
    BY <1>1, AdsAssumption DEF AdsInit
  <2>2. \A r \in AdRefs : ~Live(r) /\ ~Marked(r) /\ ~ToAnnounce(r)
    BY <2>1, NewRef DEF Live, Marked, ToAnnounce
  <2>3. AdRowsOK
    BY <1>1, <2>1, NewRef DEF AdsInit, AdRowsOK, NotAnnouncing, NoGC
  <2>4. OneAdChain /\ \A q : ~Announced(q)
    BY <1>1 DEF AdsInit, OneAdChain, Announced
  <2>5. \A r \in AdRefs : indexing[r] = "none" /\ announcing[r].at = "none"
    BY <1>1 DEF AdsInit, NotAnnouncing
  <2>6. gc.drop = {}
    BY <1>1 DEF AdsInit, NoGC
  <2> QED
    BY <2>2, <2>3, <2>4, <2>5, <2>6 DEF AdsInv, AdRefOK, AnnouncedOK
<1>2. ASSUME AdsInv, UNCHANGED adVars
      PROVE  AdsInv'
  <2>1. UNCHANGED <<pieceRef, indexing, announcing, index, ads, adHead, gc>>
    BY <1>2 DEF adVars
  <2>2. AdRowsOK' /\ OneAdChain'
    BY <1>2, <2>1, Zenon DEF AdsInv, AdRowsOK, OneAdChain
  <2>3. \A r \in AdRefs : /\ PieceOf(r)' = PieceOf(r) /\ (Live(r)' <=> Live(r)) /\ (Marked(r)' <=> Marked(r))
                          /\ (ToAnnounce(r)' <=> ToAnnounce(r)) /\ (Writes(r)' <=> Writes(r)) /\ (Signs(r)' <=> Signs(r))
                          /\ (Quiet(r)' <=> Quiet(r)) /\ (Announced(PieceOf(r))' <=> Announced(PieceOf(r)))
    BY <2>1, Zenon DEF Quiet, Live, Marked, ToAnnounce, Writes, Signs, PieceOf, Announced
  <2>4. \A p : Announced(p)' <=> Announced(p)
    BY <2>1, AnnouncedKept
  <2>5. /\ \A r \in AdRefs : AdRefOK(r)'
        /\ \A p \in AdPieces : AnnouncedOK(p)'
        /\ \A p \in gc'.drop : DropOK(p)'
    BY <1>2, <2>1, <2>3, <2>4 DEF AdsInv, AdRefOK, AnnouncedOK, DropOK
  <2> QED
    BY <2>2, <2>5 DEF AdsInv
<1>3. ASSUME AdsInv, AdsNext
      PROVE  AdsInv'
  <2>1. CASE \E r \in AdRefs : CollectRef(r)
    BY <1>3, <2>1, CollectLast, CollectQuietly, GCAds
  <2>2. CASE SelectUnused \/ DropIndex \/ GCFails
    BY <1>3, <2>2, GCAds
  <2>3. CASE \E r \in AdRefs : \/ \E p \in AdPieces : UploadDone(r, p)
                               \/ \E mustIndex \in BOOLEAN : AddToDataSet(r, mustIndex)
                               \/ LeaveDataSet(r)
    BY <1>3, <2>3, UploadDoneAds, DataSetAds
  <2>4. CASE \E r \in AdRefs : \/ ScheduleIndexing(r) \/ CheckHasPiece(r) \/ AddFirst(r) \/ AddRest(r)
                               \/ FinishIndexing(r) \/ IndexingFails(r) \/ IndexingLost(r)
    BY <1>3, <2>4, IndexingAds, IndexedAds
  <2>5. CASE \E r \in AdRefs : ScheduleIpni(r) \/ CheckAd(r) \/ ReadHead(r) \/ InsertAd(r) \/ IpniFails(r) \/ IpniLost(r)
    BY <1>3, <2>5, AnnouncingAds, InsertAdAds
  <2> QED
    BY <1>3, <2>1, <2>2, <2>3, <2>4, <2>5 DEF AdsNext
<1> QED
  BY <1>1, <1>2, <1>3

\* Publishers read the head, sign and insert in steps of their own, next to each
\* other and to the clean-up, and every advertisement continues the chain: what
\* insert_ad_and_update_head_checked checks is enough for any number of them.
THEOREM AdsFormOneChain == AdsSpec => []OneAdChain
<1>1. AdsInv => OneAdChain
  BY DEF AdsInv
<1> QED
  BY <1>1, AdsInvInductive, PTL DEF AdsSpec

\* The advertisements agree with the references however uploads, indexing,
\* publishing and the clean-up interleave: above all, a reference that comes
\* while the clean-up drops the index of its piece is not announced without one.
THEOREM AdsAlwaysMatchRefs == AdsSpec => []AdsMatchRefs
  BY AdsInvSuffices, AdsInvInductive, PTL DEF AdsSpec

\* What AdsTypeOK says beyond AdRowsOK and the chain.
AdsBounds ==
    /\ \A r \in AdRefs : announcing[r].prev <= Len(ads)
    /\ provider \in BOOLEAN
    /\ adFaults \in 0..MaxAdFaults

\* An advertisement is never taken back.
LEMMA AdsGrow ==
    ASSUME AdsInv, AdsNext
    PROVE  Len(ads) \in Nat /\ Len(ads') \in Nat /\ Len(ads) <= Len(ads')
<1>1. ads \in Seq(AdRow)
  BY DEF AdsInv, AdRowsOK
<1>2. ads' = ads \/ \E x \in AdRow : ads' = Append(ads, x)
  <2>1. ads' = ads \/ \E r \in AdRefs : InsertAd(r) \/ CollectRef(r)
    BY DEF AdsNext, UploadDone, AddToDataSet, LeaveDataSet, ScheduleIndexing, CheckHasPiece, AddFirst, AddRest,
       FinishIndexing, IndexingFails, IndexingLost, ScheduleIpni, CheckAd, ReadHead, IpniFails, IpniLost,
       SelectUnused, DropIndex, GCFails
  <2>2. ASSUME NEW r \in AdRefs, InsertAd(r) \/ CollectRef(r), ads' # ads
        PROVE  \E x \in AdRow : ads' = Append(ads, x)
    <3>1. PICK b \in BOOLEAN, v \in {announcing[r].prev, adHead} : AppendAd(PieceOf(r), b, v)
      BY <2>2 DEF InsertAd, CollectRef
    <3>2. PieceOf(r) \in AdPieces /\ v \in Nat
      BY <3>1 DEF AdsInv, AdRowsOK, RefRow, PieceOf
    <3> QED
      BY <3>1, <3>2 DEF AppendAd, AdRow
  <2> QED
    BY <2>1, <2>2
<1> QED
  BY <1>1, <1>2

LEMMA AdsBoundsStep ==
    ASSUME AdsInv, AdsBounds, AdsNext
    PROVE  AdsBounds'
<1>1. Len(ads) \in Nat /\ Len(ads') \in Nat /\ Len(ads) <= Len(ads')
  BY AdsGrow
<1>2. /\ announcing \in [AdRefs -> [at : {"none", "check", "head", "insert", "dropped"}, prev : Nat]]
      /\ adHead = Len(ads)
  BY DEF AdsInv, AdRowsOK, OneAdChain
<1>3. ASSUME NEW s \in AdRefs
      PROVE  announcing'[s].prev <= Len(ads')
  <2>1. announcing[s].prev \in Nat /\ announcing[s].prev <= Len(ads)
    BY <1>2 DEF AdsBounds
  <2>2. announcing' = announcing \/ \E r \in AdRefs : \/ \E at \in {"none", "check", "head", "dropped"} : AnnouncingAt(r, at)
                                                      \/ ReadHead(r)
    BY DEF AdsNext, UploadDone, AddToDataSet, LeaveDataSet, ScheduleIndexing, CheckHasPiece, AddFirst, AddRest,
       FinishIndexing, IndexingFails, IndexingLost, ScheduleIpni, CheckAd, InsertAd, IpniFails, IpniLost,
       SelectUnused, CollectRef, DropIndex, GCFails
  <2>3. ASSUME NEW r \in AdRefs, NEW at \in {"none", "check", "head", "dropped"}, AnnouncingAt(r, at)
        PROVE  announcing'[s].prev \in {0, announcing[s].prev}
    BY <1>2, <2>3 DEF AnnouncingAt
  <2>4. ASSUME NEW r \in AdRefs, ReadHead(r)
        PROVE  announcing'[s].prev \in {adHead, announcing[s].prev}
    BY <1>2, <2>4 DEF ReadHead
  <2>5. announcing'[s].prev \in {0, adHead, announcing[s].prev}
    BY <2>2, <2>3, <2>4
  <2> QED
    BY <1>1, <1>2, <2>1, <2>5
<1>4. provider' \in BOOLEAN
  BY DEF AdsBounds, AdsNext, UploadDone, AddToDataSet, LeaveDataSet, ScheduleIndexing, CheckHasPiece, AddFirst, AddRest,
     FinishIndexing, IndexingFails, IndexingLost, ScheduleIpni, CheckAd, ReadHead, InsertAd, IpniFails, IpniLost,
     SelectUnused, CollectRef, DropIndex, GCFails
<1>5. adFaults' = adFaults \/ AdFault
  BY DEF AdsNext, UploadDone, AddToDataSet, LeaveDataSet, ScheduleIndexing, CheckHasPiece, AddFirst, AddRest,
     FinishIndexing, IndexingFails, IndexingLost, ScheduleIpni, CheckAd, ReadHead, InsertAd, IpniFails, IpniLost,
     SelectUnused, CollectRef, DropIndex, GCFails
<1>6. adFaults' \in 0..MaxAdFaults
  BY <1>5, AdsAssumption DEF AdsBounds, AdFault
<1> QED
  BY <1>3, <1>4, <1>6 DEF AdsBounds

LEMMA AdsTypeSuffices == AdsInv /\ AdsBounds => AdsTypeOK
<1> SUFFICES ASSUME AdsInv, AdsBounds
             PROVE  AdsTypeOK
  OBVIOUS
<1>1. ads \in Seq(AdRow) /\ Len(ads) \in Nat /\ adHead = Len(ads)
  BY DEF AdsInv, AdRowsOK, OneAdChain
<1>2. announcing \in [AdRefs -> [at : {"none", "check", "head", "insert", "dropped"}, prev : 0..Len(ads)]]
  <2>1. announcing \in [AdRefs -> [at : {"none", "check", "head", "insert", "dropped"}, prev : Nat]]
    BY DEF AdsInv, AdRowsOK
  <2>2. ASSUME NEW r \in AdRefs
        PROVE  announcing[r] \in [at : {"none", "check", "head", "insert", "dropped"}, prev : 0..Len(ads)]
    <3>1. announcing[r].prev \in 0..Len(ads)
      BY <1>1, <2>1 DEF AdsBounds
    <3> QED
      BY <2>1, <3>1
  <2> QED
    BY <2>1, <2>2
<1>3. ASSUME NEW i \in 1..Len(ads)
      PROVE  ads[i] \in [piece : AdPieces, rm : BOOLEAN, prev : 0..Len(ads)]
  <2>1. ads[i] \in AdRow
    BY <1>1
  <2>2. ads[i].prev \in 0..Len(ads)
    <3>1. ads[i].prev = i - 1
      BY DEF AdsInv, OneAdChain
    <3> QED
      BY <1>1, <3>1
  <2> QED
    BY <2>1, <2>2 DEF AdRow
<1> QED
  BY <1>1, <1>2, <1>3 DEF AdsTypeOK, AdsInv, AdRowsOK, AdsBounds, RefRow

\* References, tasks and advertisements keep their types, and the head a
\* publisher has read is that of a chain no longer than the present one.
THEOREM AdsTypesHold == AdsSpec => []AdsTypeOK
<1>1. ASSUME AdsInit
      PROVE  AdsBounds
  <2>1. Len(ads) = 0 /\ adFaults \in 0..MaxAdFaults
    <3>1. ads = <<>> /\ adFaults = 0
      BY <1>1 DEF AdsInit
    <3> QED
      BY <3>1, AdsAssumption
  <2>2. \A r \in AdRefs : announcing[r].prev = 0
    BY <1>1 DEF AdsInit, NotAnnouncing
  <2>3. provider \in BOOLEAN
    BY <1>1, Zenon DEF AdsInit
  <2> QED
    BY <2>1, <2>2, <2>3 DEF AdsBounds
<1>2. AdsBounds /\ UNCHANGED adVars => AdsBounds'
  BY DEF AdsBounds, adVars
<1> QED
  BY <1>1, <1>2, AdsInvInductive, AdsBoundsStep, AdsTypeSuffices, PTL DEF AdsSpec

\* One advertisement at a time, signed over the present end of the chain; what
\* is removed was announced.
AdsAppended ==
    \/ UNCHANGED <<ads, adHead>>
    \/ \E p \in AdPieces, rm \in BOOLEAN :
          /\ rm => Announced(p)
          /\ ads' = Append(ads, [piece |-> p, rm |-> rm, prev |-> Len(ads)])
          /\ adHead' = Len(ads')

\* Seen from the indexers, the chain is a log: no step of any publisher or of the
\* clean-up changes, drops or reorders what was published, or publishes over
\* anything but the last advertisement.
THEOREM AdsAreALog == AdsSpec => [][AdsAppended]_adVars
<1>1. ASSUME AdsInv, AdsNext
      PROVE  AdsAppended
  <2>1. ads \in Seq(AdRow) /\ adHead = Len(ads)
    BY <1>1 DEF AdsInv, AdRowsOK, OneAdChain
  <2>2. ASSUME NEW p \in AdPieces, NEW rm \in BOOLEAN, rm => Announced(p), AppendAd(p, rm, adHead)
        PROVE  AdsAppended
    <3>1. ads' = Append(ads, [piece |-> p, rm |-> rm, prev |-> Len(ads)]) /\ adHead' = Len(ads) + 1
      BY <2>1, <2>2 DEF AppendAd
    <3>2. [piece |-> p, rm |-> rm, prev |-> Len(ads)] \in AdRow
      BY <2>1 DEF AdRow
    <3>3. Len(ads') = Len(ads) + 1
      BY <2>1, <3>1, <3>2
    <3> QED
      BY <2>2, <3>1, <3>3 DEF AdsAppended
  <2>3. UNCHANGED <<ads, adHead>> \/ \E r \in AdRefs : InsertAd(r) \/ CollectRef(r)
    BY <1>1 DEF AdsNext, UploadDone, AddToDataSet, LeaveDataSet, ScheduleIndexing, CheckHasPiece, AddFirst, AddRest,
       FinishIndexing, IndexingFails, IndexingLost, ScheduleIpni, CheckAd, ReadHead, IpniFails, IpniLost,
       SelectUnused, DropIndex, GCFails
  <2>4. ASSUME NEW r \in AdRefs, InsertAd(r) \/ CollectRef(r)
        PROVE  AdsAppended
    <3>1. PICK p \in AdPieces : p = PieceOf(r)
      BY <1>1 DEF AdsInv, AdRowsOK, RefRow, PieceOf
    <3>2. \/ UNCHANGED <<ads, adHead>>
          \/ \E rm \in BOOLEAN : (rm => Announced(PieceOf(r))) /\ AppendAd(PieceOf(r), rm, adHead)
      BY <2>4 DEF InsertAd, CollectRef, HeadIs
    <3>3. \/ UNCHANGED <<ads, adHead>>
          \/ \E rm \in BOOLEAN : (rm => Announced(p)) /\ AppendAd(p, rm, adHead)
      BY <3>1, <3>2
    <3> QED
      BY <2>2, <3>3 DEF AdsAppended
  <2> QED
    BY <2>3, <2>4 DEF AdsAppended
<1>2. UNCHANGED adVars => AdsAppended
  BY DEF adVars, AdsAppended
<1> QED
  BY <1>1, <1>2, AdsInvInductive, PTL DEF AdsSpec
=============================================================================
