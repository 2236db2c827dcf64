----------------------------- MODULE PiecePark -----------------------------
(***************************************************************************)
(* The piece park (lib/parkpiece, tasks/piece): rows of parked_pieces are  *)
(* kept alive by rows of parked_piece_refs.  Four tasks work on them next  *)
(* to each other: deals attach and drop references, ParkPiece fetches the  *)
(* data, DropPiece removes a piece nobody refers to, and FixParkPiece      *)
(* merges duplicates and repairs the unique index that should prevent      *)
(* them.                                                                   *)
(*                                                                         *)
(* All rows are of one key (piece_cid, piece_padded_size, long_term).  A   *)
(* transaction that adds or drops a reference writes the piece's ref_count *)
(* and so does not commit next to one that deletes or claims that piece.   *)
(***************************************************************************)
EXTENDS Naturals, FiniteSets

CONSTANTS
    Deals,          \* each holds at most one reference at a time
    MaxPieces,      \* bound: rows of the key that are ever inserted
    MaxParkFaults   \* bound: failed fetches, crashes, failed removals

ASSUME ParkAssumption == {MaxPieces, MaxParkFaults} \subseteq Nat

VARIABLES
    piece,       \* parked_pieces
    file,        \* the pieces that have data in storage
    ref,         \* parked_piece_refs: the piece a deal refers to
    asking,      \* what a deal is doing
    fetching,    \* the ParkPiece task of a piece
    cleaning,    \* the DropPiece task of a piece
    indexed,     \* parked_pieces_active_piece_key is valid
    fixing,      \* the run of FixParkPiece
    parkFaults

parkVars == <<piece, file, ref, asking, fetching, cleaning, indexed, fixing, parkFaults>>

Pieces == 1..MaxPieces

NoPiece == 0

\* claimed: cleanup_task_id is set; tasked: task_id is set.
Unused  == [row |-> "unused", complete |-> FALSE, claimed |-> FALSE, tasked |-> FALSE]
Fresh   == [Unused EXCEPT !.row = "there"]
Deleted == [Unused EXCEPT !.row = "deleted"]

NotFixing == [at |-> "idle", seen |-> {}, winner |-> NoPiece, losers |-> {}]

ParkTypeOK ==
    /\ piece \in [Pieces -> [row : {"unused", "there", "deleted"}, complete : BOOLEAN,
                             claimed : BOOLEAN, tasked : BOOLEAN]]
    /\ file \subseteq Pieces
    /\ ref \in [Deals -> Pieces \cup {NoPiece}]
    /\ asking \in [Deals -> {"nothing", "insert", "holds"}]
    /\ fetching \in [Pieces -> {"none", "queued", "write", "store", "dropped"}]
    /\ cleaning \in [Pieces -> {"none", "queued", "delete", "unclaim", "remove", "dropped"}]
    /\ indexed \in BOOLEAN
    /\ fixing \in [at : {"idle", "choose", "merge", "remove", "index"}, winner : Pieces \cup {NoPiece},
                   seen : SUBSET [id : Pieces, complete : BOOLEAN, active : BOOLEAN], losers : SUBSET Pieces]
    /\ parkFaults \in 0..MaxParkFaults

\* A database from before the index, or with it.
ParkInit ==
    /\ piece = [i \in Pieces |-> Unused]
    /\ file = {}
    /\ ref = [d \in Deals |-> NoPiece]
    /\ asking = [d \in Deals |-> "nothing"]
    /\ fetching = [i \in Pieces |-> "none"]
    /\ cleaning = [i \in Pieces |-> "none"]
    /\ indexed \in BOOLEAN
    /\ fixing = NotFixing
    /\ parkFaults = 0

There  == {i \in Pieces : piece[i].row = "there"}
Active == {i \in There : ~piece[i].claimed}
Refs(i) == {d \in Deals : ref[d] = i}

Unfilled == {i \in Pieces : piece[i].row = "unused"}
NextId == CHOOSE i \in Unfilled : \A j \in Unfilled : i <= j

-----------------------------------------------------------------------------
(* Deals.                                                                  *)

Attach(d, i) ==
    /\ ref' = [ref EXCEPT ![d] = i]
    /\ asking' = [asking EXCEPT ![d] = "holds"]

\* Upsert.  With the index: the active row, or a new one.  Without: the active
\* row, or else an insert of which nothing keeps a second one away.
Upsert(d) ==
    /\ asking[d] = "nothing"
    /\ \/ /\ Active # {}
          /\ Attach(d, CHOOSE i \in Active : \A j \in Active : i <= j)
          /\ UNCHANGED piece
       \/ /\ Active = {}
          /\ indexed
          /\ Unfilled # {}
          /\ piece' = [piece EXCEPT ![NextId] = Fresh]
          /\ Attach(d, NextId)
       \/ /\ Active = {}
          /\ ~indexed
          /\ asking' = [asking EXCEPT ![d] = "insert"]
          /\ UNCHANGED <<piece, ref>>
    /\ UNCHANGED <<file, fetching, cleaning, indexed, fixing, parkFaults>>

\* upsertFallback's INSERT; it fails if the index is there by now.
UpsertFallback(d) ==
    /\ asking[d] = "insert"
    /\ IF indexed /\ Active # {}
       THEN /\ asking' = [asking EXCEPT ![d] = "nothing"]
            /\ UNCHANGED <<piece, ref>>
       ELSE /\ Unfilled # {}
            /\ piece' = [piece EXCEPT ![NextId] = Fresh]
            /\ Attach(d, NextId)
    /\ UNCHANGED <<file, fetching, cleaning, indexed, fixing, parkFaults>>

\* Deals of mk12 and mk20 look for any row of the piece first, also one that
\* DropPiece has claimed.
FindPiece(d, i) ==
    /\ asking[d] = "nothing"
    /\ i \in There
    /\ Attach(d, i)
    /\ UNCHANGED <<piece, file, fetching, cleaning, indexed, fixing, parkFaults>>

\* DropSectorPieceRefs and its like.
DropRef(d) ==
    /\ asking[d] = "holds"
    /\ ref' = [ref EXCEPT ![d] = NoPiece]
    /\ asking' = [asking EXCEPT ![d] = "nothing"]
    /\ UNCHANGED <<piece, file, fetching, cleaning, indexed, fixing, parkFaults>>

-----------------------------------------------------------------------------
(* ParkPiece.                                                              *)

PollPieceTasks(i) ==
    /\ i \in There
    /\ ~piece[i].complete
    /\ ~piece[i].tasked
    /\ piece' = [piece EXCEPT ![i].tasked = TRUE]
    /\ fetching' = [fetching EXCEPT ![i] = "queued"]
    /\ UNCHANGED <<file, ref, asking, cleaning, indexed, fixing, parkFaults>>

\* Do reads the row and a source; without them it fails ten times and the task
\* is dropped, while task_id stays.
StartFetch(i) ==
    /\ fetching[i] = "queued"
    /\ fetching' = [fetching EXCEPT ![i] = IF i \in There /\ Refs(i) # {} THEN "write" ELSE "dropped"]
    /\ UNCHANGED <<piece, file, ref, asking, cleaning, indexed, fixing, parkFaults>>

WritePiece(i) ==
    /\ fetching[i] = "write"
    /\ file' = file \cup {i}
    /\ fetching' = [fetching EXCEPT ![i] = "store"]
    /\ UNCHANGED <<piece, ref, asking, cleaning, indexed, fixing, parkFaults>>

\* The UPDATE after the write; the row may be gone.
StorePiece(i) ==
    /\ fetching[i] = "store"
    /\ piece' = IF i \in There THEN [piece EXCEPT ![i].complete = TRUE, ![i].tasked = FALSE] ELSE piece
    /\ fetching' = [fetching EXCEPT ![i] = "none"]
    /\ UNCHANGED <<file, ref, asking, cleaning, indexed, fixing, parkFaults>>

\* The node crashes, or the last try fails.
FetchFails(i) ==
    /\ fetching[i] \in {"write", "store"}
    /\ parkFaults < MaxParkFaults
    /\ parkFaults' = parkFaults + 1
    /\ \E l \in {"queued", "dropped"} : fetching' = [fetching EXCEPT ![i] = l]
    /\ UNCHANGED <<piece, file, ref, asking, cleaning, indexed, fixing>>

-----------------------------------------------------------------------------
(* DropPiece.                                                              *)

Cleaning(i, l) == cleaning' = [cleaning EXCEPT ![i] = l]

\* schedule: the UPDATE tests again what the SELECT has found.
ScheduleCleanup(i) ==
    /\ i \in Active
    /\ Refs(i) = {}
    /\ piece' = [piece EXCEPT ![i].claimed = TRUE]
    /\ Cleaning(i, "queued")
    /\ UNCHANGED <<file, ref, asking, fetching, indexed, fixing, parkFaults>>

\* CanAccept takes the tasks of pieces that have a file on the node.
StartCleanup(i) ==
    /\ cleaning[i] = "queued"
    /\ i \in There \cap file
    /\ Cleaning(i, "delete")
    /\ UNCHANGED <<piece, file, ref, asking, fetching, indexed, fixing, parkFaults>>

\* Mutant: the piece is deleted with the references it has got meanwhile.
DeleteWithRefs(i) ==
    /\ cleaning[i] = "delete"
    /\ piece' = [piece EXCEPT ![i] = Deleted]
    /\ ref' = [d \in Deals |-> IF ref[d] = i THEN NoPiece ELSE ref[d]]
    /\ Cleaning(i, "remove")
    /\ UNCHANGED <<file, asking, fetching, indexed, fixing, parkFaults>>

\* The DELETE ... WHERE NOT EXISTS.
DeletePiece(i) ==
    /\ cleaning[i] = "delete"
    /\ IF i \in There /\ Refs(i) = {}
       THEN /\ piece' = [piece EXCEPT ![i] = Deleted]
            /\ Cleaning(i, "remove")
       ELSE /\ UNCHANGED piece
            /\ Cleaning(i, "unclaim")
    /\ UNCHANGED <<file, ref, asking, fetching, indexed, fixing, parkFaults>>

\* Mutant: the task is done, and the piece stays claimed.
KeepClaim(i) ==
    /\ cleaning[i] = "unclaim"
    /\ Cleaning(i, "none")
    /\ UNCHANGED <<piece, file, ref, asking, fetching, indexed, fixing, parkFaults>>

\* The piece is in use: cleanup_task_id is cleared.  If another row has become
\* the active one, the index refuses; after ten such tries the task is dropped.
UnclaimPiece(i) ==
    /\ cleaning[i] = "unclaim"
    /\ IF indexed /\ i \in There /\ Active # {}
       THEN /\ \E l \in {"queued", "dropped"} : Cleaning(i, l)
            /\ UNCHANGED piece
       ELSE /\ piece' = [piece EXCEPT ![i].claimed = FALSE]
            /\ Cleaning(i, "none")
    /\ UNCHANGED <<file, ref, asking, fetching, indexed, fixing, parkFaults>>

\* RemovePiece is best effort.
RemovePiece(i) ==
    /\ cleaning[i] = "remove"
    /\ \/ file' = file \ {i} /\ UNCHANGED parkFaults
       \/ parkFaults < MaxParkFaults /\ parkFaults' = parkFaults + 1 /\ UNCHANGED file
    /\ Cleaning(i, "none")
    /\ UNCHANGED <<piece, ref, asking, fetching, indexed, fixing>>

\* A crash; the task is offered again.
CleanupCrashes(i) ==
    /\ cleaning[i] \in {"delete", "unclaim", "remove"}
    /\ parkFaults < MaxParkFaults
    /\ parkFaults' = parkFaults + 1
    /\ Cleaning(i, "queued")
    /\ UNCHANGED <<piece, file, ref, asking, fetching, indexed, fixing>>

-----------------------------------------------------------------------------
(* FixParkPiece.                                                           *)

\* The index is found invalid, and the groups of duplicates are read.
FindDuplicates ==
    /\ fixing = NotFixing
    /\ ~indexed
    /\ fixing' = IF Cardinality(Active) > 1
                 THEN [NotFixing EXCEPT !.at = "choose",
                          !.seen = {[id |-> i, complete |-> piece[i].complete,
                                     active |-> fetching[i] \in {"queued", "write", "store"}] : i \in Active}]
                 ELSE [NotFixing EXCEPT !.at = "index"]
    /\ UNCHANGED <<piece, file, ref, asking, fetching, cleaning, indexed, parkFaults>>

\* A row that was complete and is readable, or else the first one; rows with a
\* running task are left alone.
Winner(seen) ==
    LET idle     == {s \in seen : ~s.active}
        readable == {s \in idle : s.complete /\ s.id \in file}
        before(s, t) == (s.complete /\ ~t.complete) \/ (s.complete = t.complete /\ s.id <= t.id)
        first(S) == (CHOOSE s \in S : \A t \in S : before(s, t)).id
    IN  IF readable # {} THEN first(readable) ELSE IF idle # {} THEN first(idle) ELSE NoPiece

ChooseWinner ==
    LET losers == {s.id : s \in {x \in fixing.seen : ~x.active}} \ {Winner(fixing.seen)} IN
    /\ fixing.at = "choose"
    /\ fixing' = IF losers = {} THEN [NotFixing EXCEPT !.at = "index"]
                 ELSE [NotFixing EXCEPT !.at = "merge", !.winner = Winner(fixing.seen), !.losers = losers]
    /\ UNCHANGED <<piece, file, ref, asking, fetching, cleaning, indexed, parkFaults>>

\* The transaction.  A reference that would go to a row that is no longer there
\* violates the foreign key, and Do fails.
MergeDuplicates ==
    LET moved == {d \in Deals : ref[d] \in fixing.losers} IN
    /\ fixing.at = "merge"
    /\ IF moved # {} /\ fixing.winner \notin There
       THEN /\ fixing' = NotFixing
            /\ UNCHANGED <<piece, ref>>
       ELSE /\ ref' = [d \in Deals |-> IF d \in moved THEN fixing.winner ELSE ref[d]]
            /\ piece' = [i \in Pieces |-> IF i \in fixing.losers THEN Deleted ELSE piece[i]]
            /\ fixing' = [fixing EXCEPT !.at = "remove"]
    /\ UNCHANGED <<file, asking, fetching, cleaning, indexed, parkFaults>>

RemoveLosers ==
    /\ fixing.at = "remove"
    /\ file' = file \ fixing.losers
    /\ fixing' = [NotFixing EXCEPT !.at = "index"]
    /\ UNCHANGED <<piece, ref, asking, fetching, cleaning, indexed, parkFaults>>

\* DROP INDEX and CREATE UNIQUE INDEX; duplicates that were left alone, or that
\* have come since, are for the next pass.
CreateIndex ==
    /\ fixing.at = "index"
    /\ indexed' = (Cardinality(Active) <= 1)
    /\ fixing' = NotFixing
    /\ UNCHANGED <<piece, file, ref, asking, fetching, cleaning, parkFaults>>

\* A crash or an error between the steps.
FixFails ==
    /\ fixing # NotFixing
    /\ parkFaults < MaxParkFaults
    /\ parkFaults' = parkFaults + 1
    /\ fixing' = NotFixing
    /\ UNCHANGED <<piece, file, ref, asking, fetching, cleaning, indexed>>

ParkNext ==
    \/ \E d \in Deals :
          \/ Upsert(d)
          \/ UpsertFallback(d)
          \/ \E i \in Pieces : FindPiece(d, i)
          \/ DropRef(d)
    \/ \E i \in Pieces :
          \/ PollPieceTasks(i)
          \/ StartFetch(i)
          \/ WritePiece(i)
          \/ StorePiece(i)
          \/ FetchFails(i)
          \/ ScheduleCleanup(i)
          \/ StartCleanup(i)
          \/ DeletePiece(i)
          \/ UnclaimPiece(i)
          \/ RemovePiece(i)
          \/ CleanupCrashes(i)
    \/ FindDuplicates
    \/ ChooseWinner
    \/ MergeDuplicates
    \/ RemoveLosers
    \/ CreateIndex
    \/ FixFails

ParkSpec == ParkInit /\ [][ParkNext]_parkVars

-----------------------------------------------------------------------------
(* Properties.                                                             *)

\* "a race between candidate selection and deletion cannot drop a piece that
\* just gained a new ref": a deal keeps its reference until it drops it, though
\* parked_piece_refs is emptied along with parked_pieces (ON DELETE CASCADE),
\* and whichever of DropPiece and FixParkPiece deletes the row.  And what is
\* complete can be read: the data of a row is not removed before the row is, by
\* whichever task.
RefsSurvive ==
    /\ \A d \in Deals : asking[d] = "holds" => ref[d] \in There
    /\ \A i \in There : piece[i].complete => i \in file

\* A piece with data that nobody refers to goes in the end, also if it was in
\* use again while it was being dropped; except one whose clean-up task has been
\* dropped because the piece was claimed, taken into use and replaced.
UnusedPieceGoes ==
    \A i \in Pieces : []<>(i \notin There \cap file \/ Refs(i) # {} \/ cleaning[i] = "dropped")
=============================================================================
