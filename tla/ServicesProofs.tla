--------------------------- MODULE ServicesProofs ---------------------------
(***************************************************************************)
(* What the components that share no state promise together, for every     *)
(* value of the constants: each behaviour of MCServices is a behaviour of  *)
(* each of its components, so their theorems hold of it.                   *)
(***************************************************************************)
EXTENDS MCServices, ChainProofs, DataSetProofs, PieceProofs, SharedResourceProofs

-----------------------------------------------------------------------------
(* The component whose turn it is takes the step.                          *)

LEMMA SingletonSteps == ServicesNext /\ part = "singleton" => SingletonNext /\ SingletonAlone
  BY DEF ServicesNext, SingletonNext, SingletonRuns, WatchRuns, WinRuns, ParkRuns, ReaderRuns, BatchRuns, DeletionRuns,
     AdsRuns, ProvingRuns

LEMMA WatchSteps == ServicesNext /\ part = "watch" => WatchNext /\ WatchAlone
  BY DEF ServicesNext, WatchNext, SingletonRuns, WatchRuns, WinRuns, ParkRuns, ReaderRuns, BatchRuns, DeletionRuns,
     AdsRuns, ProvingRuns

LEMMA WinSteps == ServicesNext /\ part = "win" => WinNext /\ WinAlone
  BY DEF ServicesNext, WinNext, SingletonRuns, WatchRuns, WinRuns, ParkRuns, ReaderRuns, BatchRuns, DeletionRuns,
     AdsRuns, ProvingRuns

LEMMA ParkSteps == ServicesNext /\ part = "park" => ParkNext /\ ParkAlone
  BY DEF ServicesNext, ParkNext, SingletonRuns, WatchRuns, WinRuns, ParkRuns, ReaderRuns, BatchRuns, DeletionRuns,
     AdsRuns, ProvingRuns

LEMMA ReaderSteps == ServicesNext /\ part = "reader" => ReaderNext /\ ReaderAlone
  BY DEF ServicesNext, ReaderNext, SingletonRuns, WatchRuns, WinRuns, ParkRuns, ReaderRuns, BatchRuns, DeletionRuns,
     AdsRuns, ProvingRuns

LEMMA BatchSteps == ServicesNext /\ part = "batch" => BatchNext /\ BatchAlone
  BY DEF ServicesNext, BatchNext, SingletonRuns, WatchRuns, WinRuns, ParkRuns, ReaderRuns, BatchRuns, DeletionRuns,
     AdsRuns, ProvingRuns

LEMMA DeletionSteps == ServicesNext /\ part = "deletion" => DeletionNext /\ DeletionAlone
  BY DEF ServicesNext, DeletionNext, SingletonRuns, WatchRuns, WinRuns, ParkRuns, ReaderRuns, BatchRuns, DeletionRuns,
     AdsRuns, ProvingRuns

LEMMA AdsSteps == ServicesNext /\ part = "ads" => AdsNext /\ AdsAlone
  BY DEF ServicesNext, AdsNext, SingletonRuns, WatchRuns, WinRuns, ParkRuns, ReaderRuns, BatchRuns, DeletionRuns,
     AdsRuns, ProvingRuns

LEMMA ProvingSteps == ServicesNext /\ part = "proving" => ProvingNext /\ ProvingAlone
  BY DEF ServicesNext, ProvingNext, SingletonRuns, WatchRuns, WinRuns, ParkRuns, ReaderRuns, BatchRuns, DeletionRuns,
     AdsRuns, ProvingRuns

LEMMA OneMoves ==
    ASSUME part \in Parts, ServicesNext
    PROVE  \/ SingletonNext /\ SingletonAlone
           \/ WatchNext /\ WatchAlone
           \/ WinNext /\ WinAlone
           \/ ParkNext /\ ParkAlone
           \/ ReaderNext /\ ReaderAlone
           \/ BatchNext /\ BatchAlone
           \/ DeletionNext /\ DeletionAlone
           \/ AdsNext /\ AdsAlone
           \/ ProvingNext /\ ProvingAlone
  BY SingletonSteps, WatchSteps, WinSteps, ParkSteps, ReaderSteps, BatchSteps, DeletionSteps, AdsSteps, ProvingSteps
     DEF Parts

\* Seen from a component, a step of the composition is its own or none.
LEMMA StepOfEach ==
    ASSUME part \in Parts, [ServicesNext]_servicesVars
    PROVE  /\ part' \in Parts
           /\ [SingletonNext]_singletonVars
           /\ [WatchNext]_watchVars
           /\ [WinNext]_winVars
           /\ [ParkNext]_parkVars
           /\ [ReaderNext]_readerVars
           /\ [BatchNext]_batchVars
           /\ [DeletionNext]_dsVars
           /\ [AdsNext]_adVars
           /\ [ProvingNext]_provingVars
<1>1. CASE UNCHANGED servicesVars
  BY <1>1 DEF servicesVars
<1>2. CASE SingletonNext /\ SingletonAlone
  BY <1>2 DEF SingletonAlone
<1>3. CASE WatchNext /\ WatchAlone
  BY <1>3 DEF WatchAlone
<1>4. CASE WinNext /\ WinAlone
  BY <1>4 DEF WinAlone
<1>5. CASE ParkNext /\ ParkAlone
  BY <1>5 DEF ParkAlone
<1>6. CASE ReaderNext /\ ReaderAlone
  BY <1>6 DEF ReaderAlone
<1>7. CASE BatchNext /\ BatchAlone
  BY <1>7 DEF BatchAlone
<1>8. CASE DeletionNext /\ DeletionAlone
  BY <1>8 DEF DeletionAlone
<1>9. CASE AdsNext /\ AdsAlone
  BY <1>9 DEF AdsAlone
<1>10. CASE ProvingNext /\ ProvingAlone
  BY <1>10 DEF ProvingAlone
<1> QED
  BY <1>1, <1>2, <1>3, <1>4, <1>5, <1>6, <1>7, <1>8, <1>9, <1>10, OneMoves

LEMMA PartStays == ServicesSpec => [](part \in Parts)
<1>1. ServicesInit => part \in Parts
  BY DEF ServicesInit
<1>2. part \in Parts /\ [ServicesNext]_servicesVars => (part \in Parts)'
  BY StepOfEach
<1> QED
  BY <1>1, <1>2, PTL DEF ServicesSpec

\* A behaviour of the composition is one of each component: the choices made
\* for TLC (who goes first, which piece a reference has, where a miner starts
\* again) only leave behaviours out.
THEOREM ServicesAreTheirParts ==
    ServicesSpec => /\ SingletonSpec /\ WatchSpec /\ WinSpec
                    /\ ParkSpec /\ ReaderSpec /\ BatchSpec
                    /\ DeletionSpec /\ AdsSpec /\ ProvingSpec
<1>1. ServicesInit => /\ SingletonInit /\ WatchInit /\ WinInit
                      /\ ParkInit /\ ReaderInit /\ BatchInit
                      /\ DeletionInit /\ AdsInit /\ ProvingInit
  BY DEF ServicesInit
<1> QED
  BY <1>1, PartStays, StepOfEach, PTL
     DEF ServicesSpec, SingletonSpec, WatchSpec, WinSpec, ParkSpec, ReaderSpec, BatchSpec, DeletionSpec, AdsSpec,
         ProvingSpec

\* Each component keeps its types, in the composition, for any number of nodes,
\* messages, pieces, readers, batches, tasks and faults.
THEOREM ServicesTypesHold == ServicesSpec => []ServicesTypeOK
<1>1. /\ part \in Parts /\ SingletonTypeOK /\ WatchTypeOK /\ WinTypeOK /\ ParkTypeOK /\ ReaderTypeOK /\ BatchTypeOK
      /\ DeletionTypeOK /\ AdsTypeOK /\ ProvingTypeOK
      => ServicesTypeOK
  BY DEF ServicesTypeOK
<1> QED
  BY <1>1, PartStays, ServicesAreTheirParts, SingletonTypesHold, WatchersTypesHold, MinersTypesHold, ParkTypesHold,
     ReaderTypesHold, BatchTypesHold, DeletionTypesHold, AdsTypesHold, ProvingTypesHold, PTL

\* The promises of the components, side by side.
ServicesSafe ==
    /\ OneTask
    /\ ReceiptStands
    /\ NoConsensusFault
    /\ RefsSurvive
    /\ OpenWhileNeeded
    /\ LayersIntact
    /\ DeletionIsOrdered
    /\ OneAdChain
    /\ AdsMatchRefs
    /\ AttemptsLeft

\* What the run of the composition checks of singleton tasks, message watchers,
\* winning PoSt, the piece park, cached readers, batches, deletions and
\* announcements, and that a data set is given up in time.
THEOREM ServicesAreSafe == ServicesSpec => []ServicesSafe /\ RowKept
<1>1. /\ OneTask /\ ReceiptStands /\ NoConsensusFault /\ RefsSurvive /\ OpenWhileNeeded /\ LayersIntact
      /\ DeletionIsOrdered /\ OneAdChain /\ AdsMatchRefs /\ AttemptsLeft
      => ServicesSafe
  BY DEF ServicesSafe
<1> QED
  BY <1>1, ServicesAreTheirParts, SingletonsAreSingle, ReceiptsStand, NoFaultIsCommitted, RefsAlwaysSurvive,
     ReadersStayOpen, LayersAreKept, DeletionsAreOrdered, RowsAreKept, AdsFormOneChain, AdsAlwaysMatchRefs,
     SetsAreGivenUpInTime, PTL
=============================================================================
