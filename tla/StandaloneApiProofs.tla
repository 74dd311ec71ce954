------------------------- MODULE StandaloneApiProofs -------------------------
(***************************************************************************)
(* The invariants of StandaloneApi for any number of requests and of ends  *)
(* of the process.                                                         *)
(***************************************************************************)
EXTENDS StandaloneApi, FiniteSetTheorems, TLAPS

InProgress(r) == run[r].at \in {"sending", "scanning"}

RunStates ==
    [at : {"none", "ended"}] \cup [at : {"sending", "scanning"}, type : ScanTypes]

StandaloneTypes ==
    /\ server \in {"up", "down", "broken"}
    /\ crashes \in Nat
    /\ run \in [Runs -> RunStates]
    /\ raced \in BOOLEAN

\* A process that is not running has no task and shows nothing as running or complete,
\* and is not running because it has ended before.
DownIsQuiet ==
    server # "up" =>
        /\ crashes > 0
        /\ status = "idle"
        /\ \A r \in Runs : ~ InProgress(r)

\* Without the race a request whose response is being sent excludes every other, too: the
\* part OneScanUnlessRaced does not mention.
OneInProgress ==
    ~ raced =>
        /\ \A q, r \in Runs : InProgress(q) /\ InProgress(r) => q = r
        /\ \A r \in Runs : run[r].at = "scanning" => status = "running"
        /\ status = "running" => \E r \in Runs : run[r].at = "scanning"

StandaloneInv ==
    StandaloneTypes /\ DownIsQuiet /\ OneInProgress /\ CompleteMatchesFiles

-----------------------------------------------------------------------------

\* What the actions take from Scanning, Sending and Scans.
LEMMA RunFacts ==
    ASSUME StandaloneTypes, NEW r \in Runs
    PROVE  /\ run[r] \in RunStates
           /\ r \in Scanning <=> run[r].at = "scanning"
           /\ r \in Sending <=> run[r].at = "sending"
           /\ \A type \in ScanTypes : Scans(r, type) => run[r].at = "scanning"
BY DEF StandaloneTypes, Scanning, Sending, Scans

LEMMA StandaloneInitInv ==
    ASSUME StandaloneAssumption, StandaloneInit
    PROVE  StandaloneInv
BY DEF StandaloneInit, StandaloneInv, StandaloneTypes, DownIsQuiet, OneInProgress,
       CompleteMatchesFiles, InProgress, RunStates

\* A task that ends leaves none in progress, unless requests raced.
LEMMA EndKeepsOne ==
    ASSUME StandaloneInv, NEW r \in Runs, run[r].at = "scanning", End(r),
           status' \in {"complete", "failed"}, UNCHANGED <<server, crashes, raced>>
    PROVE  StandaloneTypes' /\ DownIsQuiet' /\ OneInProgress'
<1>1. server = "up"
  BY DEF StandaloneInv, DownIsQuiet, InProgress
<1>2. StandaloneTypes'
  BY DEF StandaloneInv, StandaloneTypes, End, RunStates
<1>3. DownIsQuiet'
  BY <1>1 DEF DownIsQuiet
<1>4. OneInProgress'
  <2>1. \A q \in Runs : InProgress(q)' => q # r /\ InProgress(q)
    BY DEF End, InProgress, StandaloneInv, StandaloneTypes
  <2>2. InProgress(r)
    BY DEF InProgress
  <2>3. ~ raced => \A q \in Runs : ~ InProgress(q)'
    BY <2>1, <2>2 DEF StandaloneInv, OneInProgress
  <2> QED
    BY <2>3 DEF OneInProgress, InProgress
<1> QED
  BY <1>2, <1>3, <1>4

LEMMA StandaloneStep == StandaloneInv /\ [StandaloneNext]_standaloneVars => StandaloneInv'
<1> SUFFICES ASSUME StandaloneInv, [StandaloneNext]_standaloneVars
             PROVE  StandaloneInv'
  OBVIOUS
<1> USE DEF StandaloneInv
<1>1. ASSUME NEW r \in Runs, NEW type \in ScanTypes, StartScan(r, type)
      PROVE  StandaloneInv'
  <2>1. StandaloneTypes'
    BY <1>1 DEF StartScan, StandaloneTypes, RunStates
  <2>2. DownIsQuiet' /\ CompleteMatchesFiles'
    BY <1>1 DEF StartScan, DownIsQuiet, CompleteMatchesFiles
  <2>3. OneInProgress'
    <3>1. SUFFICES ASSUME ~ raced'
                   PROVE  OneInProgress'
      BY DEF OneInProgress
    <3>2. ~ raced /\ Sending = {}
      BY <1>1, <3>1 DEF StartScan
    <3>3. \A q \in Runs : ~ InProgress(q)
      BY <1>1, <3>2, RunFacts DEF StartScan, OneInProgress, InProgress
    <3>4. \A q \in Runs : q # r => run'[q] = run[q]
      BY <1>1 DEF StartScan, StandaloneTypes
    <3>5. run'[r].at = "sending"
      BY <1>1 DEF StartScan, StandaloneTypes
    <3> QED
      BY <1>1, <3>2, <3>3, <3>4, <3>5 DEF StartScan, OneInProgress, InProgress
  <2> QED
    BY <2>1, <2>2, <2>3
<1>2. ASSUME NEW r \in Runs, Begin(r)
      PROVE  StandaloneInv'
  <2>1. run[r] \in [at : {"sending"}, type : ScanTypes]
    BY <1>2 DEF Begin, StandaloneTypes, RunStates
  <2> DEFINE begun == [run[r] EXCEPT !.at = "scanning"]
  <2>2. begun \in [at : {"scanning"}, type : ScanTypes] /\ run' = [run EXCEPT ![r] = begun]
    <3>1. begun \in [at : {"scanning"}, type : ScanTypes]
      BY <2>1
    <3> QED
      BY <1>2, <3>1 DEF Begin
  <2> HIDE DEF begun
  <2>3. StandaloneTypes'
    BY <1>2, <2>2 DEF Begin, StandaloneTypes, RunStates
  <2>4. DownIsQuiet' /\ CompleteMatchesFiles'
    BY <1>2 DEF Begin, DownIsQuiet, CompleteMatchesFiles, InProgress
  <2>5. \A q \in Runs : InProgress(q)' <=> InProgress(q)
    BY <1>2, <2>2 DEF Begin, InProgress, StandaloneTypes
  <2>6. run'[r].at = "scanning" /\ status' = "running"
    BY <1>2, <2>2 DEF Begin, StandaloneTypes
  <2>7. OneInProgress'
    BY <1>2, <2>5, <2>6 DEF OneInProgress, Begin
  <2> QED
    BY <2>3, <2>4, <2>7
<1>3. ASSUME NEW r \in Runs, NEW form \in {"report", "failed"}, Complete(r, form)
      PROVE  StandaloneInv'
  <2>1. run[r].at = "scanning"
    BY <1>3 DEF Complete, Scans
  <2> QED
    BY <1>3, <2>1, EndKeepsOne DEF Complete, CompleteMatchesFiles
<1>4. ASSUME NEW r \in Runs, NEW form \in {"report", "failed"}, ReportFails(r, form)
      PROVE  StandaloneInv'
  <2>1. run[r].at = "scanning"
    BY <1>4 DEF ReportFails, Scans
  <2> QED
    BY <1>4, <2>1, EndKeepsOne DEF ReportFails, CompleteMatchesFiles
<1>5. ASSUME NEW r \in Runs, QuickScanReturns(r)
      PROVE  StandaloneInv'
  <2>1. run[r].at = "scanning"
    BY <1>5 DEF QuickScanReturns, Scans
  <2> QED
    BY <1>5, <2>1, EndKeepsOne DEF QuickScanReturns, CompleteMatchesFiles
<1>6. ASSUME NEW r \in Runs, SaveFails(r) \/ ScannerRaises(r)
      PROVE  StandaloneInv'
  <2>1. run[r].at = "scanning"
    BY <1>6 DEF SaveFails, ScannerRaises, Scanning
  <2> QED
    BY <1>6, <2>1, EndKeepsOne DEF SaveFails, ScannerRaises, CompleteMatchesFiles
<1>7. CASE ProcessEnds
  <2>1. \A r \in Runs : run'[r] \in [at : {"none", "ended"}]
    BY <1>7 DEF ProcessEnds, StandaloneTypes, RunStates
  <2>2. StandaloneTypes'
    BY <1>7, <2>1 DEF ProcessEnds, StandaloneTypes, RunStates
  <2>3. \A r \in Runs : ~ InProgress(r)' /\ run'[r].at # "scanning"
    BY <2>1 DEF InProgress
  <2> QED
    BY <1>7, <2>2, <2>3
    DEF ProcessEnds, StandaloneTypes, DownIsQuiet, OneInProgress, CompleteMatchesFiles
<1>8. CASE Start
  <2>1. StandaloneTypes'
    BY <1>8 DEF Start, StandaloneTypes
  <2>2. \A r \in Runs : ~ InProgress(r)' /\ run'[r].at # "scanning"
    BY <1>8 DEF Start, DownIsQuiet, InProgress
  <2>3. status' # "running"
    BY <1>8 DEF Start, DownIsQuiet
  <2>4. DownIsQuiet' /\ OneInProgress'
    BY <1>8, <2>2, <2>3 DEF Start, DownIsQuiet, OneInProgress
  <2>5. CompleteMatchesFiles'
    BY <1>8 DEF Start, DownIsQuiet, CompleteMatchesFiles, StandaloneTypes
  <2> QED
    BY <2>1, <2>4, <2>5
<1>9. CASE UNCHANGED standaloneVars
  BY <1>9 DEF standaloneVars, StandaloneTypes, DownIsQuiet, OneInProgress, InProgress,
              CompleteMatchesFiles
<1> QED
  BY <1>1, <1>2, <1>3, <1>4, <1>5, <1>6, <1>7, <1>8, <1>9 DEF StandaloneNext

\* The strengthened invariant holds of every behaviour.
THEOREM StandaloneInvariant == StandaloneSpec => []StandaloneInv
<1>1. StandaloneInit => StandaloneInv
  BY StandaloneInitInv, StandaloneAssumption
<1> QED
  BY <1>1, StandaloneStep, PTL DEF StandaloneSpec

-----------------------------------------------------------------------------

\* What the API shows as complete is what a restart would load, for any number of
\* overlapping scans and of ends of the process (run_scan_task of run_api.py).
THEOREM ShownIsStored == StandaloneSpec => []CompleteMatchesFiles
<1>1. StandaloneInv => CompleteMatchesFiles
  BY DEF StandaloneInv
<1> QED
  BY <1>1, StandaloneInvariant, PTL

\* Scans do not overlap, and one in progress is shown as running, unless requests raced
\* between the check of start_scan and the assignment it relies on.
THEOREM ScansDoNotOverlap == StandaloneSpec => []OneScanUnlessRaced
<1>1. ASSUME StandaloneInv
      PROVE  OneScanUnlessRaced
  <2>1. SUFFICES ASSUME ~ raced
                 PROVE  Cardinality(Scanning) <= 1 /\ (Scanning # {} <=> status = "running")
    BY DEF OneScanUnlessRaced
  <2>2. \A q, r \in Scanning : q = r
    BY <1>1, <2>1 DEF StandaloneInv, OneInProgress, InProgress, Scanning
  <2>3. Cardinality(Scanning) <= 1
    <3>1. CASE Scanning = {}
      BY <3>1, FS_EmptySet
    <3>2. CASE Scanning # {}
      <4>1. PICK r : Scanning = {r}
        BY <3>2, <2>2
      <4>2. Cardinality({r}) = 1
        BY FS_Singleton
      <4> QED
        BY <4>1, <4>2
    <3> QED
      BY <3>1, <3>2
  <2>4. Scanning # {} <=> status = "running"
    BY <1>1, <2>1 DEF StandaloneInv, OneInProgress, Scanning
  <2> QED
    BY <2>3, <2>4
<1> QED
  BY <1>1, StandaloneInvariant, PTL
=============================================================================
