------------------------------ MODULE ScanCli -------------------------------
(***************************************************************************)
(* The command line of the scanner (scan_cli.py): it runs the full or the  *)
(* quick scanner and turns what that returns into files, outputs for the   *)
(* workflow and an exit code.                                              *)
(***************************************************************************)
EXTENDS QuickScan

VARIABLES
    type,    \* --type: "full" or "quick"
    step,    \* where the command line is
    files,   \* what it has written
    exit     \* its exit code, -1 before the end

cliVars == <<type, step, files, exit>>
allVars == <<scanVars, cliVars>>

RunScanner ==
    /\ step = "scanning"
    /\ IF type = "full" THEN FullScanNext ELSE QuickScanNext
    /\ UNCHANGED cliVars

Stop(code) == step' = "ended" /\ exit' = code

KeepScan == UNCHANGED <<web, at, findings, toCrawl, discovered, crawled, probeList,
                        pathAnswers, active, probed, outcome>>

\* An exception of the scanner: an error summary in the results file, exit code 1.
ScannerRaises ==
    /\ step = "scanning"
    /\ \/ at = "raised" /\ UNCHANGED faults
       \/ at \notin {"raised", "returned"} /\ Fault
    /\ files' = files \cup {"results"}
    /\ Stop(1)
    /\ KeepScan /\ UNCHANGED type

\* A file that cannot be written is an uncaught exception, with exit code 1.
SaveResults ==
    /\ step = "scanning" /\ at = "returned"
    /\ \/ files' = files \cup {"results"} /\ step' = "saved" /\ UNCHANGED <<exit, faults>>
       \/ Fault /\ Stop(1) /\ UNCHANGED files
    /\ KeepScan /\ UNCHANGED type

\* What generate_html raises, on a dataclass in any case, is caught.
GenerateReport ==
    /\ step = "saved"
    /\ \/ outcome.status # "dataclass" /\ files' = files \cup {"report"} /\ UNCHANGED faults
       \/ outcome.status = "dataclass" /\ UNCHANGED <<files, faults>>
       \/ outcome.status # "dataclass" /\ Fault /\ UNCHANGED files
    /\ step' = "reported"
    /\ KeepScan /\ UNCHANGED <<type, exit>>

\* severity_counts of a result; that of a failed scan has none, and counts as 0.
CountsOf(o) == IF o.status = "complete" THEN o.counts ELSE [s \in Severities |-> 0]

\* The summary and the outputs for the workflow, then the exit code; a dataclass has no get,
\* which is an uncaught exception.
Summarise ==
    /\ step = "reported"
    /\ \/ /\ outcome.status # "dataclass"
          /\ files' = files \cup {"summary", "outputs"}
          /\ Stop(IF Severe(CountsOf(outcome)) > 0 THEN 1 ELSE 0)
          /\ UNCHANGED faults
       \/ outcome.status = "dataclass" /\ Stop(1) /\ UNCHANGED <<files, faults>>
       \/ /\ outcome.status # "dataclass"
          /\ Fault /\ Stop(1)
          /\ files' \in {files, files \cup {"summary"}}
    /\ KeepScan /\ UNCHANGED type

CliInit ==
    /\ FullScanInit
    /\ type \in {"full", "quick"}
    /\ step = "scanning"
    /\ files = {}
    /\ exit = -1

Ended == step = "ended" /\ UNCHANGED allVars

CliNext == RunScanner \/ ScannerRaises \/ SaveResults \/ GenerateReport \/ Summarise \/ Ended

CliSpec == CliInit /\ [][CliNext]_allVars

-----------------------------------------------------------------------------
(* Properties *)

\* A severe finding, or categories that make up a chain, in anything that was found.
Alarming(raws) ==
    LET present == {raws[i].category : i \in DOMAIN raws}
        First(i) == \A j \in 1 .. i - 1 : ~ Same(raws[j], raws[i])
    IN \/ \E i \in DOMAIN raws : raws[i].severity >= High /\ First(i)
       \/ \E c \in DOMAIN Chains : Chains[c].required \subseteq present

\* "Exit with error code if critical/high findings found" (scan_cli.py:166): a run that exits
\* with 0 has written its summary, and found nothing severe and no chain of findings that are
\* harmless one by one, unless its first request failed; a run that found such a thing exits
\* with 1, whatever file could not be written.
ExitTellsOfAlarm ==
    step = "ended" =>
        /\ exit = 0 => "summary" \in files /\ (Complete => ~ Alarming(outcome.raws))
        /\ Complete /\ Alarming(outcome.raws) => exit = 1

\* What is left of a phase: pages, answers, URLs with parameters, redirect names.
Left ==
    CASE at = "crawl"     -> MaxUrls - Cardinality(crawled) + Cardinality({i \in DOMAIN pathAnswers : pathAnswers[i] = "awaited"})
      [] at = "paths"     -> Cardinality({i \in DOMAIN pathAnswers : pathAnswers[i] = "awaited"})
      [] at = "probes"    -> Len(probeList) - probed
      [] at = "redirects" -> Len(RedirectNames) - probed
      [] OTHER            -> 0

Position(x, sequence) == CHOOSE i \in DOMAIN sequence : sequence[i] = x

\* How far the command line is from its end: whole phases, then what is left of one.
Distance ==
    LET phases == <<"start", "crawl", "probes", "paths", "cors", "redirects", "returned", "raised">>
        steps  == <<"scanning", "saved", "reported", "ended">>
        most   == MaxUrls + Len(SensitivePaths) + Len(RedirectNames) + 1
    IN most * (12 - Position(at, phases) - Position(step, steps)) + Left

\* The command line ends, whatever links, fails or answers late: every step brings it closer
\* to its end, and, as the run finds no deadlock, there is a step until it is reached.
EveryStepGetsCloser == [][Distance' < Distance]_allVars
=============================================================================
