----------------------------- MODULE PackReport -----------------------------
(***************************************************************************)
(* The report of an inspection on its way from the validator to the page:  *)
(* the findings are collected up to a number, rendered up to a size,       *)
(* judged with the exit code by the sidecar, checked again by the service  *)
(* and answered.                                                           *)
(*                                                                         *)
(* A diagnostic is the bytes it takes in a report.  Which diagnostics are  *)
(* found, and in which order, is free.                                     *)
(***************************************************************************)
EXTENDS Naturals, Sequences, SequencesExt

CONSTANTS
    Collected,   \* MAX_DIAGNOSTICS, and the codes the service lets through
    MaxBytes,    \* MAX_REPORT_BYTES, what a report takes beside its diagnostics taken off
    Sizes,       \* bytes a diagnostic may take
    MaxFound,    \* bound on the errors found
    MaxWarnings  \* warnings the validator has

\* What the constants are; the modules that instantiate this one assume it.
PackReportConstants ==
    /\ Collected \in Nat \ {0} /\ MaxBytes \in Nat /\ MaxFound \in Nat /\ MaxWarnings \in Nat
    /\ Sizes \subseteq 1..MaxBytes

VARIABLES
    stage,       \* "inspect", "render", "printed", "parsed", "answered"
    found,       \* diagnostics found so far, of each kind
    stopped,     \* a limit of the archive ended the inspection early
    errors, warnings, omitted, truncated,   \* the collector, then the report
    valid,       \* the verdict in the report
    exit,        \* exit code of the validator
    honest,      \* the validator printed what it found
    answer       \* "none", "report", "inspection_unavailable"

vars == <<stage, found, stopped, errors, warnings, omitted, truncated, valid, exit, honest, answer>>

TypeOK ==
    /\ stage \in {"inspect", "render", "printed", "parsed", "answered"}
    /\ found["error"] \in 0..MaxFound /\ found["warning"] \in 0..MaxWarnings /\ stopped \in BOOLEAN
    /\ Range(errors) \cup Range(warnings) \subseteq Sizes
    /\ Len(errors) <= Collected /\ Len(warnings) <= Collected
    /\ omitted \in 0..(MaxFound + MaxWarnings + 1) /\ truncated \in BOOLEAN
    /\ valid \in BOOLEAN /\ exit \in {0, 1, 2} /\ honest \in BOOLEAN
    /\ answer \in {"none", "report", "inspection_unavailable"}

Init ==
    /\ stage = "inspect" /\ found = [k \in {"error", "warning"} |-> 0] /\ stopped = FALSE
    /\ errors = <<>> /\ warnings = <<>> /\ omitted = 0 /\ truncated = FALSE
    /\ valid = FALSE /\ exit = 0 /\ honest = TRUE /\ answer = "none"

-----------------------------------------------------------------------------
(* The validator.                                                          *)

Omit == omitted' = omitted + 1 /\ truncated' = TRUE

(* DiagnosticCollector.error and its twin for warnings.                    *)
CollectError(size) ==
    /\ found' = [found EXCEPT !["error"] = @ + 1]
    /\ IF Len(errors) >= Collected
       THEN Omit /\ UNCHANGED errors
       ELSE errors' = Append(errors, size) /\ UNCHANGED <<omitted, truncated>>

CollectWarning(size) ==
    /\ found' = [found EXCEPT !["warning"] = @ + 1]
    /\ IF Len(warnings) >= Collected
       THEN Omit /\ UNCHANGED warnings
       ELSE warnings' = Append(warnings, size) /\ UNCHANGED <<omitted, truncated>>

(* A rule of the format is broken.                                         *)
FindError(size) ==
    /\ stage = "inspect" /\ found["error"] < MaxFound
    /\ CollectError(size)
    /\ UNCHANGED <<stage, stopped, warnings, valid, exit, honest, answer>>

(* The manifest is questionable.                                           *)
FindWarning(size) ==
    /\ stage = "inspect" /\ found["warning"] < MaxWarnings
    /\ CollectWarning(size)
    /\ UNCHANGED <<stage, stopped, errors, valid, exit, honest, answer>>

(* An archive that cannot be read is one error and nothing else is looked  *)
(* at; with too many members the rest counts as one omitted diagnostic.    *)
StopEarly(size, tooMany) ==
    /\ stage = "inspect" /\ found["error"] = 0 /\ found["warning"] = 0
    /\ errors' = <<size>> /\ found' = [found EXCEPT !["error"] = 1]
    /\ stopped' = tooMany /\ truncated' = tooMany /\ omitted' = IF tooMany THEN 1 ELSE 0
    /\ stage' = "render" /\ valid' = FALSE
    /\ UNCHANGED <<warnings, exit, honest, answer>>

(* The end of inspect_pack: no error makes the pack valid and loadable.    *)
Judge ==
    /\ stage = "inspect" /\ stage' = "render"
    /\ valid' = (errors = <<>>)
    /\ UNCHANGED <<found, stopped, errors, warnings, omitted, truncated, exit, honest, answer>>

Bytes == FoldSeq(LAMBDA size, sum : size + sum, 0, errors \o warnings)

(* render_json: a report too large loses its last warning, or its last     *)
(* error when no warning is left.                                          *)
Shorten ==
    /\ stage = "render" /\ Bytes > MaxBytes /\ Omit
    /\ IF warnings # <<>>
       THEN warnings' = Front(warnings) /\ UNCHANGED errors
       ELSE errors' = Front(errors) /\ UNCHANGED warnings
    /\ UNCHANGED <<stage, found, stopped, valid, exit, honest, answer>>

(* main: the report is printed and the exit code tells the verdict.        *)
WriteReport ==
    /\ stage = "render" /\ Bytes <= MaxBytes
    /\ stage' = "printed" /\ exit' = IF valid THEN 0 ELSE 1
    /\ UNCHANGED <<found, stopped, errors, warnings, omitted, truncated, valid, honest, answer>>

(* The process behaves otherwise: it stops with an exit code that is not   *)
(* its verdict's, or prints another verdict.                               *)
Misbehave ==
    /\ stage = "printed" /\ honest /\ honest' = FALSE
    /\ \/ exit' \in {0, 1, 2} \ {exit} /\ UNCHANGED valid
       \/ valid' = ~valid /\ UNCHANGED exit
    /\ UNCHANGED <<stage, found, stopped, errors, warnings, omitted, truncated, answer>>

-----------------------------------------------------------------------------
(* The server.                                                             *)

Finish(result) == stage' = "answered" /\ answer' = result

(* parseReport of the sidecar: verdict and exit code must agree, and a     *)
(* valid report must show no error.                                        *)
Parse ==
    /\ stage = "printed"
    /\ IF (exit = 0 /\ valid /\ errors = <<>>) \/ (exit = 1 /\ ~valid)
       THEN stage' = "parsed" /\ UNCHANGED answer
       ELSE Finish("inspection_unavailable")
    /\ UNCHANGED <<found, stopped, errors, warnings, omitted, truncated, valid, exit, honest>>

(* sanitizeReport and the route: all codes together must be within the     *)
(* limit, or the page is told that the inspection is unavailable.          *)
Sanitize ==
    /\ stage = "parsed"
    /\ Finish(IF Len(errors) + Len(warnings) <= Collected THEN "report"
              ELSE "inspection_unavailable")
    /\ UNCHANGED <<found, stopped, errors, warnings, omitted, truncated, valid, exit, honest>>

Done == stage = "answered" /\ UNCHANGED vars

Next ==
    \/ \E s \in Sizes : FindError(s) \/ FindWarning(s) \/ \E b \in BOOLEAN : StopEarly(s, b)
    \/ Judge \/ Shorten \/ WriteReport \/ Misbehave \/ Parse \/ Sanitize \/ Done

Spec == Init /\ [][Next]_vars

-----------------------------------------------------------------------------
Answered == answer = "report"

(* The count of omitted diagnostics is exact through both limits: what is  *)
(* shown and what is omitted is what was found, and a flag says so.        *)
CountsExact ==
    stage # "inspect" =>
        /\ Len(errors) + Len(warnings) + omitted
             = found["error"] + found["warning"] + (IF stopped THEN 1 ELSE 0)
        /\ truncated <=> omitted > 0

(* However long the list and wherever it is cut, a pack with an error is   *)
(* answered as invalid, with an error to show for it; and one without is   *)
(* answered as valid.  A process that misbehaves can at most turn an       *)
(* answer into none, unless it contradicts verdict and exit code alike.    *)
VerdictTold ==
    Answered => /\ valid <=> found["error"] = 0
                /\ ~valid => errors # <<>>

(* A validator that worked is believed: its report is answered unless it   *)
(* shows more codes than the service lets through.                         *)
WorkIsAnswered ==
    answer = "inspection_unavailable" /\ honest => Len(errors) + Len(warnings) > Collected

(* docs/PERSONA-VALIDATOR.md: "At most 64 collected diagnostics".  The     *)
(* collector limits errors and warnings separately.                        *)
DiagnosticsBounded == Len(errors) + Len(warnings) <= Collected

=============================================================================
