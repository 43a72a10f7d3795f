------------------------------ MODULE PatchText ------------------------------
(***************************************************************************)
(* A patch plan and the text it changes: the text operations of            *)
(* repository/patch-operations.ts, the checks that patch-validator.ts      *)
(* makes of them beforehand, and the loop of patch-applier.ts that writes  *)
(* the file after every operation.                                         *)
(*                                                                         *)
(* A text is a sequence of tokens, one of them the end of a line.  Every   *)
(* operation of a plan is on the same file, the case in which one changes  *)
(* what the next one was checked against.  The policies on paths and sizes *)
(* are left out.                                                           *)
(***************************************************************************)
EXTENDS Naturals, Sequences, SequencesExt, FiniteSets

CONSTANTS
    TxFile,   \* contents of the file, NoFile for none
    TxPlan    \* plans: sequences of operations

VARIABLES
    txPc,      \* "idle", "validating", "applying", "applied", "failed", "threw"
    txFile, txPlan,
    txHash,    \* the hash that the operations expect: "none", "match", "stale"
    txBefore,  \* history: the file that was validated
    txDone     \* operations written

txVars == <<txPc, txFile, txPlan, txHash, txBefore, txDone>>

NoFile == <<"absent">>

TxInit ==
    /\ txPc = "idle" /\ txFile = NoFile /\ txPlan = <<>> /\ txHash = "none"
    /\ txBefore = NoFile /\ txDone = 0

\* RepositoryPatchOperation: 0 and "none" stand for what is not given.
Operation(kind, anchor, end, from, to, content) ==
    [kind |-> kind, anchor |-> anchor, end |-> end, from |-> from, to |-> to, content |-> content]

-----------------------------------------------------------------------------
(* Text operations.  Thrown is an exception.                                 *)

Thrown == <<"threw">>
Places(text, token) == {i \in DOMAIN text : text[i] = token}
Unique(text, token) == Cardinality(Places(text, token)) = 1
Place(text, token) == CHOOSE i \in Places(text, token) : TRUE

\* The tokens up to i, the content, and those from j on.
Splice(text, i, content, j) == SubSeq(text, 1, i) \o content \o SubSeq(text, j, Len(text))

insertByAnchor(text, op) ==
    LET after == op.kind = "insert_after"
    IN  IF op.anchor = "none" THEN IF after THEN text \o op.content ELSE op.content \o text
        ELSE IF ~Unique(text, op.anchor) THEN Thrown
        ELSE LET i == Place(text, op.anchor) - (IF after THEN 0 ELSE 1)
             IN  Splice(text, i, op.content, i + 1)

replaceByAnchors(text, op) ==
    IF ~Unique(text, op.anchor) \/ ~Unique(text, op.end) THEN Thrown
    ELSE IF Place(text, op.end) <= Place(text, op.anchor) THEN Thrown
    ELSE Splice(text, Place(text, op.anchor) - 1, op.content, Place(text, op.end) + 1)

lineEnds(text) == Places(text, "nl")
lineCount(text) == Cardinality(lineEnds(text)) + 1

\* The position before the first token of a line, the one after its last.
lineStart(text, n) == IF n = 1 THEN 0
                      ELSE CHOOSE i \in lineEnds(text) : Cardinality({j \in lineEnds(text) : j < i}) = n - 2
lineStop(text, n) == IF n >= lineCount(text) THEN Len(text) + 1 ELSE lineStart(text, n + 1)

\* content.replace(/\n$/, "")
withoutLastEnd(content) ==
    IF content # <<>> /\ Last(content) = "nl" THEN Front(content) ELSE content

\* A range that begins after the last line is put behind it, as splice does.
replaceRange(text, op) ==
    IF op.from = 0 \/ op.to < op.from THEN Thrown
    ELSE IF op.from > lineCount(text) THEN text \o <<"nl">> \o withoutLastEnd(op.content)
    ELSE Splice(text, lineStart(text, op.from), withoutLastEnd(op.content), lineStop(text, op.to))

applyPatchOperation(file, op) ==
    LET text == IF file = NoFile THEN <<>> ELSE file
    IN  CASE op.kind \in {"create_file", "full_replacement"} -> op.content
          [] op.kind \in {"insert_after", "insert_before"} -> insertByAnchor(text, op)
          [] op.kind = "replace_range" /\ op.anchor # "none" -> replaceByAnchors(text, op)
          [] op.kind = "replace_range" /\ op.anchor = "none" -> replaceRange(text, op)
          [] OTHER -> Thrown

-----------------------------------------------------------------------------
(* Validation.                                                              *)

\* Mutant: an anchor only has to be there.
anchorFound(text, token) == Places(text, token) # {}

validateUniqueAnchor(text, token) == Unique(text, token)

hashHolds == txHash = "match"

\* What validateRepositoryPatchPlan asks of an operation; a file that is not
\* there has neither hash nor anchors to look at.
validOperation(file, op) ==
    file = NoFile
    \/ /\ (op.kind = "create_file" /\ txHash = "none") \/ hashHolds
       /\ op.anchor = "none" \/ validateUniqueAnchor(file, op.anchor)
       /\ op.end = "none" \/ validateUniqueAnchor(file, op.end)

\* A model answers with a plan for the file as it is, or as it was.
BeginPatch(file, plan, hash) ==
    /\ txFile' = file /\ txBefore' = file /\ txPlan' = plan /\ txHash' = hash
    /\ txPc' = "validating" /\ UNCHANGED txDone

ValidatePlan ==
    /\ txPc = "validating"
    /\ txPc' = IF \A i \in DOMAIN txPlan : validOperation(txFile, txPlan[i]) THEN "applying" ELSE "failed"
    /\ UNCHANGED <<txFile, txPlan, txHash, txBefore, txDone>>

\* One turn of the loop: read, change, write.  What throws here leaves the
\* operations before it in the file.
ApplyNext ==
    LET next == applyPatchOperation(txFile, txPlan[txDone + 1])
    IN  /\ txPc = "applying" /\ txDone < Len(txPlan)
        /\ IF next = Thrown THEN txPc' = "threw" /\ UNCHANGED <<txFile, txDone>>
           ELSE txFile' = next /\ txDone' = txDone + 1
                /\ txPc' = IF txDone + 1 = Len(txPlan) THEN "applied" ELSE "applying"
        /\ UNCHANGED <<txPlan, txHash, txBefore>>

TxNext ==
    \/ /\ txPc = "idle"
       /\ \E file \in TxFile, plan \in TxPlan, hash \in {"none", "match", "stale"} : BeginPatch(file, plan, hash)
    \/ ValidatePlan \/ ApplyNext

-----------------------------------------------------------------------------
(* Properties.                                                              *)

Inserts == {"create_file", "full_replacement", "insert_after", "insert_before"}

\* Two pieces of code decide whether an anchor is good: the validator, and the
\* operation when it is applied.  They agree: a plan of one insertion or
\* replacement of a whole file that exists is applied once it is validated.
\* (With two operations on a file, a range, or a file that is missing, a
\* validated plan may still throw, after it wrote a part.)
ValidatedPatchApplies ==
    Len(txPlan) = 1 /\ txPlan[1].kind \in Inserts /\ txBefore # NoFile => txPc # "threw"

\* A plan made for other contents than the file has changes nothing, except
\* that a file is created whatever is there.
StalePatchWritesNothing ==
    txHash # "match" /\ txBefore # NoFile /\ txFile # txBefore
        => \E i \in DOMAIN txPlan : txPlan[i].kind = "create_file" /\ txHash = "none"

Line(text, n) == SubSeq(text, lineStart(text, n) + 1, lineStop(text, n) - 1)

\* replace_range by line numbers touches the lines it names and no others:
\* those before keep their numbers, those after move by the difference, and
\* no line is joined to another or lost, also at the last line, at a content
\* that ends with a line end, and at a range that reaches past the file.
OtherLinesKept ==
    (/\ txPc = "applied" /\ Len(txPlan) = 1 /\ txBefore # NoFile
     /\ txPlan[1].kind = "replace_range" /\ txPlan[1].anchor = "none")
    => LET op == txPlan[1]
           total == lineCount(txBefore)
           kept == (IF op.from > total THEN total ELSE op.from - 1) + (IF op.to > total THEN 0 ELSE total - op.to)
           added == lineCount(withoutLastEnd(op.content))
       IN  /\ lineCount(txFile) = kept + added
           /\ \A n \in 1 .. total : n < op.from => Line(txFile, n) = Line(txBefore, n)
           /\ \A n \in 1 .. total : n > op.to =>
                 Line(txFile, (n + added) - (op.to - op.from + 1)) = Line(txBefore, n)

\* Validation and application of a patch agree, a patch against another text
\* writes nothing, and what is not named is kept.
PatchesLandWhole == ValidatedPatchApplies /\ StalePatchWritesNothing /\ OtherLinesKept
=============================================================================
