------------------------------ MODULE ModelCall ------------------------------
(***************************************************************************)
(* executeModelRoleCall (models/model-route-executor.ts): the structured   *)
(* request, the text request it falls back to, the usage it reports and    *)
(* the telemetry it leaves in the artifact directory and index             *)
(* (models/model-call-indexing.ts, evals/provider-usage.ts).               *)
(*                                                                         *)
(* The provider is external: every answer is arbitrary.  A telemetry write *)
(* may fail at any file.  Prompts and texts are left out, except for what  *)
(* the JSON scanner of the fallback looks at: a text is the sequence of    *)
(* its UTF-16 units, of which a surrogate pair makes one code point.       *)
(***************************************************************************)
EXTENDS Integers, FiniteSets, SequencesExt

CONSTANTS
    Tokens,    \* token counts a provider may report
    TextBound  \* longest answer of the text request

ASSUME ModelCallAssumption == Tokens \subseteq Nat /\ TextBound \in Nat

VARIABLES
    mcPc,
    mcIn,     \* telemetry requested, model configured
    mcSent,   \* requests sent to the provider
    mcObject, \* "none", or the request the object came from
    mcUsage,  \* usage record of that request
    mcFiles,  \* telemetry files: record and part
    mcIndex,  \* records registered in the artifact index
    mcText,   \* a text given to the scanner
    mcOut

mcVars == <<mcPc, mcIn, mcSent, mcObject, mcUsage, mcFiles, mcIndex, mcText, mcOut>>

NoUsage == [input |-> 0, output |-> 0, total |-> 0, estimated |-> FALSE, status |-> "none",
            reported |-> <<{}, {}, {}>>]

McInit ==
    /\ mcPc = "idle" /\ mcIn = [persist |-> FALSE, model |-> FALSE] /\ mcSent = <<>>
    /\ mcObject = "none" /\ mcUsage = NoUsage /\ mcFiles = {} /\ mcIndex = {}
    /\ mcText = <<>> /\ mcOut = "none"

-----------------------------------------------------------------------------
(* The scanner of the fallback, and the usage record                       *)

Char == {"brace", "unbrace", "bracket", "unbracket", "quote", "escape", "high", "low", "other"}

opener(c) == c \in {"brace", "bracket"}
closerOf(c) == IF c = "brace" THEN "unbrace" ELSE "unbracket"

\* Where the first bracket is, and the surrogate pairs in front of a place.
firstBracket(text) == SelectInSeq(text, LAMBDA c : opener(c))
pairsBefore(text, n) == {k \in 1..(n - 1) : text[k] = "high" /\ text[k + 1] = "low"}

\* One turn of the loop of extractFirstJsonValue: only the unit it began with
\* counts, and only outside a string; end is where the depth came back to zero.
scanStep(open, st, c) ==
    LET counts == ~st.escaped /\ ~st.inString /\ c \notin {"escape", "quote"}
        depth  == st.depth + (IF counts /\ c = open THEN 1 ELSE 0)
                           - (IF counts /\ c = closerOf(open) THEN 1 ELSE 0)
    IN  IF st.end # 0 THEN st
        ELSE [at       |-> st.at + 1,
              depth    |-> depth,
              inString |-> IF st.escaped \/ c # "quote" THEN st.inString ELSE ~st.inString,
              escaped  |-> ~st.escaped /\ st.inString /\ c = "escape",
              end      |-> IF counts /\ depth = 0 THEN st.at + 1 ELSE 0]

\* The part of the text that the loop returns from a place on, <<>> for none.
scanFrom(text, start) ==
    LET st0   == [at |-> start - 1, depth |-> 0, inString |-> FALSE, escaped |-> FALSE, end |-> 0]
        scan[n \in 0 .. Len(text)] ==
            IF n < start THEN st0 ELSE scanStep(text[start], scan[n - 1], text[n])
        end   == scan[Len(text)].end
    IN  IF start = 0 \/ end = 0 THEN <<>> ELSE SubSeq(text, start, end)

\* The bracket is looked for among the code points of the text, [...text], and the
\* index found there is used on its units: each pair in front makes it one less.
extractFirstJsonValue(text) ==
    LET first == firstBracket(text)
    IN  scanFrom(text, IF first = 0 THEN 0 ELSE first - Cardinality(pairsBefore(text, first)))

Or(reported, default) == IF reported = {} THEN default ELSE CHOOSE n \in reported : TRUE
AtLeastZero(n) == IF n < 0 THEN 0 ELSE n

\* Math.max(0, total - part)
restOf(total, part) == AtLeastZero(total - part)

\* usageRecordFromProvider: what is missing is filled in from the total; with
\* nothing reported the counts are estimates of the texts.
usageRecordFromProvider(i, o, t, status) ==
    IF i = {} /\ o = {} /\ t = {}
    THEN [input |-> 1, output |-> 1, total |-> 2, estimated |-> TRUE, status |-> status,
          reported |-> <<i, o, t>>]
    ELSE LET input  == Or(i, restOf(Or(t, 0), Or(o, 0)))
             output == Or(o, restOf(Or(t, 0), input))
         IN  [input |-> input, output |-> output, total |-> Or(t, input + output),
              estimated |-> FALSE, status |-> status, reported |-> <<i, o, t>>]

Reported == {{}} \cup {{n} : n \in Tokens}

-----------------------------------------------------------------------------
(* The call                                                                *)

\* Mutant: the index names the record before it is written.
indexedEarly == <<"prompt", "response", "index", "call">>

\* persistModelCallArtifacts: three files, then their entries in the index.  The
\* id of the record depends on the call and on the status.
writeOrder == <<"prompt", "response", "call", "index">>

\* persistTelemetryIfRequested, stopped by an error after n of the writes.
persist(status, n) ==
    LET done == {writeOrder[k] : k \in 1..n}
    IN  IF ~mcIn.persist THEN n = 4 /\ UNCHANGED <<mcFiles, mcIndex>>
        ELSE /\ mcFiles' = mcFiles \cup {<<status, p>> : p \in done \ {"index"}}
             /\ mcIndex' = IF "index" \in done THEN mcIndex \cup {status} ELSE mcIndex

WritesDone == 0..4

ModelBegin ==
    /\ mcPc = "idle"
    /\ mcIn' \in [persist : BOOLEAN, model : BOOLEAN]
    /\ mcPc' = IF mcIn'.model THEN "object" ELSE "unavailable"
    /\ UNCHANGED <<mcSent, mcObject, mcUsage, mcFiles, mcIndex, mcText, mcOut>>

\* An unconfigured provider: telemetry, then the error.  An error of the
\* telemetry leaves in its place.
ProviderUnavailable ==
    /\ mcPc = "unavailable"
    /\ \E n \in WritesDone :
          /\ persist("provider_unavailable", n)
          /\ mcOut' = IF n = 4 THEN "MODEL_PROVIDER_UNAVAILABLE" ELSE "raw_error"
    /\ mcPc' = "done"
    /\ UNCHANGED <<mcIn, mcSent, mcObject, mcUsage, mcText>>

Returned(from, status) ==
    /\ mcPc' = "done" /\ mcOut' = "object" /\ mcObject' = from
    /\ \E i, o, t \in Reported : mcUsage' = usageRecordFromProvider(i, o, t, status)

\* An answer that fits: its usage, its telemetry, the return.  An error of the
\* telemetry is caught like an error of the provider.
Accepted(from, status, next) ==
    \E n \in WritesDone :
        /\ persist("success", n)
        /\ IF n = 4 THEN Returned(from, status)
           ELSE mcPc' = next /\ UNCHANGED <<mcOut, mcObject, mcUsage>>

\* generateObject: an object that fits the schema, or an error.
GenerateObject ==
    /\ mcPc = "object"
    /\ mcSent' = Append(mcSent, "object")
    /\ \/ Accepted("object", "completed", "text")
       \/ mcPc' = "text" /\ UNCHANGED <<mcObject, mcUsage, mcFiles, mcIndex, mcOut>>
    /\ UNCHANGED <<mcIn, mcText>>

\* generateText: a text that holds an object that fits, or anything else.
GenerateText ==
    /\ mcPc = "text"
    /\ mcSent' = Append(mcSent, "text")
    /\ \/ Accepted("text", "fallback", "failed")
       \/ mcPc' = "failed" /\ UNCHANGED <<mcObject, mcUsage, mcFiles, mcIndex, mcOut>>
    /\ UNCHANGED <<mcIn, mcText>>

\* Both failed: telemetry, then the error.
RoleCallFailed ==
    /\ mcPc = "failed"
    /\ \E n \in WritesDone :
          /\ persist("failed", n)
          /\ mcOut' = IF n = 4 THEN "MODEL_ROLE_CALL_FAILED" ELSE "raw_error"
    /\ mcPc' = "done"
    /\ UNCHANGED <<mcIn, mcSent, mcObject, mcUsage, mcText>>

\* parseJsonFromModelText on a text that is not JSON as a whole.
ParseText ==
    /\ mcPc = "idle" /\ mcPc' = "parsed"
    /\ mcText' \in SeqOf(Char, TextBound)
    /\ mcOut' = extractFirstJsonValue(mcText')
    /\ UNCHANGED <<mcIn, mcSent, mcObject, mcUsage, mcFiles, mcIndex>>

McNext ==
    \/ ModelBegin \/ ProviderUnavailable \/ GenerateObject \/ GenerateText
    \/ RoleCallFailed \/ ParseText

McSpec == McInit /\ [][McNext]_mcVars

-----------------------------------------------------------------------------
(* Properties                                                              *)

\* However the writes fail, the index tells what became of the call: one record
\* whose status is the outcome, or none when the caller got the write's error.
TelemetryTellsOutcome ==
    mcPc = "done" /\ mcIn.persist =>
        mcIndex = CASE mcOut = "object"                     -> {"success"}
                    [] mcOut = "MODEL_ROLE_CALL_FAILED"     -> {"failed"}
                    [] mcOut = "MODEL_PROVIDER_UNAVAILABLE" -> {"provider_unavailable"}
                    [] OTHER                                -> {}

\* A record in the index has its three files, also after a write that stopped in
\* the middle of an earlier record with the same id.
RecordComplete ==
    \A status \in mcIndex, p \in {"prompt", "response", "call"} : <<status, p>> \in mcFiles

\* No count is negative, and the parts make up the total, whichever of the three
\* numbers the provider left out; only a part larger than the total exceeds it.
UsageAddsUp ==
    LET u == mcUsage
        most == Max({u.total} \cup u.reported[1] \cup u.reported[2])
    IN  /\ u.input >= 0 /\ u.output >= 0
        /\ (\E k \in 1..3 : u.reported[k] = {}) => u.input + u.output = most

\* Reference for the scanner: the text up to n is one value, brackets of both
\* kinds properly nested and those inside strings ignored.
nests(stack, c) ==
    IF opener(c) THEN Append(stack, c)
    ELSE IF stack # <<>> /\ opener(Last(stack)) /\ c = closerOf(Last(stack)) THEN Front(stack) ELSE Append(stack, "bad")

readChar(st, c) ==
    [stack    |-> IF ~st.inString /\ c \in {"brace", "bracket", "unbrace", "unbracket"} THEN nests(st.stack, c) ELSE st.stack,
     inString |-> IF st.escaped THEN st.inString ELSE st.inString # (c = "quote"),
     escaped  |-> st.inString /\ ~st.escaped /\ c = "escape"]

isValue(text) ==
    LET after[n \in 0 .. Len(text)] ==
            IF n = 0 THEN [stack |-> <<>>, inString |-> FALSE, escaped |-> FALSE]
            ELSE readChar(after[n - 1], text[n])
    IN  /\ after[Len(text)].stack = <<>> /\ ~after[Len(text)].inString
        /\ \A n \in 1..(Len(text) - 1) : after[n].stack # <<>>

\* When a value begins at the first bracket and no character outside the basic
\* plane is before it, the scanner that counts one kind of bracket returns exactly
\* this value, with text behind it or not.  With such a character, an emoji, the
\* scan begins too early and what it returns is seldom a value.
ScannerFindsValue ==
    mcPc = "parsed" =>
        LET start == firstBracket(mcText)
        IN  start > 0 /\ pairsBefore(mcText, start) = {} =>
                \A n \in start..Len(mcText) :
                    isValue(SubSeq(mcText, start, n)) => mcOut = SubSeq(mcText, start, n)

\* Every model call is accounted for: its outcome, its record and its tokens,
\* and the answer read from its text, short of an emoji before it, is the first
\* whole value.
CallsAccounted ==
  /\ TelemetryTellsOutcome
  /\ RecordComplete
  /\ UsageAddsUp
  /\ ScannerFindsValue
=============================================================================
