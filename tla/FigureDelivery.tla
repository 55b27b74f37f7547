---------------------------- MODULE FigureDelivery ----------------------------
(***************************************************************************)
(* From the author's inputs to a delivered figure and its paragraph        *)
(* (publication/render_figure.py, figures.py, results_paragraph.py), for   *)
(* one figure identifier.  The numbers are computed by QualificationRules; *)
(* what EvidenceWorkflow shows step by step (qualify, approve, analyze) is *)
(* one action here, and the rendering, one action there, goes file by file *)
(* here.  The author edits inputs and files at any time, and a rendering   *)
(* can stop between, or in, any two of its writes.                         *)
(*                                                                         *)
(* A file is represented by what is in it, so equal hashes are equal       *)
(* contents; PDF and TIFF go with SVG and PNG, and the three QA files are  *)
(* one.                                                                    *)
(***************************************************************************)
EXTENDS QualificationRules

CONSTANTS
  Inputs,      \* a name |-> [records, rows, question] the author may have
  Clipped,     \* case names too long to fit on the canvas
  MaxCommands, \* bound on commands
  MaxDeskEdits, \* bound on the author's edits
  MaxCuts,     \* bound on renderings that stop half-way
  Template,    \* the plotting script as the program writes it
  Edited,      \* a file as the author changed it
  Torn,        \* a file whose writing was cut short
  Absent

ASSUME FigureBounds == MaxCommands \in Nat /\ MaxDeskEdits \in Nat /\ MaxCuts \in Nat
\* A script is the template, cut short, absent or edited, and only one of these.
ASSUME EditsDiffer == /\ Template # Torn /\ Template # Absent /\ Torn # Absent
                      /\ \A k \in 0..MaxDeskEdits : <<Edited, k>> \notin {Template, Torn, Absent}

ASSUME InputTypes ==
  /\ Absent \notin DOMAIN Inputs
  /\ \A u \in DOMAIN UnitOf : UnitOf[u].scale \in Nat \ {0} /\ UnitOf[u].offset \in Int
  /\ \A i \in DOMAIN Inputs :
       LET q == Inputs[i].question  rows == Inputs[i].rows IN
       /\ rows \in Seq(Range(rows)) /\ \A j \in DOMAIN rows : rows[j].value \in Int
       /\ q.members \in Seq(Range(q.members)) /\ q.operands \in Seq(Range(q.operands))
       /\ q.operator \in {"identity", "relative-change", "difference", "ratio"}

VARIABLES
  input,      \* the three input files, by name
  candidate,  \* the figure candidate, by the input it was computed from
  files,      \* the figure directory
  delivered,  \* figure-delivery.json
  paragraph,  \* the results paragraph
  cmd,        \* the rendering that runs
  outcome,    \* how the last command ended
  runs, edits, cuts,
  mine,       \* the author edited the script while nothing ran (history)
  broken      \* a rendering stopped, leaving a script no record is of (history)

counters == <<runs, edits, cuts>>
history == <<mine, broken>>
figureVars == <<input, candidate, files, delivered, paragraph, cmd, outcome, counters, history>>

Bundle == {"source", "script", "caption", "svg", "png", "qa"}
Idle == [at |-> "idle", quiet |-> TRUE, drawn |-> Absent]

FigureTypeOK ==
  /\ input \in DOMAIN Inputs
  /\ DOMAIN files = Bundle \cup {"record"}
  /\ cmd.at \in {"idle", "source", "script", "caption", "svg", "png", "qa", "record",
                 "validate", "deliver"}
  /\ outcome \in {"none", "ok", "material", "changed", "baseline", "invalid", "stopped"}
  /\ runs \in 0..MaxCommands /\ edits \in 0..MaxDeskEdits /\ cuts \in 0..MaxCuts
  /\ mine \in BOOLEAN /\ broken \in BOOLEAN

FigureInit ==
  /\ input \in DOMAIN Inputs
  /\ candidate = Absent /\ delivered = Absent /\ paragraph = Absent
  /\ files = [name \in Bundle \cup {"record"} |-> Absent]
  /\ cmd = Idle /\ outcome = "none"
  /\ runs = 0 /\ edits = 0 /\ cuts = 0 /\ mine = FALSE /\ broken = FALSE

Begins == cmd.at = "idle" /\ runs < MaxCommands /\ runs' = runs + 1

\* qualify and analyze: a record, or {} when they refuse.
Candidates(in) ==
  IF Material(in.records, in.rows, in.question)
    THEN UNION {Candidate(in.records, in.rows, an) : an \in Analysis(in.question, in.rows)}
    ELSE {}
Made == [i \in DOMAIN Inputs |-> Candidates(Inputs[i])]
Content(i) == CHOOSE c \in Made[i] : TRUE

-----------------------------------------------------------------------------
(* The computed checks of a candidate's content c.                         *)
Plot(an) == [cases |-> an.cases, values |-> an.values, unit |-> an.unit, words |-> an.words]
Drawing(rows, script) == [rows |-> rows, script |-> script]

DataQA(c) == files.source = Plot(c.analysis)

\* _narrative_numbers_are_bound: a number of the text is a value of the QoI.
NumbersBound(c) == c.claim.numbers \subseteq {c.analysis.values[k] : k \in DOMAIN c.analysis.values}
NarrativeQA(c) ==
  LET words == c.claim.words \cup files.caption
      first == c.analysis.values[1]
      last == c.analysis.values[Len(c.analysis.values)]
  IN /\ "bound" \notin words
     /\ last >= first => ~("down" \in words)
     /\ last <= first => ~("up" \in words)
     /\ NumbersBound(c)

\* Labels are read from the SVG, sizes from PNG and TIFF, tokens from the
\* script; an edit by hand keeps all of these.
Shows(drawing, c) == drawing = Edited \/ drawing.rows = Edited
                       \/ (drawing.rows.cases = c.analysis.cases
                             /\ drawing.rows.unit = c.analysis.unit
                             /\ drawing.rows.words = c.analysis.words)
VisualQA(c) ==
  /\ Shows(files.svg, c)
  /\ {c.analysis.cases[k] : k \in DOMAIN c.analysis.cases} \cap Clipped = {}

Passes(c) == DataQA(c) /\ NarrativeQA(c) /\ VisualQA(c)
Bound == [source |-> files.source, script |-> files.script, svg |-> files.svg, png |-> files.png]

\* After delivery.json was written: the bundle is complete and is the one
\* of the record, the stored QA is of these files, and the checks pass again.
Recorded ==
  /\ files.record.candidate = candidate
  /\ \A name \in Bundle : files.record.files[name] = files[name]
AllThere == \A name \in DOMAIN files : files[name] # Absent
Reviewed == files.qa.bound = Bound /\ files.qa.pass
Valid(c) ==
  /\ AllThere
  /\ Recorded /\ Reviewed /\ Passes(c)

-----------------------------------------------------------------------------
(* Plausible faults, one for each property; no specification uses them.    *)

(* The baseline of the script is the delivery that was returned.           *)
ProtectedByDelivery ==
  \/ files.script = Absent
  \/ delivered # Absent /\ delivered.files.script = files.script

(* Any script that has a delivery record may be replaced.                  *)
ProtectedByRecord == files.script = Absent \/ files.record \notin {Absent, Torn}

-----------------------------------------------------------------------------
(* qualify, the approval of its contract, and analyze.                     *)
Analyze ==
  /\ Begins
  /\ IF Made[input] = {} THEN outcome' = "material" /\ UNCHANGED candidate
     ELSE outcome' = "ok" /\ candidate' = input
  /\ UNCHANGED <<input, files, delivered, paragraph, cmd, edits, cuts, history>>

\* _current_material refuses changed inputs and marks the artifacts stale,
\* which keeps any later command from loading them.
CandidateStands == candidate = input
Refuse(reason) == outcome' = reason /\ UNCHANGED <<candidate, files, delivered, paragraph, cmd>>
MarkStale ==
  /\ candidate \notin {Absent, input}
  /\ candidate' = Absent /\ delivered' = Absent /\ outcome' = "changed"
  /\ UNCHANGED <<files, paragraph, cmd>>

(* _protect_local_script: what is there must be what the last delivery     *)
(* record says was written.                                                *)
Protected ==
  \/ files.script = Absent
  \/ files.record \notin {Absent, Torn} /\ files.record.files.script = files.script

ApproveFigure ==
  /\ Begins
  /\ \/ MarkStale
     \/ CandidateStands /\ ~Protected /\ Refuse("baseline")
     \/ /\ CandidateStands /\ Protected
        /\ cmd' = [Idle EXCEPT !.at = "source"]
        /\ outcome' = "none" /\ UNCHANGED <<candidate, files, delivered, paragraph>>
  /\ UNCHANGED <<input, edits, cuts, history>>

\* build_figure_delivery writes one file after the other.
Puts(at, content, next) ==
  /\ cmd.at = at
  /\ files' = [files EXCEPT ![at] = content]
  /\ cmd' = [cmd EXCEPT !.at = next]
  /\ UNCHANGED <<input, candidate, delivered, paragraph, outcome, counters, history>>

WriteSource == Puts("source", Plot(Content(candidate).analysis), "script")
WriteScript == Puts("script", Template, "caption")
WriteCaption == Puts("caption", Content(candidate).analysis.words, "svg")
\* One process reads the table and draws all exports.
DrawVector ==
  /\ cmd.at = "svg" /\ files.script # Absent
  /\ LET drawing == Drawing(files.source, files.script) IN
       files' = [files EXCEPT !.svg = drawing] /\ cmd' = [cmd EXCEPT !.at = "png", !.drawn = drawing]
  /\ UNCHANGED <<input, candidate, delivered, paragraph, outcome, counters, history>>
DrawRaster == Puts("png", cmd.drawn, "qa")
WriteQA ==
  /\ files.script # Absent
  /\ Puts("qa", [pass |-> Passes(Content(candidate)), bound |-> Bound], "record")
WriteRecord ==
  /\ cmd.at = "record" /\ files.script # Absent
  /\ files' = [files EXCEPT !.record = [candidate |-> candidate,
                                       files |-> [name \in Bundle |-> files[name]]]]
  /\ cmd' = [cmd EXCEPT !.at = "validate"] /\ broken' = FALSE
  /\ UNCHANGED <<input, candidate, delivered, paragraph, outcome, counters, mine>>

\* The script was removed before it is run or hashed.
Fail ==
  /\ cmd.at \in {"svg", "qa", "record"} /\ files.script = Absent
  /\ cmd' = Idle /\ outcome' = "stopped"
  /\ UNCHANGED <<input, candidate, files, delivered, paragraph, counters, history>>

Validate ==
  /\ cmd.at = "validate"
  /\ IF Valid(Content(candidate))
       THEN cmd' = [cmd EXCEPT !.at = "deliver"] /\ UNCHANGED <<outcome, delivered>>
       ELSE /\ cmd' = Idle /\ UNCHANGED delivered
            /\ outcome' = IF cmd.quiet THEN "invalid" ELSE "stopped"
  /\ UNCHANGED <<input, candidate, files, paragraph, counters, history>>

Deliver ==
  /\ cmd.at = "deliver"
  /\ delivered' = [candidate |-> candidate, files |-> files.record.files, quiet |-> cmd.quiet]
  /\ cmd' = Idle /\ outcome' = "ok"
  /\ UNCHANGED <<input, candidate, files, paragraph, counters, history>>

\* Stopped here, a rendering leaves a script that the record is not of.
Breaks(torn) ==
  \/ torn /\ cmd.at \in {"script", "record"}
  \/ /\ cmd.at \in {"caption", "svg", "png", "qa", "record"}
     /\ files.record \in {Absent, Torn} \/ files.record.files.script # Template

(* The plot fails, the disk is full, the process is killed; only the table *)
(* of plotted rows is written to one side first.                           *)
Stop(torn) ==
  /\ cmd.at # "idle" /\ cuts < MaxCuts /\ cuts' = cuts + 1
  /\ torn => cmd.at \in {"script", "caption", "svg", "png", "qa", "record"}
  /\ files' = IF torn THEN [files EXCEPT ![cmd.at] = Torn] ELSE files
  /\ cmd' = Idle /\ outcome' = "stopped" /\ broken' = (broken \/ Breaks(torn))
  /\ UNCHANGED <<input, candidate, delivered, paragraph, runs, edits, mine>>

-----------------------------------------------------------------------------
(* run_write: _validate_inputs and the paragraph.                          *)
Intact ==
  /\ delivered # Absent
  /\ \A name \in Bundle : files[name] = delivered.files[name]

Sentence(c) ==
  LET an == c.analysis IN
  [cases |-> an.cases,
   values |-> IF c.ceiling = "directional-comparison" THEN << >>
              ELSE [k \in DOMAIN an.values |-> Rounded(an.values[k], ParagraphLimit)],
   trend |-> an.trend,
   up |-> an.values[Len(an.values)] > an.values[1],
   down |-> an.values[Len(an.values)] < an.values[1]]

Write ==
  /\ Begins
  /\ delivered # Absent
  /\ \/ MarkStale
     \/ /\ CandidateStands
        /\ IF /\ Intact /\ delivered.candidate = candidate
              /\ "process" \notin Content(candidate).analysis.words
             THEN /\ paragraph' = [of |-> candidate, text |-> Sentence(Content(candidate))]
                  /\ outcome' = "ok"
             ELSE outcome' = "changed" /\ UNCHANGED paragraph
        /\ UNCHANGED <<candidate, files, delivered, cmd>>
  /\ UNCHANGED <<input, edits, cuts, history>>

-----------------------------------------------------------------------------
(* The author.                                                             *)
Touch(name, content) ==
  /\ edits < MaxDeskEdits /\ edits' = edits + 1
  /\ files' = [files EXCEPT ![name] = content]
  /\ cmd' = [cmd EXCEPT !.quiet = (cmd.at = "idle")]
  /\ UNCHANGED <<input, candidate, delivered, paragraph, outcome, runs, cuts>>

Retouch(name) ==
  /\ files[name] \notin {Absent, Edited}
  /\ Touch(name, Edited)
  /\ UNCHANGED history

EditScript ==
  /\ files.script \in {Template, Torn}
  /\ Touch("script", <<Edited, edits>>)
  /\ mine' = (mine \/ cmd.at = "idle") /\ UNCHANGED broken

RemoveScript ==
  /\ files.script # Absent
  /\ Touch("script", Absent)
  /\ mine' = FALSE /\ broken' = FALSE

\* "python plot_fig-1.py", as the message of the refused rendering advises.
Reexport ==
  /\ files.script \notin {Absent, Template, Torn} /\ files.source # Absent
  /\ edits < MaxDeskEdits /\ edits' = edits + 1
  /\ files' = [files EXCEPT !.svg = Drawing(files.source, files.script),
                            !.png = Drawing(files.source, files.script)]
  /\ cmd' = [cmd EXCEPT !.quiet = (cmd.at = "idle")]
  /\ UNCHANGED <<input, candidate, delivered, paragraph, outcome, runs, cuts, history>>

EditInput ==
  /\ edits < MaxDeskEdits /\ edits' = edits + 1
  /\ \E i \in DOMAIN Inputs \ {input} : input' = i
  /\ UNCHANGED <<candidate, files, delivered, paragraph, cmd, outcome, runs, cuts, history>>

FigureNext ==
  \/ Analyze \/ ApproveFigure \/ Write
  \/ WriteSource \/ WriteScript \/ WriteCaption \/ DrawVector \/ DrawRaster \/ WriteQA
  \/ WriteRecord \/ Fail \/ Validate \/ Deliver
  \/ \E torn \in BOOLEAN : Stop(torn)
  \/ \E name \in {"source", "svg", "png"} : Retouch(name)
  \/ EditScript \/ RemoveScript \/ Reexport \/ EditInput

FigureSpec == FigureInit /\ [][FigureNext]_figureVars

-----------------------------------------------------------------------------
(* Properties.                                                             *)

(* What the author's rows say of a case, whatever their order and unit,    *)
(* and whether the question asks for its negative (a negative reference).  *)
Observed(in, case) ==
  LET s == in.question.operands[1]
      i == CHOOSE i \in DOMAIN in.rows : in.rows[i].case = case /\ Selects(s, in.rows[i])
  IN InBase(in.rows[i].value, in.rows[i].unit)
Wanted(in, case) ==   \* the value in the unit the question asks for
  LET unit == UnitOf[in.question.unit] IN (Observed(in, case) - unit.offset) \div unit.scale
\* The reference in the unit of the operand, but for its scale.
ReferenceOf(in) == Observed(in, in.question.members[Reference(in.question)].case)
                     - UnitOf[in.question.operands[1].unit].offset
Inverted(in) == in.question.reference # {} /\ ReferenceOf(in) < 0
Less(in, x, y) == IF Inverted(in) THEN Observed(in, y) < Observed(in, x)
                  ELSE Observed(in, x) < Observed(in, y)

\* The integers of the model are fine enough: what a selector converts loses
\* nothing, two observations that differ have values that differ, and no value
\* has more digits than Rounded knows.
ConvertsWhole(in) ==
  LET s == in.question.operands[1] IN
  \A j \in DOMAIN in.rows :
    Selects(s, in.rows[j]) /\ Compatible(in.rows[j].unit, s.unit) =>
      (InBase(in.rows[j].value, in.rows[j].unit) - UnitOf[s.unit].offset) % UnitOf[s.unit].scale = 0
KeepsApart(in) ==
  \A an \in Analysis(in.question, in.rows) : \A k, l \in DOMAIN an.values :
    /\ an.values[k] = an.values[l] => Observed(in, an.cases[k]) = Observed(in, an.cases[l])
    /\ Size(an.values[k]) < 10000 * ParagraphLimit
Resolved(in) == ConvertsWhole(in) /\ KeepsApart(in)
ASSUME InputsResolved == \A i \in DOMAIN Inputs : Resolved(Inputs[i])

SaysTrue(in, text) ==
  LET n == Len(text.cases)
      Lower(i, j) == Less(in, text.cases[i], text.cases[j])
  IN /\ text.up <=> Lower(1, n)
     /\ text.down <=> Lower(n, 1)
     /\ text.trend = "monotonic-increasing" => \A i, j \in 1..n : i < j => ~Lower(j, i)
     /\ text.trend = "monotonic-decreasing" => \A i, j \in 1..n : i < j => ~Lower(i, j)
     /\ text.trend = "interior-peak" => \E i \in 2..(n - 1) : Lower(1, i) /\ Lower(n, i)
     /\ text.trend = "plateau" => \A i, j \in (n - 2)..n : ~Lower(i, j)
     /\ text.values # << >> /\ in.question.reference = {} =>
          \A i \in 1..n : LET v == Wanted(in, text.cases[i])
                            apart == IF v > text.values[i] THEN v - text.values[i]
                                     ELSE text.values[i] - v
                        IN apart * 200 <= Size(v)

(* A results paragraph that was written says of the named cases what the   *)
(* author's observation file says of them: which of the two ends is        *)
(* higher, that the response rises, falls or peaks between them in the     *)
(* order of the coordinate, and, when it gives numbers, each case's own,   *)
(* to three digits, although rows are in any order and unit and pass       *)
(* through membership, conversion, trend, ceiling, figure and template.    *)
SentenceIsTrue ==
  paragraph # Absent => SaysTrue(Inputs[paragraph.of], paragraph.text)

(* The author's own version of the plotting script, saved while no         *)
(* rendering runs, stays until the author removes it: no later command,    *)
(* after any number of stopped, refused or repeated renderings, puts the   *)
(* template in its place.                                                  *)
ScriptKept == [][mine /\ mine' => files'.script = files.script]_figureVars

(* A rendering is refused over its script only when the author's own       *)
(* version of it stands there, or a rendering that stopped left a script   *)
(* no record is of.  A later rendering that stops, wherever it does, leaves *)
(* the next one its way as long as the record is whole and of the template: *)
(* it puts back the script the record names.                               *)
RenderingRepeats ==
  [][runs' # runs /\ outcome' = "baseline" =>
       broken \/ files.script \notin {Template, Torn}]_figureVars

(* What the design asks of usable inputs, operand by operand: one located  *)
(* row for each expected case and no other row.                            *)
Complete(in) ==
  LET q == in.question
      RowsOf(s, m) == {i \in DOMAIN in.rows : MatchesMember(in.rows[i], MemberOf(m, s))}
      Located == {RowsOf(q.operands[j], q.members[k]) : j \in DOMAIN q.operands, k \in DOMAIN q.members}
  IN /\ ~Blocked(in.records, in.rows)
     /\ \A rows \in Located : Cardinality(rows) = 1
     /\ UNION Located = DOMAIN in.rows
     /\ \A i \in DOMAIN in.rows : RowAccepted(in.rows[i])
     /\ TrendDefined(q)
     /\ \A j \in DOMAIN q.operands : Compatible(q.operands[j].unit, q.operands[1].unit)
     /\ Compatible(q.unit, IF q.operator \in {"identity", "difference"} THEN q.operands[1].unit
                           ELSE "1")
     /\ q.reference # {} => ReferenceOf(in) # 0
     /\ q.operator = "ratio" => \A i \in DOMAIN in.rows : in.rows[i].value # 0

(* Wording the figure must not carry, or names that do not fit.            *)
Faulty(in) ==
  LET q == in.question
      ends == <<q.members[1].case, q.members[Len(q.members)].case>>
  IN \/ "bound" \in q.words
     \/ "up" \in q.words /\ ~Less(in, ends[1], ends[2])
     \/ "down" \in q.words /\ ~Less(in, ends[2], ends[1])
     \/ {q.members[k].case : k \in DOMAIN q.members} \cap Clipped # {}

(* A command is refused only for a reason the design gives: the analysis   *)
(* when the inputs are incomplete or not comparable, a finished figure, in *)
(* a directory nobody else wrote, when its wording or layout is at fault.  *)
RefusedForCause ==
  [][/\ runs' # runs /\ outcome' = "material" => ~Complete(Inputs[input])
     /\ cmd.at = "validate" /\ outcome' = "invalid" => Faulty(Inputs[candidate])]_figureVars
===============================================================================
