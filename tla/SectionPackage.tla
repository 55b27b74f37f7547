---------------------------- MODULE SectionPackage ----------------------------
(***************************************************************************)
(* A section of a manuscript, from the author's tables to its numbers      *)
(* (publication/section.py, parameter_evidence.py): prepare_section copies *)
(* the declared sources and calculates what was declared, a host writes a  *)
(* draft whose tokens name evidence, and assemble_section calculates once  *)
(* more and puts the numbers into the text.                                *)
(*                                                                         *)
(* An input is [files, tables, comparisons, evidence, duties]: the names   *)
(* of its sources in the order they are copied, calculations and           *)
(* comparisons by id, evidence by id ([ref], [json] or [text]), and the    *)
(* evidence its duties ask for.  Figures, prose, equations and shared      *)
(* units are left out.  A JSON source is a table of one row, a pointer     *)
(* being a column of it.                                                   *)
(***************************************************************************)
EXTENDS TableEvidence

CONSTANTS SectionInputs,  \* the inputs an author may start from, by name
          Versions,       \* the contents the sources of each may have, as name |-> table
          MaxTableEdits   \* bound: how often sources are edited
VARIABLES author,    \* [input, sources], the author's files; the input by its name
          package,   \* {} or the writing package: [input, sources, results]
          section,   \* {} or the section: [input, sources, results, values]
          cmd,       \* the running command, or how the last one ended
          edits
sectionVars == <<author, package, section, cmd, edits>>

\* A table is a sequence of rows, and edits keep the files there are; what a
\* calculation reads is a file of the input, for _load_input adds it to them,
\* and a calculation has its columns and its regions, if any.
Sources(d) == {d.source, Other(d)}
IsList(s) == s \in Seq(ToSet(s))
ASSUME SectionAssumption ==
  \A i \in DOMAIN SectionInputs :
    /\ IsList(SectionInputs[i].files)
    /\ \A version \in Versions[i] : /\ \A name \in DOMAIN version : IsList(version[name])
                                    /\ \A other \in Versions[i] : DOMAIN other = DOMAIN version
    /\ \A id \in DOMAIN SectionInputs[i].tables :
         /\ Sources(SectionInputs[i].tables[id]) \subseteq ToSet(SectionInputs[i].files)
         /\ {"columns", "region"} \subseteq DOMAIN SectionInputs[i].tables[id]

Idle(outcome) == [at |-> outcome]
Ended == {"idle", "refused", "prepared", "assembled", "killed"}

\* _load_input, with the validation of the declared calculations.
Loads(input, sources) ==
  /\ DOMAIN input.tables \cap DOMAIN input.comparisons = {}
  /\ \A id \in DOMAIN input.tables : input.tables[id].op \in FieldOps \/ Accepted(input.tables[id])
  /\ \A id \in DOMAIN input.comparisons :
       input.comparisons[id].status = "supported" /\ input.comparisons[id].definition \in DOMAIN sources
  /\ input.duties \subseteq DOMAIN input.evidence

\* resolve_json_value: {} unless the pointer holds a number in the unit.
Parameter(sources, j) ==
  IF j.source \notin DOMAIN sources THEN {}
  ELSE LET document == sources[j.source][1] IN
       IF j.pointer \notin DOMAIN document THEN {}
       ELSE {[value |-> FormatValue(Int2Q(n), j.places), unit |-> j.unit, raw |-> Int2Q(n), cites |-> {<<j.source, 1>>}]
               : n \in {m \in document[j.pointer] : \A u \in j.unitAt : u \in DOMAIN document /\ document[u] = j.unit}}
\* _resolve_metric; a value typed by hand is what the author wrote.
Metric(evidence, sources, reports) ==
  IF "ref" \in DOMAIN evidence THEN Resolve(reports, evidence.ref)
  ELSE IF "json" \in DOMAIN evidence THEN Parameter(sources, evidence.json)
  ELSE {evidence.text}
\* _calculate_sources: the calculations, and every parameter.
Results(input, sources) ==
  IF \E id \in DOMAIN input.evidence : /\ "json" \in DOMAIN input.evidence[id]
                                       /\ Parameter(sources, input.evidence[id].json) = {}
  THEN {} ELSE Calculated(input.tables, input.comparisons, sources)
\* The numbers of a draft that uses some of the evidence.
Values(input, uses, sources, reports) ==
  IF \E id \in uses : Metric(input.evidence[id], sources, reports) = {} THEN {}
  ELSE {[id \in uses |-> CHOOSE x \in Metric(input.evidence[id], sources, reports) : TRUE]}
\* Fault: the results stored when the package was prepared.
StoredResults(p) == {p.results}
\* What assemble_section calculates with: the sources of the package, again.
AssembledResults(p) == Results(SectionInputs[p.input], p.sources)
\* What prepare_section calculates with: its own copies.
PreparedResults(c) == Results(SectionInputs[c.input], c.copied)

SectionInit == /\ \E i \in DOMAIN SectionInputs : \E s \in Versions[i] : author = [input |-> i, sources |-> s]
               /\ package = {} /\ section = {} /\ cmd = Idle("idle") /\ edits = 0

Refuse == cmd' = Idle("refused") /\ UNCHANGED <<author, package, section, edits>>
Copy(c, name, sources) ==
  [c EXCEPT !.copied = [n \in DOMAIN c.copied \cup {name} |->
                          IF n \in DOMAIN c.copied THEN c.copied[n] ELSE sources[n]]]
NextFile(c) == SectionInputs[c.input].files[Cardinality(DOMAIN c.copied) + 1]
AllCopied(c) == Cardinality(DOMAIN c.copied) = Len(SectionInputs[c.input].files)

\* prepare_section: refused over an existing output.
StartPrepare ==
  /\ cmd.at \in Ended /\ package = {} /\ Loads(SectionInputs[author.input], author.sources)
  /\ cmd' = [at |-> "preparing", input |-> author.input, copied |-> << >>]
  /\ UNCHANGED <<author, package, section, edits>>
PrepareRefused ==
  /\ cmd.at \in Ended
  /\ package # {} \/ ~Loads(SectionInputs[author.input], author.sources)
  /\ Refuse
PrepareCopies ==
  /\ cmd.at = "preparing" /\ ~AllCopied(cmd)
  /\ NextFile(cmd) \in DOMAIN author.sources
  /\ cmd' = Copy(cmd, NextFile(cmd), author.sources)
  /\ UNCHANGED <<author, package, section, edits>>
PrepareMisses ==
  /\ cmd.at = "preparing" /\ ~AllCopied(cmd)
  /\ NextFile(cmd) \notin DOMAIN author.sources
  /\ Refuse
PrepareCalculates ==
  /\ cmd.at = "preparing" /\ AllCopied(cmd)
  /\ cmd' = [at |-> "calculated", input |-> cmd.input, copied |-> cmd.copied, results |-> PreparedResults(cmd)]
  /\ UNCHANGED <<author, package, section, edits>>
PrepareRaises == cmd.at = "calculated" /\ cmd.results = {} /\ Refuse
FinishPrepare ==
  /\ cmd.at = "calculated"
  /\ package' = {[input |-> cmd.input, sources |-> cmd.copied, results |-> reports] : reports \in cmd.results}
  /\ package' # {}
  /\ cmd' = Idle("prepared")
  /\ UNCHANGED <<author, section, edits>>

\* assemble_section up to the calculations; table-results.json is not read.
StartAssemble(p, uses) ==
  /\ cmd.at \in Ended /\ section = {} /\ Loads(SectionInputs[p.input], p.sources)
  /\ cmd' = [at |-> "drafting", input |-> p.input, uses |-> uses, results |-> AssembledResults(p),
             copied |-> << >>, values |-> << >>, undisturbed |-> TRUE]
  /\ UNCHANGED <<author, package, section, edits>>
AssembleRefused(p) ==
  /\ cmd.at \in Ended
  /\ section # {} \/ ~Loads(SectionInputs[p.input], p.sources)
  /\ Refuse
\* The tokens of the draft; parameters are read from the package now.  A duty
\* asks for evidence that some paragraph uses.
Covered(c) == SectionInputs[c.input].duties \subseteq c.uses
ResolveDraft(p) ==
  /\ cmd.at = "drafting" /\ Covered(cmd)
  /\ \E reports \in cmd.results : \E values \in Values(SectionInputs[cmd.input], cmd.uses, p.sources, reports) :
       cmd' = [cmd EXCEPT !.at = "packing", !.values = values, !.results = {reports}]
  /\ UNCHANGED <<author, package, section, edits>>
DraftRefused(p) ==
  /\ cmd.at = "drafting"
  /\ \/ ~Covered(cmd)
     \/ \A reports \in cmd.results : Values(SectionInputs[cmd.input], cmd.uses, p.sources, reports) = {}
  /\ Refuse
AssembleCopies(p) ==
  /\ cmd.at = "packing" /\ ~AllCopied(cmd)
  /\ cmd' = Copy(cmd, NextFile(cmd), p.sources)
  /\ UNCHANGED <<author, package, section, edits>>
FinishAssemble ==
  /\ cmd.at = "packing" /\ AllCopied(cmd)
  /\ section' = {[input |-> cmd.input, sources |-> cmd.copied, results |-> reports,
                  values |-> cmd.values, undisturbed |-> cmd.undisturbed] : reports \in cmd.results}
  /\ cmd' = Idle("assembled")
  /\ UNCHANGED <<author, package, edits>>

\* A killed command leaves its staging directory and nothing else.
Cut == /\ cmd.at \notin Ended /\ cmd' = Idle("killed")
       /\ UNCHANGED <<author, package, section, edits>>

\* The author saves one source; the host, or the author, one of the package.
SaveSource(name, table) ==
  /\ edits < MaxTableEdits /\ author.sources[name] # table
  /\ author' = [author EXCEPT !.sources[name] = table]
  /\ cmd' = IF cmd.at \in Ended THEN Idle("idle") ELSE cmd
  /\ edits' = edits + 1
  /\ UNCHANGED <<package, section>>
SavePackage(p, name, table) ==
  /\ edits < MaxTableEdits /\ p.sources[name] # table
  /\ package' = {[p EXCEPT !.sources[name] = table]}
  /\ cmd' = IF cmd.at \in Ended THEN Idle("idle")
             ELSE IF cmd.at \in {"preparing", "calculated"} THEN cmd ELSE [cmd EXCEPT !.undisturbed = FALSE]
  /\ edits' = edits + 1
  /\ UNCHANGED <<author, section>>
\* The author removes an output to make it again.
Discard ==
  /\ cmd.at \in Ended /\ edits < MaxTableEdits /\ (package # {} \/ section # {})
  /\ \/ package' = {} /\ section' = {}
     \/ section # {} /\ section' = {} /\ UNCHANGED package
  /\ cmd' = Idle("idle") /\ edits' = edits + 1
  /\ UNCHANGED author

Drafts(input) == {{id} : id \in DOMAIN input.evidence} \cup {DOMAIN input.evidence}
SectionNext ==
  \/ StartPrepare \/ PrepareRefused \/ PrepareCopies \/ PrepareMisses \/ PrepareCalculates \/ PrepareRaises \/ FinishPrepare
  \/ \E p \in package : \/ \E uses \in Drafts(SectionInputs[p.input]) : StartAssemble(p, uses)
                        \/ AssembleRefused(p) \/ ResolveDraft(p) \/ DraftRefused(p) \/ AssembleCopies(p)
                        \/ \E v \in Versions[p.input] : \E name \in DOMAIN p.sources : SavePackage(p, name, v[name])
  \/ FinishAssemble \/ Cut \/ Discard
  \/ \E v \in Versions[author.input] : \E name \in DOMAIN author.sources : SaveSource(name, v[name])
SectionSpec == SectionInit /\ [][SectionNext]_sectionVars

-----------------------------------------------------------------------------
\* The columns that decide which records a result is taken over.
Deciding(d) ==
  DOMAIN d.filters \cup d.groupBy \cup {p.by : p \in d.pair} \cup d.unitColumn
    \cup {d.columns[r] : r \in DOMAIN d.columns \cap ({"time"} \cup Axes \cup {"reference_" \o a : a \in Axes})}
    \cup UNION {r.column : r \in ToSet(d.region) \cup ToSet(d.oldRegion)}
\* The cells with numbers that decide nothing, in rows that have what decides.
Reading(input, name) == {d \in {input.tables[id] : id \in DOMAIN input.tables} : name \in Sources(d)}
Columns(d) == {d.columns[r] : r \in DOMAIN d.columns}
NumberCells(input, sources) ==
  {cell \in UNION {{name} \X (DOMAIN sources[name]) \X UNION {Columns(d) : d \in Reading(input, name)}
                    : name \in DOMAIN sources} :
     LET row == sources[cell[1]][cell[2]] IN
     \A d \in Reading(input, cell[1]) : Deciding(d) \cup Columns(d) \subseteq DOMAIN row /\ cell[3] \notin Deciding(d)}
Raised(sources, cell) ==
  [sources EXCEPT ![cell[1]][cell[2]][cell[3]] = {n + 1 : n \in @}]

\* The same thermometer, read in Kelvin.
InCelsius(d) == {r \in DOMAIN d.columns : d.units[r] = "degC"}
Shifting(input) ==
  UNION {Sources(input.tables[id]) \X {input.tables[id].columns[r] : r \in InCelsius(input.tables[id]) \ {"half_width"}}
           : id \in DOMAIN input.tables}
SourcesInKelvin(input, sources) ==
  [n \in DOMAIN sources |-> [i \in DOMAIN sources[n] |-> [c \in DOMAIN sources[n][i] |->
     IF <<n, c>> \in Shifting(input) THEN {t + 273 : t \in sources[n][i][c]}
     ELSE IF \E id \in DOMAIN input.tables : c \in input.tables[id].unitColumn THEN Kelvin(sources[n][i][c])
     ELSE sources[n][i][c]]]]
CalculationInKelvin(d) ==
  [d EXCEPT !.units = [r \in DOMAIN d.units |-> Kelvin(d.units[r])],
            !.origin = {o + 273 : o \in d.origin},
            !.threshold = IF d.op # "temporal_difference" /\ "value" \in InCelsius(d)
                          THEN {t + 273 : t \in @} ELSE @]
InputInKelvin(input) ==
  [input EXCEPT !.tables = [id \in DOMAIN input.tables |-> CalculationInKelvin(input.tables[id])],
     !.comparisons = [id \in DOMAIN input.comparisons |-> [input.comparisons[id] EXCEPT
       !.origin = IF InCelsius(input.tables[input.comparisons[id].reference.id]) # {} THEN {o + 273 : o \in @} ELSE @]]]
\* A sum of temperatures names Celsius in its unit; a population's does not,
\* and neither does the coefficient of variation.
TiedToCelsius(input, id, x) ==
  \/ x.unit \in {"degC*s", "degC*m2", "degC*m3"}
  \/ LET ref == input.evidence[id].ref IN
     ref.id \in DOMAIN input.tables /\ input.tables[ref.id].op = "population" /\ ref.field \in {"sum", "cv"}
Cites(input, id) == "ref" \in DOMAIN input.evidence[id]

\* The section just assembled, unless its package was changed meanwhile.
Assembled == {s \in section : cmd.at = "assembled" /\ s.undisturbed}

SectionTypeOK ==
  /\ author.input \in DOMAIN SectionInputs
  /\ cmd.at \in Ended \cup {"preparing", "calculated", "drafting", "packing"}
  /\ Cardinality(package) <= 1 /\ Cardinality(section) <= 1 /\ edits \in 0..MaxTableEdits

\* The reports of a writing package are what its own tables give, whatever the
\* author saves meanwhile; and the reports and every number of a section are
\* what the tables packed with it give, unless a table of the package is
\* replaced while it is assembled (section.py:895 calculates, 1107 copies).
PackageAgrees == cmd.at = "prepared" => \A p \in package : p.results \in Results(SectionInputs[p.input], p.sources)
NumbersAgree ==
  \A s \in Assembled :
    /\ s.results \in Results(SectionInputs[s.input], s.sources)
    /\ s.values \in Values(SectionInputs[s.input], DOMAIN s.values, s.sources, s.results)
SectionAgrees == PackageAgrees /\ NumbersAgree

\* The records a number is said to rest on are enough to check it: with them
\* as they are, no other measured cell changes it, its unit or its records, only
\* make the code refuse (table_evidence.py:976-980).  The weights and
\* contributions of a partition also rest on its total area, and are not covered.
OfTheWhole == {"reference_weight", "comparison_weight", "contribution"}
RestsOnTheWhole(input, ref) ==
  \/ ref.field \in OfTheWhole
  \/ ref.id \in DOMAIN input.comparisons
       /\ {input.comparisons[ref.id].reference.field, input.comparisons[ref.id].comparison.field} \cap OfTheWhole # {}
CitedRecordsSuffice ==
  \A s \in Assembled : LET input == SectionInputs[s.input] IN
    \A id \in DOMAIN s.values :
      Cites(input, id) /\ ~RestsOnTheWhole(input, input.evidence[id].ref) =>
        \A cell \in NumberCells(input, s.sources) :
          <<cell[1], cell[2]>> \notin s.values[id].cites =>
            LET raised == Raised(s.sources, cell) IN
            \A reports \in Results(input, raised) :
              Metric(input.evidence[id], raised, reports) = Metric(input.evidence[id], s.sources, s.results)

\* No number depends on whether temperatures are recorded in Celsius or in
\* Kelvin, but a temperature itself, which is 273 higher; ratios and relative
\* changes are of rises over a declared origin (PairedResult,
\* table_evidence.py:531-548, 607-660).
OriginIndependent ==
  \A s \in Assembled :
    LET sources == SourcesInKelvin(SectionInputs[s.input], s.sources)
        input == InputInKelvin(SectionInputs[s.input])
    IN \A id \in DOMAIN s.values : Cites(SectionInputs[s.input], id) /\ ~TiedToCelsius(SectionInputs[s.input], id, s.values[id]) =>
         LET x == s.values[id] IN
         \E reports \in Results(input, sources) : \E y \in Metric(input.evidence[id], sources, reports) :
           IF x.unit = "degC" THEN y.unit = "K" /\ y.raw = Plus(x.raw, Int2Q(273))
           ELSE y.unit = x.unit /\ y.raw = x.raw
\* What is divided adds up: the shares of a partition to one, the regions of a
\* complete partition to the whole, the contributions of its regions to the
\* change of the mean.
AddsUp(report) ==
  LET parts == DOMAIN report.groups \ {"all"}
      Sum(field) == FoldLeft(LAMBDA total, id : Plus(total,
                      CHOOSE q \in UNION {r[field] : r \in report.groups[id].result} : TRUE), Zero, SetToSeq(parts))
      All(field) == CHOOSE q \in UNION {r[field] : r \in report.groups["all"].result} : TRUE
      computed == \A g \in DOMAIN report.groups : report.groups[g].result # {}
  IN CASE report.d.op = "partition" ->
            \A g \in DOMAIN report.groups : LET parted == report.groups[g].parts IN
              "shares" \in DOMAIN parted /\ parted.shares # << >> => Total(parted.shares) = Int2Q(1)
       [] report.d.op = "field_integral" /\ report.d.complete /\ computed ->
            Sum("net") = All("net")
       [] report.d.op = "partition_change" -> Sum("contribution") = All("difference_mean")
       [] OTHER -> TRUE
PartsMakeTheWhole ==
  \A s \in Assembled : \A id \in DOMAIN s.results : AddsUp(s.results[id])
PhysicallySound == OriginIndependent /\ PartsMakeTheWhole
===============================================================================
