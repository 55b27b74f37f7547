-------------------------- MODULE ResearchWorkspace --------------------------
(***************************************************************************)
(* The research workspace (publication/research_workspace.py,              *)
(* figure_recipes.py).  A workspace holds a study, the evidence declared   *)
(* from it, optional diagnostics, the author's own evidence and bindings,  *)
(* figure scripts and the figures they drew, and the observations the host *)
(* noted after viewing a figure.  A build copies a workspace, refreshes    *)
(* what follows from study and diagnostics, runs the figure recipes that   *)
(* changed against a baseline build, assembles the manuscript and keeps    *)
(* the refreshed workspace for the next round.                             *)
(*                                                                         *)
(* A file is the version of its content; a figure is the script, arguments *)
(* and inputs it was drawn from.                                           *)
(***************************************************************************)
EXTENDS Naturals, Sequences, FiniteSets, SequencesExt

CONSTANTS
  Calcs,       \* the diagnostic calculations a configuration may declare
  Policies,    \* where the host goes on: "copy", "inplace" or "stays"
  MaxEdits, MaxBuilds,   \* bounds on edits of the host and on builds
  None

VARIABLES
  ws,        \* the workspace the host works in
  build,     \* the last build
  baseline,  \* the build it was compared with
  place,     \* where the host works: a copy, in the build itself, elsewhere
  spent

vars == <<ws, build, baseline, place, spent>>

Recipes == {"surface", "diagnostics"}
Figures == Recipes \cup {"imported"}

(* A diagnostic has a name of its own: a calculation that is there already  *)
(* is refused (attach_research_diagnostics), and evidence is named after    *)
(* its calculation.  A name of the author's that repeats one is replaced.   *)
Declarable == {"mean", "t1", "t2", "e1", "e2"}
ASSUME NamesDiffer ==
  Calcs \cap (Declarable \cup {"own", "alias", "surface", "params", "none"}) = {}

(* What the values are; ids is a parameter to keep TLC from listing them.   *)
Ids == Declarable \cup {"own"} \cup Calcs
Study == [aim : {0, 1}, two : BOOLEAN]
Evidences(ids) == UNION {[S -> [calc : {"surface", "params", "none"} \cup Calcs, places : {1, 3}]] :
                      S \in SUBSET ids}
Bindings(ids) == UNION {[S -> ids] : S \in SUBSET (ids \cup {"alias"})}
Image == (Nat \X (Nat \X Study \X Nat \X Nat)) \cup (Nat \X (Nat \X (SUBSET Calcs) \X Nat))
           \cup ({"art"} \X Nat)
Writing(ids) == [source : Nat \X Nat \X BOOLEAN, evidence : Evidences(ids), bind : Bindings(ids)]
Definition == [study : Study, text : Nat, calcs : (SUBSET Calcs) \cup {None}]
Workspace(ids) ==
  [study : Study, text : Nat, data : Nat, calcs : (SUBSET Calcs) \cup {None},
   managed : SUBSET Calcs, evidence : Evidences(ids), bind : Bindings(ids),
   uses : SUBSET (ids \cup {"alias"}), script : [Recipes -> 0..2], args : [Recipes -> Nat],
   image : [Figures -> Image \cup {None}], viewed : [Figures -> BOOLEAN],
   seen : [Figures -> Image \cup {None}], lost : SUBSET Recipes, late : SUBSET Figures,
   art : Seq(Nat), state : Writing(ids) \cup {None}]
BuildResult(ids) ==
  [ws : Workspace(ids), state : Writing(ids), run : SUBSET Recipes,
   inputs : UNION {[S -> (Nat \X Study \X Nat \X Nat) \cup (Nat \X (SUBSET Calcs) \X Nat)] :
                     S \in SUBSET Recipes},
   snapshot : Definition, context : [Figures -> (Image \cup {None}) \X BOOLEAN],
   review : BOOLEAN]
ASSUME NoneIsNew ==
  /\ None \notin Image /\ None \notin Writing(Ids) /\ None \notin Definition
  /\ None \notin Workspace(Ids) /\ None \notin BuildResult(Ids)
  /\ \A S \in SUBSET Calcs : S # None

Merge(f, g) == [x \in DOMAIN f \cup DOMAIN g |-> IF x \in DOMAIN g THEN g[x] ELSE f[x]]
Drop(f, S) == [x \in DOMAIN f \ S |-> f[x]]

-----------------------------------------------------------------------------
(* Declared evidence.  An item has the calculation it shows a field of (or  *)
(* "params" for a declared threshold) and the places it is rounded to.     *)

Item(calc) == [calc |-> calc, places |-> 3]
IsSurface(item) == item.calc \in {"surface", "params"}

\* _declarations: a mean, and a threshold and an exceedance for each threshold.
Declared(study) ==
  LET thresholds == IF study.two THEN {"t1", "t2"} ELSE {"t1"}
      exceedances == IF study.two THEN {"e1", "e2"} ELSE {"e1"}
  IN  [id \in {"mean"} \cup thresholds \cup exceedances |->
         IF id \in thresholds THEN Item("params") ELSE Item("surface")]

\* _diagnostic_evidence.
DiagnosticEvidence(calcs) == [c \in calcs |-> Item(c)]

\* Plausible fault: the declared rounding comes back.
RetainNothing(new, old) == new

\* _retain_display_precision: the author's rounding of the same quantity stays;
\* a declared threshold has none to keep.
RetainPlaces(new, old) ==
  [id \in DOMAIN new |->
     IF new[id].calc # "params" /\ id \in DOMAIN old /\ old[id].calc = new[id].calc
     THEN old[id] ELSE new[id]]

\* Plausible fault: what the configuration no longer declares stays.
SyncWithoutRetiring(w) ==
  IF w.calcs = None THEN w
  ELSE LET new == RetainPlaces(DiagnosticEvidence(w.calcs), w.evidence)
       IN  [w EXCEPT !.evidence = Merge(@, new),
                     !.bind = Merge(@, [id \in DOMAIN new |-> id]),
                     !.managed = DOMAIN new]

\* _sync_diagnostics: what the configuration declared before goes, with the
\* bindings made for it; what it declares now comes, with bindings.
SyncDiagnostics(w) ==
  IF w.calcs = None THEN w
  ELSE LET new == RetainPlaces(DiagnosticEvidence(w.calcs), w.evidence)
           gone == {id \in w.managed \ DOMAIN new : id \in DOMAIN w.bind /\ w.bind[id] = id}
       IN  [w EXCEPT !.evidence = Merge(Drop(@, w.managed), new),
                     !.bind = Merge(Drop(@, gone), [id \in DOMAIN new |-> id]),
                     !.managed = DOMAIN new]

\* _sync_definitions: evidence that shows a surface calculation or a declared
\* threshold is replaced by what the study declares now.
SyncDefinitions(w) ==
  LET previous == {id \in DOMAIN w.evidence : IsSurface(w.evidence[id])}
      new == RetainPlaces(Declared(w.study), w.evidence)
      own == {id \in DOMAIN w.bind : id \in previous /\ w.bind[id] = id}
  IN  [w EXCEPT !.evidence = Merge(Drop(@, previous), new),
                !.bind = Merge(Drop(@, own), [id \in DOMAIN new |-> id])]

-----------------------------------------------------------------------------
(* Figure recipes (execute_figure_recipes).                                *)

Registered(w) == IF w.calcs = None THEN {"surface"} ELSE Recipes

\* The registered inputs of a recipe, its script included.
Inputs(w, r) ==
  IF r = "surface" THEN <<w.script[r], w.study, w.text, w.data>>
  ELSE <<w.script[r], w.calcs, w.data>>

Drawing(w, r) == <<w.args[r], Inputs(w, r)>>

\* Plausible fault: the files of the baseline's workspace are what counts,
\* though the host may have edited them since.
ChangedFiles(w, r, old, saved) ==
  \/ r \notin Registered(old) \/ old.args[r] # w.args[r]
  \/ Inputs(old, r) # Inputs(w, r)
  \/ w.image[r] = None

\* A recipe runs when its definition is not the baseline's, when its inputs are
\* not the saved ones (or those of the baseline, when none were saved), or when
\* an output is missing.
ChangedRecipe(w, r, old, saved) ==
  \/ r \notin Registered(old) \/ old.args[r] # w.args[r]
  \/ r \in DOMAIN saved /\ saved[r] # Inputs(w, r)
  \/ r \notin DOMAIN saved /\ Inputs(old, r) # Inputs(w, r)
  \/ w.image[r] = None

\* The recipes that run; without a baseline all do.
Executed(w, old, saved) ==
  {r \in Registered(w) : old = None \/ ChangedRecipe(w, r, old, saved)}

\* The old outputs are removed first, so a script that draws nothing fails.
ScriptsDraw(w, S) == \A r \in S : w.script[r] # 2

Drawn(w, S) == [w EXCEPT !.image = [f \in Figures |-> IF f \in S THEN Drawing(w, f) ELSE @[f]]]

\* Plausible fault: a note stays with the name of the figure.
KeepObservations(w, before) == w

\* _invalidate_changed_figure_observations: a note goes when the image it was
\* made of changed during the build.
InvalidateObservations(w, before) ==
  [w EXCEPT !.viewed = [f \in Figures |->
     @[f] /\ (before[f] = None \/ before[f] = w.image[f])]]

-----------------------------------------------------------------------------
(* A build (build_research_workspace).                                     *)

\* What the manuscript's writing state keeps of the results and their use; the
\* question and the title of the study are not in it.
WritingState(w) ==
  [source |-> <<w.data, w.text, w.study.two>>, evidence |-> w.evidence, bind |-> w.bind]

\* _definition_changes: the snapshot in refresh.json goes before the files.
OldDefinitions(old, snapshot) ==
  IF snapshot = None THEN [study |-> old.study, text |-> old.text, calcs |-> old.calcs]
  ELSE snapshot
Definitions(w) == [study |-> w.study, text |-> w.text, calcs |-> w.calcs]
DefinitionChanged(w, old, snapshot) == old # None /\ OldDefinitions(old, snapshot) # Definitions(w)

\* Every name the drafts use is bound to evidence that is there.
Assembles(w) ==
  /\ w.uses \subseteq DOMAIN w.bind
  /\ \A id \in DOMAIN w.bind : w.bind[id] \in DOMAIN w.evidence

\* The notes an author's return carries for an image that was replaced since.
LateNotes(w, candidate) ==
  candidate.late \cup {f \in Figures : candidate.viewed[f] /\ candidate.image[f] # w.image[f]}

\* _apply_author_candidate: drafts, with the notes they carry, come from it.
Authored(w, candidate) ==
  IF candidate = None THEN w
  ELSE [w EXCEPT !.uses = candidate.uses, !.viewed = candidate.viewed, !.seen = candidate.seen,
                 !.late = LateNotes(w, candidate)]

\* _host_context: the reading of the figures for the next host.
HostContext(w) == [f \in Figures |-> <<w.image[f], w.viewed[f]>>]

\* A build of w against the build base, whose workspace is now old.
BuildOf(w, base, old, candidate) ==
  LET synced == SyncDefinitions(SyncDiagnostics(Authored(w, candidate)))
      from == IF base = None THEN None ELSE old
      saved == IF base = None THEN [r \in {} |-> 0] ELSE base.inputs
      run == Executed(synced, from, saved)
      drawn == InvalidateObservations(Drawn(synced, run), synced.image)
      previous == IF base = None THEN w.state ELSE base.state
      state == WritingState(drawn)
  IN  IF ~ ScriptsDraw(synced, run) \/ ~ Assembles(drawn) THEN None
      ELSE [ws |-> [drawn EXCEPT !.state = state], state |-> state, run |-> run,
            inputs |-> [r \in Registered(drawn) |-> Inputs(drawn, r)],
            snapshot |-> Definitions(drawn), context |-> HostContext(drawn),
            review |-> \/ DefinitionChanged(drawn, from, IF base = None THEN None ELSE base.snapshot)
                       \/ previous # None /\ previous # state]

-----------------------------------------------------------------------------
(* Questions (research_question_context).                                  *)

Owner(w, id) == IF id \in DOMAIN w.bind THEN w.bind[id] ELSE id

\* The names under which the passages use the evidence that is asked about.
Passages(w, id) == {name \in w.uses : Owner(w, name) = Owner(w, id)}

-----------------------------------------------------------------------------
(* The host, and the operations that prepare a workspace.                  *)

Edit(w) == /\ ws' = w
           /\ spent' = [spent EXCEPT !.edits = @ + 1]
           /\ UNCHANGED <<build, baseline, place>>

EditStudy == Edit([ws EXCEPT !.study.aim = 1 - @])
ChangeThresholds == Edit([ws EXCEPT !.study.two = ~ @])
EditDefinition == Edit([ws EXCEPT !.text = @ + 1])
EditData == Edit([ws EXCEPT !.data = @ + 1])
EditScript(r) == r \in Registered(ws) /\ ws.script[r] < 2 /\ Edit([ws EXCEPT !.script[r] = @ + 1])
EditCalcs(S) == ws.calcs # None /\ S # ws.calcs /\ Edit([ws EXCEPT !.calcs = S])
Round(id) == id \in DOMAIN ws.evidence /\ Edit([ws EXCEPT !.evidence[id].places = 1])
DeleteOutputs(r) == ws.image[r] # None /\ Edit([ws EXCEPT !.image[r] = None, !.lost = @ \cup {r}])
Use(name) == Edit([ws EXCEPT !.uses = IF name \in @ THEN @ \ {name} ELSE @ \cup {name}])
View(f) == /\ ws.image[f] # None /\ ~ ws.viewed[f]
           /\ Edit([ws EXCEPT !.viewed[f] = TRUE, !.seen[f] = ws.image[f],
                              !.lost = @ \ {f}, !.late = @ \ {f}])

\* New arguments of a recipe; the registry must not be the baseline's own.
EditArgs(r) == place = "copy" /\ r \in Registered(ws) /\ Edit([ws EXCEPT !.args[r] = @ + 1])

\* The author's evidence, and an alias of it or of a mean.
OwnEvidence == /\ "own" \notin DOMAIN ws.evidence
               /\ Edit([ws EXCEPT !.evidence = Merge(@, [id \in {"own"} |-> Item("none")])])
Alias(id) == /\ "alias" \notin DOMAIN ws.bind /\ id \in DOMAIN ws.evidence
             /\ Edit([ws EXCEPT !.bind = Merge(@, [a \in {"alias"} |-> id])])

\* A fresh workspace is a copy, whatever the host worked in.
Fresh(w) == /\ ws' = w /\ place' = "copy"
            /\ spent' = [spent EXCEPT !.edits = @ + 1]
            /\ UNCHANGED <<build, baseline>>

\* attach_research_diagnostics.
AttachDiagnostics(S) ==
  /\ ws.calcs = None /\ S # {}
  /\ LET w == SyncDiagnostics([ws EXCEPT !.calcs = S, !.managed = S])
     IN  Fresh([w EXCEPT !.image["diagnostics"] = Drawing(w, "diagnostics"),
                         !.viewed["diagnostics"] = FALSE])

\* New artwork goes to a directory of its own beside the author's earlier one.
ArtBeside(w) == [w EXCEPT !.art = Append(@, Len(@) + 1)]

\* attach_imported_figure: the first time, or to replace what was attached.
AttachFigure(replace, seen) ==
  /\ replace <=> ws.image["imported"] # None
  /\ LET w == ArtBeside(ws)
         image == <<"art", w.art[Len(w.art)]>>
     IN  Fresh([w EXCEPT !.image["imported"] = image, !.viewed["imported"] = seen,
                         !.seen["imported"] = IF seen THEN image ELSE None,
                         !.late = @ \ {"imported"}])

Old == IF place = "inplace" THEN ws ELSE build.ws

Build(against, authored) ==
  LET base == IF against THEN build ELSE None
      result == BuildOf(ws, base, IF against THEN Old ELSE None,
                        IF authored THEN build.ws ELSE None)
  IN  /\ spent.builds < MaxBuilds
      /\ ~ (build = None /\ (against \/ authored))
      /\ result # None
      /\ build' = result /\ baseline' = base
      /\ \E p \in Policies :
           /\ place' = p
           /\ ws' = IF p = "stays" THEN ws ELSE result.ws
      /\ spent' = [spent EXCEPT !.builds = @ + 1]

\* prepare_surface_workspace: evidence, figures drawn, templates to fill.
Prepared ==
  LET evidence == Declared([aim |-> 0, two |-> FALSE])
      w == [study |-> [aim |-> 0, two |-> FALSE], text |-> 0, data |-> 0,
            calcs |-> None, managed |-> {}, evidence |-> evidence,
            bind |-> [id \in DOMAIN evidence |-> id], uses |-> {"mean"},
            script |-> [r \in Recipes |-> 0], args |-> [r \in Recipes |-> 0],
            image |-> [f \in Figures |-> None], viewed |-> [f \in Figures |-> FALSE],
            seen |-> [f \in Figures |-> None], lost |-> {}, late |-> {}, art |-> <<>>,
            state |-> None]
  IN  [w EXCEPT !.image["surface"] = Drawing(w, "surface")]

Init ==
  /\ ws = Prepared
  /\ build = None /\ baseline = None /\ place = "copy"
  /\ spent = [edits |-> 0, builds |-> 0]

HostEdits ==
  \/ EditStudy \/ ChangeThresholds \/ EditDefinition \/ EditData \/ OwnEvidence
  \/ \E r \in Recipes : EditScript(r) \/ EditArgs(r) \/ DeleteOutputs(r)
  \/ \E S \in SUBSET Calcs : EditCalcs(S) \/ AttachDiagnostics(S)
  \/ \E id \in {"mean", "t1", "own"} \cup Calcs : Round(id)
  \/ \E name \in {"e1", "alias"} \cup Calcs : Use(name)
  \/ \E id \in {"mean", "own"} : Alias(id)
  \/ \E f \in Figures : View(f)
  \/ \E replace \in BOOLEAN, seen \in BOOLEAN : AttachFigure(replace, seen)

Next ==
  \/ spent.edits < MaxEdits /\ HostEdits
  \/ \E against \in BOOLEAN, authored \in BOOLEAN : Build(against, authored)

Spec == Init /\ [][Next]_vars
-----------------------------------------------------------------------------
(* What a build promises.                                                  *)

\* A figure in a build is drawn by the script, the arguments and the sources
\* that the same build retains and computes its numbers from.
FiguresFollowSources ==
  build # None => \A r \in Registered(build.ws) : build.ws.image[r] = Drawing(build.ws, r)

NotesAreOf(figures) == \A f \in figures : build.ws.viewed[f] => build.ws.seen[f] = build.ws.image[f]

\* A figure marked as viewed is the image the host viewed, in the drafts and in
\* the context for the next host, unless the host had removed the image or the
\* note came back with an author's return after the image had been replaced.
ViewedIsCurrent ==
  build # None =>
    /\ NotesAreOf(Figures \ (build.ws.lost \cup build.ws.late))
    /\ \A f \in Figures : build.context[f] = <<build.ws.image[f], build.ws.viewed[f]>>

\* "A previous visual reading belongs to its image, not just its stable ID"
\* (_invalidate_changed_figure_observations), the notes an author's return
\* brings included.  A build does not keep to this: NoteStale.cfg.
ReturnedNotesAreCurrent == build # None => NotesAreOf(Figures \ build.ws.lost)

\* A build compared with another asks for a review of the interpretation when,
\* and only when, definitions, sources, evidence or bindings are not what that
\* build showed, whatever was done to its workspace since.
ReviewIsAsked ==
  build # None /\ baseline # None =>
    (build.review <=>
       \/ Definitions(build.ws) # Definitions(baseline.ws)
       \/ build.ws.data # baseline.ws.data
       \/ build.ws.evidence # baseline.ws.evidence
       \/ build.ws.bind # baseline.ws.bind)

\* The host is sent back to what changed: a figure to be viewed again, an
\* interpretation to be reviewed again.
HostIsTold == ViewedIsCurrent /\ ReviewIsAsked

\* The evidence in a build is what study and diagnostics declare and what the
\* author added; nothing that was declared once is left, and to build the
\* result again changes nothing and runs nothing.
BuildIsSettled ==
  build # None =>
    /\ DOMAIN build.ws.evidence \ {"own"} = DOMAIN Declared(build.ws.study)
         \cup (IF build.ws.calcs = None THEN {} ELSE build.ws.calcs)
    /\ LET again == BuildOf(build.ws, build, build.ws, None)
       IN  /\ again # None
           /\ again.ws = build.ws /\ again.run = {} /\ ~ again.review
    /\ \A id \in DOMAIN build.ws.evidence : \A name \in build.ws.uses :
         build.ws.bind[name] = Owner(build.ws, id) => name \in Passages(build.ws, id)

\* A build keeps the author's evidence, aliases, rounding of what is still
\* computed and artwork; nothing the host did replaces earlier artwork.
AuthorKept ==
  [][/\ IsPrefix(ws.art, ws'.art)
     /\ build' # build =>
          /\ "own" \in DOMAIN ws.evidence => build'.ws.evidence["own"] = ws.evidence["own"]
          /\ "alias" \in DOMAIN ws.bind => build'.ws.bind["alias"] = ws.bind["alias"]
          /\ \A id \in DOMAIN ws.evidence \cap DOMAIN build'.ws.evidence :
               ws.evidence[id].calc # "params" =>
                 build'.ws.evidence[id].places = ws.evidence[id].places]_vars
=============================================================================
