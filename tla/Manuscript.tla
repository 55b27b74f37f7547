----------------------------- MODULE Manuscript -----------------------------
(***************************************************************************)
(* The manuscript (publication/section.py, manuscript.py,                  *)
(* manuscript_changes.py, manuscript_refresh.py, manuscript_review.py,     *)
(* manuscript_revision.py, research_revision.py).  A manuscript is a       *)
(* directory: section inputs with their sources and evidence, the drafts   *)
(* of the host, and, once assembled, the text the reader sees.  The host   *)
(* edits inputs and drafts in place; every operation of the program reads  *)
(* one directory and writes a fresh one, or refuses.                       *)
(*                                                                         *)
(* A file is the version of its content.  A section has one paragraph.     *)
(* Its value tokens are names of evidence: the section's own, computed     *)
(* from its source by its definitions, or a name bound to the evidence of  *)
(* another section.  What a value shows depends on the computed result and *)
(* on how this build of the program formats it.                            *)
(***************************************************************************)
EXTENDS Naturals, Sequences, FiniteSets, SequencesExt

CONSTANTS
  Spine,      \* the sections, in the order of publication
  Names,      \* names of evidence
  Local,      \* section -> the evidence of its own input
  Required,   \* section -> the evidence its paragraph has to use
  FirstBind,  \* section -> its first bindings
  FirstDepends,  \* section -> its first declared dependencies
  Refs,       \* the literature, in the order of a section's citations
  MaxEdits,   \* bound on the edits of the host
  MaxRuns,    \* bound on the assemblies
  None

VARIABLES
  work,      \* the directory the host works in
  build,     \* how this build of the program formats a value
  prior,     \* what the assembly before the last one showed
  changes,   \* the report of the last assembly
  package,   \* the review package
  task,      \* the revision task made from it
  spent      \* edits and assemblies so far

vars == <<work, build, prior, changes, package, task, spent>>

Sections == ToSet(Spine)
\* A section that stands twice in the spine is refused (spine.py:38), and so is
\* a dependency on a section that is not there (manuscript.py:198).
ASSUME SpineAndDepends ==
  /\ Spine \in Seq(Sections) /\ IsInjective(Spine) /\ Refs \in Seq(ToSet(Refs))
  /\ FirstDepends \in [Sections -> SUBSET Sections]
Sources == [s \in Sections |-> {<<s, id>> : id \in Local[s]}]
Owned == UNION {Sources[s] : s \in Sections}
Empty == [x \in {} |-> None]
With(f, x, v) == [y \in DOMAIN f \cup {x} |-> IF y = x THEN v ELSE f[y]]
Without(f, x) == [y \in DOMAIN f \ {x} |-> f[y]]
Pairs(f) == {<<x, f[x]>> : x \in DOMAIN f}

-----------------------------------------------------------------------------
(* Section inputs and their evidence (section.py).                         *)

\* A computed result: whose it is, and the source and definitions it follows.
Raw(w, target) == <<target, w.source[target[1]], w.define[target[1]]>>
Shown(w, target) == [raw |-> Raw(w, target), format |-> build]

\* Plausible fault: evidence copied from an earlier binding stays in the input.
EvidenceWithCopies(w, s) ==
  [id \in Local[s] \cup DOMAIN w.bind[s] \cup DOMAIN w.copies[s] |->
     IF id \in DOMAIN w.copies[s] THEN w.copies[s][id]
     ELSE IF id \in DOMAIN w.bind[s] THEN Shown(w, w.bind[s][id]) ELSE Shown(w, <<s, id>>)]

\* The evidence of a section: what an earlier assembly copied into its input
\* for a binding goes, the bindings of today come.
Evidence(w, s) ==
  LET own == (Local[s] \cup DOMAIN w.copies[s]) \ (w.bound[s] \cup DOMAIN w.bind[s])
  IN  [id \in own \cup DOMAIN w.bind[s] |->
         IF id \in DOMAIN w.bind[s] THEN Shown(w, w.bind[s][id])
         ELSE IF id \in Local[s] THEN Shown(w, <<s, id>>) ELSE w.copies[s][id]]

Owners(w, s) == {w.bind[s][id][1] : id \in DOMAIN w.bind[s]}
Links(w, s) == w.depends[s] \cup Owners(w, s)

\* The sections s depends on, directly or not.
Reaches(w, s) ==
  FoldLeft(LAMBDA seen, i : seen \cup UNION {Links(w, t) : t \in seen}, Links(w, s), Spine)

\* A binding names evidence that its owner declares itself, and replaces none
\* that the author declared here; sections do not depend on themselves.
BindingsFit(w) ==
  \A s \in Sections :
    /\ s \notin Reaches(w, s)
    /\ \A id \in DOMAIN w.bind[s] :
         /\ w.bind[s][id] \in Owned \ Sources[s]
         /\ w.bind[s][id][2] \notin DOMAIN w.bind[w.bind[s][id][1]]
         /\ id \in Local[s] => id \in w.bound[s]

\* Required claims belong to the section.
InputsFit(w) == BindingsFit(w) /\ \A s \in Sections : Required[s] \subseteq DOMAIN Evidence(w, s)

-----------------------------------------------------------------------------
(* Numbering (manuscript.py).                                              *)

Before(w, s) == {t \in Sections : \E i, j \in DOMAIN w.order :
                   i < j /\ w.order[i] = t /\ w.order[j] = s}
Total(w, S) ==
  LET sum[i \in 0..Len(Spine)] ==
        IF i = 0 THEN 0 ELSE sum[i - 1] + (IF Spine[i] \in S THEN w.figures[Spine[i]] ELSE 0)
  IN  sum[Len(Spine)]

\* Plausible fault: figures are numbered in the order the sections are listed
\* in, not in the order of publication.
ListedNumber(w, s, k) == k + Total(w, {t \in Sections : \E i, j \in DOMAIN Spine :
                                         i < j /\ Spine[i] = t /\ Spine[j] = s})

\* Figure k of section s, counted over the whole manuscript.
FigureNumber(w, s, k) == k + Total(w, Before(w, s))

\* The references, each source once, in the order of their first citation.
WithCites(w, list, s) ==
  LET next[j \in 0..Len(Refs)] ==
        IF j = 0 THEN list
        ELSE IF Refs[j] \in w.cites[s] \ ToSet(next[j - 1]) THEN Append(next[j - 1], Refs[j])
        ELSE next[j - 1]
  IN  next[Len(Refs)]
References(w) ==
  LET list[i \in 0..Len(w.order)] ==
        IF i = 0 THEN <<>> ELSE WithCites(w, list[i - 1], w.order[i])
  IN  list[Len(w.order)]
CiteNumber(w, r) == CHOOSE n \in DOMAIN References(w) : References(w)[n] = r

\* Two sections describe a source they both cite in the same way.
MetadataAgree(w) ==
  \A s, t \in Sections : \A r \in w.cites[s] \cap w.cites[t] : w.meta[s][r] = w.meta[t][r]

-----------------------------------------------------------------------------
(* Assembly (assemble_section, assemble_manuscript).                       *)

\* Every token is declared, every required claim used, every object there.
DraftFits(w, s) ==
  /\ w.shows[s] \subseteq DOMAIN Evidence(w, s)
  /\ Required[s] \subseteq w.shows[s]
  /\ \A t \in w.refers[s] : w.figures[t] > 0

Assembles(w) ==
  /\ w.drafted = Sections /\ InputsFit(w) /\ MetadataAgree(w)
  /\ \A s \in Sections : DraftFits(w, s)

\* What the reader sees of a section.
Text(w, s) ==
  [words |-> w.words[s], terms |-> w.terms, image |-> w.image[s],
   values |-> {<<id, Evidence(w, s)[id]>> : id \in w.shows[s]}]
Labels(w, s) ==
  [figures |-> {FigureNumber(w, s, k) : k \in 1..w.figures[s]},
   refers |-> {<<t, FigureNumber(w, t, 1)>> : t \in w.refers[s]},
   cites |-> {<<r, CiteNumber(w, r)>> : r \in w.cites[s]}]

View(w) == [order |-> w.order, text |-> [s \in Sections |-> Text(w, s)],
            labels |-> [s \in Sections |-> Labels(w, s)],
            references |-> References(w)]

\* The writing state that the next assembly compares with.
WritingState(w) ==
  [terms |-> w.terms,
   sections |-> [s \in Sections |->
     [input |-> <<w.define[s], w.figures[s]>>,
      evidence |-> Evidence(w, s),
      sources |-> w.source[s],
      literature |-> [r \in w.cites[s] |-> w.meta[s][r]],
      draft |-> <<w.words[s], w.shows[s], w.cites[s], w.refers[s]>>,
      bind |-> w.bind[s],
      depends |-> w.depends[s]]]]

-----------------------------------------------------------------------------
(* The change report (compare_manuscript_states, _change_report).          *)

Differs(f, g) ==
  {x \in DOMAIN f \cup DOMAIN g : x \in DOMAIN f \cap DOMAIN g => f[x] # g[x]}

Broad(old, new) ==
  {s \in Sections : \/ old.sections[s].sources # new.sections[s].sources
                   \/ old.sections[s].input # new.sections[s].input}

\* Names of evidence that are not what they were.
Changed(old, new, s) ==
  LET o == old.sections[s]
      n == new.sections[s]
  IN  Differs(o.evidence, n.evidence) \cup Differs(o.bind, n.bind)

Touched(old, new) ==
  {s \in Sections :
     \/ old.terms # new.terms
     \/ s \in Broad(old, new) \/ Changed(old, new, s) # {}
     \/ Differs(old.sections[s].literature, new.sections[s].literature) # {}
     \/ old.sections[s].draft # new.sections[s].draft
     \/ old.sections[s].depends # new.sections[s].depends}

\* Plausible fault: only the dependencies of today are followed, one step.
FollowOnce(old, new, x) ==
  [x EXCEPT !.affected = @ \cup {s \in Sections :
     new.sections[s].depends \cap Broad(old, new) # {}}]

\* One round over the bindings and the declared dependencies, old and new.
Follow(old, new, x) ==
  LET links(s) == Pairs(old.sections[s].bind) \cup Pairs(new.sections[s].bind)
      hit == {h \in UNION {{s} \X links(s) : s \in Sections} :
                h[2][2][1] \in Broad(old, new) \/ h[2][2] \in x.evidence}
      leans(s) == old.sections[s].depends \cup new.sections[s].depends
  IN  [evidence |-> x.evidence \cup {<<h[1], h[2][1]>> : h \in hit},
       affected |-> x.affected \cup {h[1] : h \in hit}
                      \cup {s \in Sections : leans(s) \cap (x.affected \cup Broad(old, new)) # {}}]

\* Round after round, until no round can add a section or a name.
Affected(old, new) ==
  LET round[i \in 0..(2 * Len(Spine))] ==
        IF i = 0
        THEN [affected |-> Touched(old, new),
              evidence |-> UNION {{<<s, id>> : id \in Changed(old, new, s)} : s \in Sections}]
        ELSE Follow(old, new, round[i - 1])
  IN  round[2 * Len(Spine)].affected

\* The paragraph is listed for review when its section changed as a whole, or
\* a name it uses did.
Listed(old, new, s) ==
  \/ old.terms # new.terms \/ s \in Broad(old, new)
  \/ old.sections[s].draft # new.sections[s].draft
  \/ old.sections[s].depends # new.sections[s].depends
  \/ \E t \in Affected(old, new) : t \in old.sections[s].depends \cup new.sections[s].depends
  \/ Changed(old, new, s) \cap new.sections[s].draft[2] # {}
  \/ Differs(old.sections[s].literature, new.sections[s].literature) # {}
  \/ \E l \in Pairs(old.sections[s].bind) \cup Pairs(new.sections[s].bind) :
       l[2][1] \in Broad(old, new) \/ l[2][2] \in Changed(old, new, l[2][1])

Report(old, new) ==
  IF old = None THEN None
  ELSE [unchanged |-> Sections \ Affected(old, new),
        passages |-> {s \in Affected(old, new) : Listed(old, new, s)}]

\* The directory an assembly writes: inputs with the bound evidence copied in
\* and the bindings they came from, drafts, state and text.
Assembled(w) ==
  [w EXCEPT !.copies = [s \in Sections |-> [id \in DOMAIN w.bind[s] |-> Evidence(w, s)[id]]],
            !.bound = [s \in Sections |-> DOMAIN w.bind[s]],
            !.stage = "candidate", !.state = WritingState(w), !.view = View(w)]

-----------------------------------------------------------------------------
(* Edits of the host, in the directory.                                    *)

Edit(w) == /\ work' = w
           /\ spent' = [spent EXCEPT !.edits = @ + 1]
           /\ UNCHANGED <<build, prior, changes, package, task>>

EditSource(s) == Local[s] # {} /\ Edit([work EXCEPT !.source[s] = @ + 1])
Redefine(s) == Local[s] # {} /\ Edit([work EXCEPT !.define[s] = @ + 1])
ReplaceImage(s) == work.figures[s] > 0 /\ Edit([work EXCEPT !.image[s] = @ + 1])
AddFigure(s) == work.figures[s] < 2 /\ Edit([work EXCEPT !.figures[s] = @ + 1])
DropFigure(s) == work.figures[s] > 0 /\ Edit([work EXCEPT !.figures[s] = @ - 1])
Rewrite(s) == s \in work.drafted /\ Edit([work EXCEPT !.words[s] = @ + 1])
Show(s, id) == Edit([work EXCEPT !.shows[s] = IF id \in @ THEN @ \ {id} ELSE @ \cup {id}])
Cite(s, r) == Edit([work EXCEPT !.cites[s] = IF r \in @ THEN @ \ {r} ELSE @ \cup {r}])
Refer(s, t) == Edit([work EXCEPT !.refers[s] = IF t \in @ THEN @ \ {t} ELSE @ \cup {t}])
Bind(s, id, target) == /\ id \in DOMAIN work.bind[s] => work.bind[s][id] # target
                       /\ Edit([work EXCEPT !.bind[s] = With(@, id, target)])
Unbind(s, id) == id \in DOMAIN work.bind[s] /\ Edit([work EXCEPT !.bind[s] = Without(@, id)])
Depend(s, t) == Edit([work EXCEPT !.depends[s] = IF t \in @ THEN @ \ {t} ELSE @ \cup {t}])
EditMetadata(s, r) == r \in work.cites[s] /\ Edit([work EXCEPT !.meta[s][r] = @ + 1])
ChangeTerms == Edit([work EXCEPT !.terms = @ + 1])
Reorder == Edit([work EXCEPT !.order = Reverse(@)])

-----------------------------------------------------------------------------
(* Operations of the program.                                              *)

Run == /\ spent.runs < MaxRuns
       /\ spent' = [spent EXCEPT !.runs = @ + 1]

\* prepare_manuscript: the bound evidence is copied into each section's input.
PrepareManuscript ==
  /\ work.stage = "input" /\ InputsFit(work)
  /\ work' = [Assembled(work) EXCEPT !.stage = "package", !.state = None, !.view = None]
  /\ UNCHANGED <<build, prior, changes, package, task, spent>>

HostDrafts(s) ==
  /\ work.stage # "input" /\ s \notin work.drafted
  /\ work' = [work EXCEPT !.drafted = @ \cup {s}]
  /\ UNCHANGED <<build, prior, changes, package, task, spent>>

\* The program is upgraded: values are formatted in another way.
Upgrade ==
  /\ build = 0 /\ build' = 1
  /\ UNCHANGED <<work, prior, changes, package, task, spent>>

\* prepare_writing_context, which writes nothing: the section, its owners and
\* its dependencies, with the values of today and whichever drafts there are.
WritingContext(w, s) ==
  [values |-> [t \in {s} \cup Links(w, s) |-> Evidence(w, t)],
   missing |-> Links(w, s) \ w.drafted]

AssembleManuscript ==
  /\ work.stage # "input"
  /\ Run
  /\ Assembles(work)
  /\ work' = Assembled(work)
  /\ prior' = work.view
  /\ changes' = Report(work.state, WritingState(work))
  /\ UNCHANGED <<build, package, task>>

-----------------------------------------------------------------------------
(* Review, display refresh and revision.                                   *)

\* assert_manuscript_current: an assembly of the directory gives what is in it.
Current(w) ==
  w.stage = "candidate" /\ Assembles(w) /\ WritingState(w) = w.state /\ View(w) = w.view

\* prepare_manuscript_review, and the readable report that comes back.
PrepareReview ==
  /\ package = None /\ Current(work)
  /\ package' = [of |-> work, returned |-> FALSE]
  /\ UNCHANGED <<work, build, prior, changes, task, spent>>

ImportReview ==
  /\ package # None /\ ~ package.returned
  /\ package' = [package EXCEPT !.returned = TRUE]
  /\ UNCHANGED <<work, build, prior, changes, task, spent>>

\* Everything but the display of computed values, own or bound.
Undisplayed(f) == [id \in DOMAIN f |-> f[id].raw]
AuthoringState(state) ==
  [state EXCEPT !.sections = [s \in Sections |->
     [state.sections[s] EXCEPT !.evidence = Undisplayed(@)]]]

\* Plausible fault: a refresh trusts the images that are in the directory.
RefreshesText(w) ==
  /\ w.stage = "candidate" /\ Assembles(w)
  /\ AuthoringState(WritingState(w)) = AuthoringState(w.state)
  /\ View(w).labels = w.view.labels

\* refresh_manuscript_display accepts a directory whose authoring material, raw
\* results, numbers and images are those it was assembled from.
Refreshes(w) ==
  /\ w.stage = "candidate" /\ Assembles(w)
  /\ AuthoringState(WritingState(w)) = AuthoringState(w.state)
  /\ View(w).labels = w.view.labels
  /\ \A s \in Sections : w.image[s] = w.view.text[s].image

RefreshDisplay ==
  /\ Run
  /\ Refreshes(work)
  /\ work' = Assembled(work)
  /\ prior' = work.view
  /\ changes' = Report(work.state, WritingState(work))
  /\ UNCHANGED <<build, package, task>>

\* prepare_manuscript_revision: the accepted actions quote the reviewed text;
\* the working copy is the reviewed one, or that with its display refreshed.
PrepareRevision(refresh) ==
  /\ package # None /\ package.returned /\ task = None
  /\ IF refresh THEN Refreshes(package.of) ELSE Current(package.of)
  /\ task' = [quote |-> package.of.view.text, refreshed |-> refresh,
              working |-> IF refresh THEN Assembled(package.of) ELSE package.of]
  /\ UNCHANGED <<work, build, prior, changes, package, spent>>

\* The host goes on in the revision task's working copy.
AdoptRevision ==
  /\ task # None /\ work # task.working
  /\ work' = task.working
  /\ prior' = None /\ changes' = None
  /\ UNCHANGED <<build, package, task, spent>>

\* The local name of evidence that a revision refers to as owner/id: its own
\* name, the binding that has it already, or a new binding of the same name.
Alias(w, s, target) ==
  LET bound == {id \in DOMAIN w.bind[s] : w.bind[s][id] = target}
  IN  IF target[1] = s THEN target[2]
      ELSE IF target[2] \in bound THEN target[2]
      ELSE IF Cardinality(bound) = 1 THEN CHOOSE id \in bound : TRUE
      ELSE IF bound = {} /\ target[2] \notin DOMAIN Evidence(w, s) \cup DOMAIN w.bind[s]
           THEN target[2] ELSE None

\* apply_research_revision: new words for a paragraph whose text is still the
\* one the proposal names, with the evidence it refers to.
ApplyRevision(s, before, target) ==
  LET id == Alias(work, s, target)
      bind == IF target[1] = s THEN work.bind[s] ELSE With(work.bind[s], id, target)
      next == [work EXCEPT !.words[s] = @ + 1, !.shows[s] = {id}, !.bind[s] = bind]
  IN  /\ before = work.words[s] /\ InputsFit(work)
      /\ id # None /\ InputsFit(next) /\ DraftFits(next, s)
      /\ Edit(next)

-----------------------------------------------------------------------------
Init ==
  /\ work = [stage |-> "input", order |-> Spine, terms |-> 0,
             source |-> [s \in Sections |-> 0], define |-> [s \in Sections |-> 0],
             bind |-> FirstBind, bound |-> [s \in Sections |-> {}],
             copies |-> [s \in Sections |-> Empty],
             depends |-> FirstDepends,
             drafted |-> {}, words |-> [s \in Sections |-> 0],
             shows |-> Required, cites |-> [s \in Sections |-> {}],
             refers |-> [s \in Sections |-> {}],
             figures |-> [s \in Sections |-> IF Local[s] # {} THEN 1 ELSE 0],
             image |-> [s \in Sections |-> 0],
             meta |-> [s \in Sections |-> [r \in ToSet(Refs) |-> 0]],
             state |-> None, view |-> None]
  /\ build = 0 /\ prior = None /\ changes = None
  /\ package = None /\ task = None
  /\ spent = [edits |-> 0, runs |-> 0]

HostEdits ==
  \/ \E s \in Sections :
       \/ EditSource(s) \/ Redefine(s) \/ ReplaceImage(s)
       \/ AddFigure(s) \/ DropFigure(s) \/ Rewrite(s)
       \/ \E id \in Names : Show(s, id) \/ Unbind(s, id) \/ \E o \in Owned : Bind(s, id, o)
       \/ \E t \in Sections \ {s} : Refer(s, t) \/ Depend(s, t)
       \/ \E r \in ToSet(Refs) : Cite(s, r) \/ EditMetadata(s, r)
       \/ \E v \in 0..MaxEdits, o \in Owned : ApplyRevision(s, v, o)
  \/ ChangeTerms
  \/ Reorder

Next ==
  \/ work.stage = "candidate" /\ spent.edits < MaxEdits /\ HostEdits
  \/ PrepareManuscript \/ Upgrade \/ AssembleManuscript \/ RefreshDisplay
  \/ PrepareReview \/ ImportReview \/ AdoptRevision
  \/ \E s \in Sections : HostDrafts(s)
  \/ \E refresh \in BOOLEAN : PrepareRevision(refresh)

Spec == Init /\ [][Next]_vars
-----------------------------------------------------------------------------
(* What a manuscript promises.                                             *)

TypeOK ==
  /\ work.stage \in {"input", "package", "candidate"}
  /\ work.stage = "candidate" <=> work.view # None
  /\ work.view = None <=> work.state = None
  /\ \A s \in Sections : work.bound[s] = DOMAIN work.copies[s]
  /\ package # None => package.of.stage = "candidate"

\* A value shows the result of the section that owns it, computed from the
\* source and the definitions that the same manuscript retains, and in one
\* manuscript all values are formatted alike; no section keeps a number of an
\* earlier assembly or of a binding that is gone.  So does a writing context.
ValuesFollowOwner ==
  /\ work.view # None =>
       \A s \in Sections : \A v \in work.view.text[s].values :
         LET state == work.state.sections
             target == IF v[1] \in DOMAIN state[s].bind THEN state[s].bind[v[1]] ELSE <<s, v[1]>>
             owner == state[target[1]]
         IN  /\ v[2].raw = <<target, owner.sources, owner.input[1]>>
             /\ \A t \in Sections : \A x \in work.view.text[t].values : x[2].format = v[2].format
  /\ work.stage # "input" /\ InputsFit(work) =>
       \A s \in Sections : \A id \in DOMAIN work.bind[s] :
         LET shown == WritingContext(work, s).values
             o == work.bind[s][id]
         IN  shown[s][id] = shown[o[1]][o[2]]

\* Figures are numbered through in the order of publication; whoever refers to
\* a figure of another section has its number; a source has one number in all
\* sections, and sources are numbered as they are first cited.
NumbersAreConsistent ==
  work.view # None =>
    LET view == work.view
        label == view.labels
        at(s) == CHOOSE i \in DOMAIN view.order : view.order[i] = s
    IN  /\ UNION {label[s].figures : s \in Sections}
             = 1..Total([figures |-> [s \in Sections |-> Cardinality(label[s].figures)]], Sections)
        /\ \A s, t \in Sections : at(s) < at(t) =>
             \A m \in label[s].figures, n \in label[t].figures : m < n
        /\ \A s \in Sections : \A r \in label[s].refers : r[2] \in label[r[1]].figures
        /\ \A s \in Sections : \A c \in label[s].cites :
             /\ view.references[c[2]] = c[1]
             /\ \A n \in 1..(c[2] - 1) : \E t \in Sections :
                  /\ at(t) <= at(s)
                  /\ <<view.references[n], n>> \in label[t].cites
        /\ IsInjective(view.references)

\* A section the report calls unchanged reads as before, and so does every
\* section it was declared to depend on, directly or not; a paragraph that is
\* not listed for review reads as before.
Reading(view, s) == [view.text[s] EXCEPT !.image = 0]
DeclaredFrom(state, s) ==
  LET seen[i \in 0..Len(Spine)] ==
        IF i = 0 THEN {s}
        ELSE seen[i - 1] \cup (UNION {state.sections[t].depends : t \in seen[i - 1]})
  IN  seen[Len(Spine)]

UnchangedIsUnchanged ==
  changes # None /\ prior # None /\ work.view # None =>
    /\ \A s \in changes.unchanged : \A t \in DeclaredFrom(work.state, s) :
         Reading(work.view, t) = Reading(prior, t)
    /\ \A s \in Sections \ changes.passages : Reading(work.view, s) = Reading(prior, s)

\* What the reviewer reads is what the inputs in the package give; the revision
\* starts from the text the report quotes, whatever happened meanwhile.
ReviewIsReproducible ==
  /\ package # None =>
       \A s \in Sections :
         /\ package.of.view.text[s].words = package.of.words[s]
         /\ package.of.view.text[s].image = package.of.image[s]
         /\ \A v \in package.of.view.text[s].values : v[2].raw = Raw(package.of, v[2].raw[1])
  /\ task # None =>
       \A s \in Sections :
         LET now == task.working.view.text[s]
             quote == task.quote[s]
         IN  /\ now.words = quote.words /\ now.image = quote.image
             /\ {<<v[1], v[2].raw>> : v \in now.values} = {<<v[1], v[2].raw>> : v \in quote.values}
             /\ now = quote \/ task.refreshed

\* What the program tells host, reviewer and reviser of a manuscript is so.
ReportsAreTrue == UnchangedIsUnchanged /\ ReviewIsReproducible

\* A display refresh changes how values are written and nothing else.
RefreshKeepsMeaning ==
  [][RefreshDisplay =>
       /\ work'.view.labels = work.view.labels
       /\ \A s \in Sections :
            /\ work'.view.text[s].words = work.view.text[s].words
            /\ work'.view.text[s].image = work.view.text[s].image
            /\ {<<v[1], v[2].raw>> : v \in work'.view.text[s].values}
                 = {<<v[1], v[2].raw>> : v \in work.view.text[s].values}]_vars
=============================================================================
