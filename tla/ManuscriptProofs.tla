--------------------------- MODULE ManuscriptProofs ---------------------------
(***************************************************************************)
(* Proofs about Manuscript for every set of sections, names and            *)
(* literature, and for every number of edits, upgrades and assemblies.     *)
(*                                                                         *)
(* What a directory shows is told by the writing state beside it: the      *)
(* invariant relates the two and says that no evidence copied for a        *)
(* binding has the name of a section's own.                                *)
(***************************************************************************)
EXTENDS Manuscript, FigureDelivery, SequenceTheorems, FiniteSetTheorems, WellFoundedInduction, TLAPS

Fields == {"stage", "order", "terms", "source", "define", "bind", "bound", "copies", "depends",
           "drafted", "words", "shows", "cites", "refers", "figures", "image", "meta", "state",
           "view"}
SectionFields == {"input", "evidence", "sources", "literature", "draft", "bind", "depends"}
TextFields == {"words", "terms", "image", "values"}

\* Whose evidence a name is.
Target(bind, s, id) == IF id \in DOMAIN bind THEN bind[id] ELSE <<s, id>>

\* The evidence of a section is what its owner computes.
Computed(state, s, id, format) ==
  LET x == state.sections[s]
      target == Target(x.bind, s, id)
      owner == state.sections[target[1]]
  IN  x.evidence[id].raw = <<target, owner.sources, owner.input[1]>> /\ x.evidence[id].format = format

\* What is shown is what the writing state has.
Tells(view, state) ==
  /\ DOMAIN state = {"terms", "sections"}
  /\ \A s \in Sections :
       /\ DOMAIN state.sections[s] = SectionFields
       /\ state.sections[s].depends \subseteq Sections
       /\ view.text[s] = [x \in TextFields |-> view.text[s][x]]
       /\ view.text[s].terms = state.terms
       /\ view.text[s].words = state.sections[s].draft[1]
       /\ view.text[s].values = {<<id, state.sections[s].evidence[id]>> : id \in state.sections[s].draft[2]}
       /\ state.sections[s].draft[2] \subseteq DOMAIN state.sections[s].evidence
  /\ \E format : \A s \in Sections : \A id \in state.sections[s].draft[2] :
       Computed(state, s, id, format)

Clean(w) == \A s \in Sections : w.bound[s] = DOMAIN w.copies[s] /\ w.bound[s] \cap Local[s] = {}

Coherent(w) ==
  /\ DOMAIN w = Fields /\ Clean(w) /\ w.depends \in [Sections -> SUBSET Sections]
  /\ w.stage # "candidate" => w.view = None
  /\ w.stage = "candidate" => Tells(w.view, w.state)

-----------------------------------------------------------------------------
(* Evidence.                                                               *)

\* Nothing that an earlier assembly copied is ever shown.
LEMMA EvidenceIsComputed ==
  ASSUME NEW w, Clean(w), NEW s \in Sections
  PROVE  /\ DOMAIN Evidence(w, s) = Local[s] \cup DOMAIN w.bind[s]
         /\ \A id \in DOMAIN Evidence(w, s) : Evidence(w, s)[id] = Shown(w, Target(w.bind[s], s, id))
<1> DEFINE bind == w.bind[s]
           own == (Local[s] \cup DOMAIN w.copies[s]) \ (w.bound[s] \cup DOMAIN bind)
<1>1. Evidence(w, s) = [id \in own \cup DOMAIN bind |->
         IF id \in DOMAIN bind THEN Shown(w, bind[id])
         ELSE IF id \in Local[s] THEN Shown(w, <<s, id>>) ELSE w.copies[s][id]]
  BY DEF Evidence
<1>2. own = Local[s] \ DOMAIN bind
  BY DEF Clean
<1> HIDE DEF own, bind
<1> QED
  BY <1>1, <1>2 DEF Target, bind

LEMMA OwnedHasOwner ==
  ASSUME NEW o \in Owned
  PROVE  o[1] \in Sections /\ o[2] \in Local[o[1]] /\ o = <<o[1], o[2]>>
<1>1. PICK s \in Sections : o \in Sources[s]
  BY DEF Owned
<1>2. PICK id \in Local[s] : o = <<s, id>>
  BY <1>1 DEF Sources
<1> QED
  BY <1>2

LEMMA BindingsAreOwned ==
  ASSUME NEW w, BindingsFit(w), NEW s \in Sections, NEW id \in DOMAIN w.bind[s]
  PROVE  /\ w.bind[s][id] \in Owned
         /\ w.bind[s][id][2] \notin DOMAIN w.bind[w.bind[s][id][1]]
         /\ id \in Local[s] => id \in w.bound[s]
  BY DEF BindingsFit

\* The target of a name has a section.
LEMMA TargetsHaveSections ==
  ASSUME NEW w, BindingsFit(w), NEW s \in Sections, NEW id
  PROVE  Target(w.bind[s], s, id)[1] \in Sections
<1>1. CASE id \in DOMAIN w.bind[s]
  BY <1>1, BindingsAreOwned, OwnedHasOwner DEF Target
<1>2. CASE id \notin DOMAIN w.bind[s]
  BY <1>2 DEF Target
<1> QED
  BY <1>1, <1>2

-----------------------------------------------------------------------------
(* Assembly.                                                               *)
LEMMA AssembledIs ==
  ASSUME NEW w, DOMAIN w = Fields
  PROVE  LET x == Assembled(w)
         IN  /\ DOMAIN x = Fields /\ x.stage = "candidate"
             /\ x.state = WritingState(w) /\ x.view = View(w)
             /\ x.bound = [s \in Sections |-> DOMAIN w.bind[s]]
             /\ x.copies = [s \in Sections |-> [id \in DOMAIN w.bind[s] |-> Evidence(w, s)[id]]]
             /\ x.bind = w.bind /\ x.source = w.source /\ x.define = w.define
             /\ x.depends = w.depends
<1> DEFINE copies == [s \in Sections |-> [id \in DOMAIN w.bind[s] |-> Evidence(w, s)[id]]]
           bound == [s \in Sections |-> DOMAIN w.bind[s]]
           state == WritingState(w)
           view == View(w)
           x == Assembled(w)
<1>1. x = [w EXCEPT !.copies = copies, !.bound = bound, !.stage = "candidate", !.state = state,
                    !.view = view]
  BY DEF Assembled
<1> HIDE DEF copies, bound, state, view, x
<1>2. /\ DOMAIN x = Fields /\ x.stage = "candidate" /\ x.state = state /\ x.view = view
      /\ x.bound = bound /\ x.copies = copies
      /\ x.bind = w.bind /\ x.source = w.source /\ x.define = w.define
      /\ x.depends = w.depends
  BY <1>1 DEF Fields
<1> QED
  BY <1>2 DEF copies, bound, state, view, x

LEMMA AssembledIsClean ==
  ASSUME NEW w, DOMAIN w = Fields, Clean(w), BindingsFit(w)
  PROVE  Clean(Assembled(w))
<1> DEFINE x == Assembled(w)
<1>1. /\ x.bound = [s \in Sections |-> DOMAIN w.bind[s]]
      /\ x.copies = [s \in Sections |-> [id \in DOMAIN w.bind[s] |-> Evidence(w, s)[id]]]
  BY AssembledIs
<1> HIDE DEF x
<1>2. ASSUME NEW s \in Sections
      PROVE  x.bound[s] = DOMAIN x.copies[s] /\ x.bound[s] \cap Local[s] = {}
  <2>1. x.bound[s] = DOMAIN w.bind[s] /\ DOMAIN x.copies[s] = DOMAIN w.bind[s]
    BY <1>1
  <2>2. \A id \in DOMAIN w.bind[s] : id \in Local[s] => id \in w.bound[s]
    BY BindingsAreOwned
  <2>3. w.bound[s] \cap Local[s] = {}
    BY DEF Clean
  <2> QED
    BY <2>1, <2>2, <2>3
<1> QED
  BY <1>2 DEF Clean, x

LEMMA StateIs ==
  ASSUME NEW w, NEW s \in Sections
  PROVE  LET state == WritingState(w)
         IN  /\ DOMAIN state = {"terms", "sections"} /\ DOMAIN state.sections[s] = SectionFields
             /\ state.sections[s].draft = <<w.words[s], w.shows[s], w.cites[s], w.refers[s]>>
             /\ state.sections[s].evidence = Evidence(w, s) /\ state.sections[s].bind = w.bind[s]
             /\ state.sections[s].sources = w.source[s]
             /\ state.sections[s].input = <<w.define[s], w.figures[s]>>
             /\ state.sections[s].depends = w.depends[s] /\ state.terms = w.terms
BY DEF WritingState, SectionFields

LEMMA ViewIs ==
  ASSUME NEW w, NEW s \in Sections
  PROVE  /\ View(w).text[s].words = w.words[s] /\ View(w).text[s].image = w.image[s]
         /\ View(w).text[s].values = {<<id, Evidence(w, s)[id]>> : id \in w.shows[s]}
BY DEF View, Text

LEMMA TextIs ==
  ASSUME NEW w, NEW s \in Sections
  PROVE  /\ View(w).text[s] = [x \in TextFields |-> View(w).text[s][x]]
         /\ View(w).text[s].terms = w.terms
BY DEF View, Text, TextFields

\* What an assembly shows is computed from what it retains.
LEMMA AssembledTells ==
  ASSUME NEW w, Clean(w), w.depends \in [Sections -> SUBSET Sections], Assembles(w)
  PROVE  Tells(View(w), WritingState(w))
<1> DEFINE state == WritingState(w)
           view == View(w)
<1>1. /\ BindingsFit(w) /\ \A s \in Sections : w.shows[s] \subseteq DOMAIN Evidence(w, s)
  BY DEF Assembles, InputsFit, DraftFits
<1>2. ASSUME NEW s \in Sections
      PROVE  /\ DOMAIN state.sections[s] = SectionFields
             /\ state.sections[s].draft[1] = w.words[s] /\ state.sections[s].draft[2] = w.shows[s]
             /\ state.sections[s].evidence = Evidence(w, s) /\ state.sections[s].bind = w.bind[s]
             /\ state.sections[s].sources = w.source[s]
             /\ state.sections[s].input[1] = w.define[s]
             /\ view.text[s].words = w.words[s]
             /\ view.text[s].values = {<<id, Evidence(w, s)[id]>> : id \in w.shows[s]}
  BY StateIs, ViewIs
<1>3. DOMAIN state = {"terms", "sections"} /\ state.terms = w.terms
  BY DEF WritingState
<1>a. ASSUME NEW s \in Sections
      PROVE  /\ state.sections[s].depends \subseteq Sections
             /\ view.text[s] = [x \in TextFields |-> view.text[s][x]]
             /\ view.text[s].terms = state.terms
  <2>1. view.text[s] = [x \in TextFields |-> view.text[s][x]] /\ view.text[s].terms = w.terms
    BY TextIs
  <2>2. state.sections[s].depends = w.depends[s]
    BY StateIs
  <2> HIDE DEF state, view
  <2> QED
    BY <1>3, <2>1, <2>2
<1> HIDE DEF state, view
<1>4. ASSUME NEW s \in Sections, NEW id \in state.sections[s].draft[2]
      PROVE  Computed(state, s, id, build)
  <2> DEFINE target == Target(w.bind[s], s, id)
  <2>1. Evidence(w, s)[id] = Shown(w, target)
    <3>1. id \in DOMAIN Evidence(w, s)
      BY <1>1, <1>2
    <3> QED
      BY <3>1, EvidenceIsComputed
  <2>2. target[1] \in Sections
    BY <1>1, TargetsHaveSections
  <2>3. /\ state.sections[s].evidence[id].raw = <<target, w.source[target[1]], w.define[target[1]]>>
        /\ state.sections[s].evidence[id].format = build
    BY <1>2, <2>1 DEF Shown, Raw
  <2>4. /\ state.sections[target[1]].sources = w.source[target[1]]
        /\ state.sections[target[1]].input[1] = w.define[target[1]]
    BY <1>2, <2>2
  <2>5. Target(state.sections[s].bind, s, id) = target
    BY <1>2
  <2> HIDE DEF target
  <2> QED
    BY <2>3, <2>4, <2>5 DEF Computed
<1>5. ASSUME NEW s \in Sections
      PROVE  /\ DOMAIN state.sections[s] = SectionFields
             /\ view.text[s].words = state.sections[s].draft[1]
             /\ state.sections[s].depends \subseteq Sections
             /\ view.text[s] = [x \in TextFields |-> view.text[s][x]]
             /\ view.text[s].terms = state.terms
             /\ view.text[s].values = {<<id, state.sections[s].evidence[id]>> : id \in state.sections[s].draft[2]}
             /\ state.sections[s].draft[2] \subseteq DOMAIN state.sections[s].evidence
  BY <1>1, <1>2, <1>a
<1> QED
  BY <1>3, <1>4, <1>5 DEF Tells, state, view

LEMMA AssembledIsCoherent ==
  ASSUME NEW w, Coherent(w), Assembles(w)
  PROVE  Coherent(Assembled(w))
<1>1. /\ DOMAIN w = Fields /\ Clean(w) /\ BindingsFit(w)
      /\ w.depends \in [Sections -> SUBSET Sections]
  BY DEF Coherent, Assembles, InputsFit
<1>2. Clean(Assembled(w)) /\ Tells(View(w), WritingState(w))
  BY <1>1, AssembledIsClean, AssembledTells
<1>3. /\ DOMAIN Assembled(w) = Fields /\ Assembled(w).stage = "candidate"
      /\ Assembled(w).state = WritingState(w) /\ Assembled(w).view = View(w)
      /\ Assembled(w).depends = w.depends
  BY <1>1, AssembledIs
<1> QED
  BY <1>2, <1>3 DEF Coherent
-----------------------------------------------------------------------------
(* A display refresh.                                                      *)
SameMeaning(text, old) ==
  /\ text.words = old.words /\ text.image = old.image
  /\ {<<v[1], v[2].raw>> : v \in text.values} = {<<v[1], v[2].raw>> : v \in old.values}

\* Of the values that are shown, the results.
LEMMA RawValues ==
  ASSUME NEW S, NEW f
  PROVE  {<<v[1], v[2].raw>> : v \in {<<id, f[id]>> : id \in S}} = {<<id, f[id].raw>> : id \in S}
<1> DEFINE A == {<<id, f[id]>> : id \in S}
           B == {<<id, f[id].raw>> : id \in S}
<1>1. ASSUME NEW v \in A PROVE <<v[1], v[2].raw>> \in B
  <2>1. PICK id \in S : v = <<id, f[id]>>
    OBVIOUS
  <2>2. <<v[1], v[2].raw>> = <<id, f[id].raw>>
    BY <2>1
  <2> QED
    BY <2>2
<1>2. ASSUME NEW id \in S PROVE \E v \in A : <<id, f[id].raw>> = <<v[1], v[2].raw>>
  <2>1. <<id, f[id]>> \in A
    OBVIOUS
  <2>2. <<id, f[id].raw>> = <<<<id, f[id]>>[1], <<id, f[id]>>[2].raw>>
    OBVIOUS
  <2> HIDE DEF A
  <2> QED
    BY <2>1, <2>2
<1> DEFINE C == {<<v[1], v[2].raw>> : v \in A}
<1> HIDE DEF A
<1>3. C \subseteq B
  <2> HIDE DEF B
  <2> QED
    BY <1>1
<1>4. B \subseteq C
  BY <1>2
<1> QED
  BY <1>3, <1>4 DEF A

LEMMA RefreshedMeans ==
  ASSUME NEW w, Clean(w), w.stage = "candidate", Tells(w.view, w.state), Refreshes(w),
         NEW s \in Sections
  PROVE  SameMeaning(View(w).text[s], w.view.text[s])
<1> DEFINE new == WritingState(w).sections[s]
           old == w.state.sections[s]
           A(x) == [x EXCEPT !.evidence = Undisplayed(@)]
<1>1. /\ AuthoringState(WritingState(w)) = AuthoringState(w.state)
      /\ w.image[s] = w.view.text[s].image
  BY DEF Refreshes
<1>2. /\ DOMAIN w.state = {"terms", "sections"} /\ DOMAIN old = SectionFields
      /\ w.view.text[s].words = old.draft[1]
      /\ w.view.text[s].values = {<<id, old.evidence[id]>> : id \in old.draft[2]}
      /\ old.draft[2] \subseteq DOMAIN old.evidence
  BY DEF Tells
<1>3. /\ DOMAIN WritingState(w) = {"terms", "sections"} /\ DOMAIN new = SectionFields
      /\ new.draft[1] = w.words[s] /\ new.draft[2] = w.shows[s] /\ new.evidence = Evidence(w, s)
  BY StateIs
<1>4. AuthoringState(WritingState(w)).sections[s] = A(new)
  BY <1>3 DEF AuthoringState
<1>5. AuthoringState(w.state).sections[s] = A(old)
  BY <1>2 DEF AuthoringState
<1>6. /\ View(w).text[s].words = w.words[s] /\ View(w).text[s].image = w.image[s]
      /\ View(w).text[s].values = {<<id, Evidence(w, s)[id]>> : id \in w.shows[s]}
  BY ViewIs
<1>7. w.shows[s] \subseteq DOMAIN Evidence(w, s)
  BY DEF Refreshes, Assembles, DraftFits
<1> HIDE DEF new, old
<1>8. new.draft = old.draft /\ Undisplayed(new.evidence) = Undisplayed(old.evidence)
  <2>1. A(new) = A(old)
    BY <1>1, <1>4, <1>5
  <2>2. A(new).draft = new.draft /\ A(new).evidence = Undisplayed(new.evidence)
    BY <1>3 DEF SectionFields
  <2>3. A(old).draft = old.draft /\ A(old).evidence = Undisplayed(old.evidence)
    BY <1>2 DEF SectionFields
  <2> QED
    BY <2>1, <2>2, <2>3
<1>9. \A id \in old.draft[2] : new.evidence[id].raw = old.evidence[id].raw
  BY <1>2, <1>3, <1>7, <1>8 DEF Undisplayed
<1>10. View(w).text[s].values = {<<id, new.evidence[id]>> : id \in old.draft[2]}
  BY <1>3, <1>6, <1>8
<1>11. {<<v[1], v[2].raw>> : v \in View(w).text[s].values}
         = {<<v[1], v[2].raw>> : v \in w.view.text[s].values}
  <2>1. {<<v[1], v[2].raw>> : v \in View(w).text[s].values}
          = {<<id, new.evidence[id].raw>> : id \in old.draft[2]}
    BY <1>10, RawValues
  <2>2. {<<v[1], v[2].raw>> : v \in w.view.text[s].values}
          = {<<id, old.evidence[id].raw>> : id \in old.draft[2]}
    BY <1>2, RawValues
  <2>3. {<<id, new.evidence[id].raw>> : id \in old.draft[2]}
          = {<<id, old.evidence[id].raw>> : id \in old.draft[2]}
    BY <1>9
  <2> QED
    BY <2>1, <2>2, <2>3
<1> QED
  BY <1>1, <1>2, <1>3, <1>6, <1>8, <1>11 DEF SameMeaning

-----------------------------------------------------------------------------
(* Every directory is coherent.                                            *)

\* The package shows what its inputs give, the task what the package shows.
PackageFits ==
  package # None =>
    /\ DOMAIN package = {"of", "returned"}
    /\ Coherent(package.of) /\ package.of.stage = "candidate"
    /\ \A s \in Sections :
         /\ package.of.view.text[s].words = package.of.words[s]
         /\ package.of.view.text[s].image = package.of.image[s]
         /\ \A v \in package.of.view.text[s].values : v[2].raw = Raw(package.of, v[2].raw[1])

TaskFits ==
  task # None =>
    /\ Coherent(task.working)
    /\ \A s \in Sections :
         /\ SameMeaning(task.working.view.text[s], task.quote[s])
         /\ task.working.view.text[s] = task.quote[s] \/ task.refreshed

IInv == Coherent(work) /\ PackageFits /\ TaskFits

Untouched(x, w) ==
  /\ DOMAIN x = Fields /\ x.stage = w.stage /\ x.bound = w.bound /\ x.copies = w.copies
  /\ x.state = w.state /\ x.view = w.view /\ x.depends \in [Sections -> SUBSET Sections]

LEMMA UntouchedStays ==
  ASSUME NEW w, Coherent(w), NEW x, Untouched(x, w)
  PROVE  Coherent(x)
BY DEF Coherent, Untouched, Clean

LEMMA EditsAreUntouched ==
  ASSUME DOMAIN work = Fields, work.depends \in [Sections -> SUBSET Sections], HostEdits
  PROVE  Untouched(work', work) /\ UNCHANGED <<package, task, prior, changes>>
<1>1. ASSUME NEW w, Edit(w) PROVE work' = w /\ UNCHANGED <<package, task, prior, changes>>
  BY <1>1 DEF Edit
<1>2. ASSUME NEW s \in Sections,
             \/ EditSource(s) \/ Redefine(s) \/ ReplaceImage(s)
             \/ AddFigure(s) \/ DropFigure(s) \/ Rewrite(s)
      PROVE  Untouched(work', work) /\ UNCHANGED <<package, task, prior, changes>>
  BY <1>2 DEF EditSource, Redefine, ReplaceImage, AddFigure, DropFigure, Rewrite, Edit, Untouched,
              Fields
<1>3. ASSUME NEW s \in Sections, NEW id, Show(s, id) \/ Unbind(s, id)
      PROVE  Untouched(work', work) /\ UNCHANGED <<package, task, prior, changes>>
  BY <1>3 DEF Show, Unbind, Edit, Untouched, Fields
<1>4. ASSUME NEW s \in Sections, NEW id, NEW o, Bind(s, id, o)
      PROVE  Untouched(work', work) /\ UNCHANGED <<package, task, prior, changes>>
  BY <1>4 DEF Bind, Edit, Untouched, Fields
<1>5. ASSUME NEW s \in Sections, NEW t \in Sections, Refer(s, t) \/ Depend(s, t)
      PROVE  Untouched(work', work) /\ UNCHANGED <<package, task, prior, changes>>
  BY <1>5 DEF Refer, Depend, Edit, Untouched, Fields
<1>6. ASSUME NEW s \in Sections, NEW r, Cite(s, r) \/ EditMetadata(s, r)
      PROVE  Untouched(work', work) /\ UNCHANGED <<package, task, prior, changes>>
  BY <1>6 DEF Cite, EditMetadata, Edit, Untouched, Fields
<1>7. ASSUME NEW s \in Sections, NEW v, NEW o, ApplyRevision(s, v, o)
      PROVE  Untouched(work', work) /\ UNCHANGED <<package, task, prior, changes>>
  BY <1>7 DEF ApplyRevision, Edit, Untouched, Fields
<1>8. CASE ChangeTerms
  BY <1>8 DEF ChangeTerms, Edit, Untouched, Fields
<1>9. CASE Reorder
  BY <1>9 DEF Reorder, Edit, Untouched, Fields
<1> QED
  BY <1>2, <1>3, <1>4, <1>5, <1>6, <1>7, <1>8, <1>9 DEF HostEdits

LEMMA PackageIsMade ==
  ASSUME IInv, PrepareReview
  PROVE  PackageFits'
<1> DEFINE w == work
<1>1. /\ w.stage = "candidate" /\ Assembles(w) /\ View(w) = w.view /\ Coherent(w)
      /\ package' = [of |-> w, returned |-> FALSE]
  BY DEF PrepareReview, Current, IInv
<1>2. /\ Clean(w) /\ BindingsFit(w)
      /\ \A s \in Sections : w.shows[s] \subseteq DOMAIN Evidence(w, s)
  BY <1>1 DEF Coherent, Assembles, InputsFit, DraftFits
<1> HIDE DEF w
<1>3. ASSUME NEW s \in Sections
      PROVE  /\ w.view.text[s].words = w.words[s] /\ w.view.text[s].image = w.image[s]
             /\ w.view.text[s].values = {<<id, Evidence(w, s)[id]>> : id \in w.shows[s]}
  BY <1>1, ViewIs
<1>4. ASSUME NEW s \in Sections, NEW v \in w.view.text[s].values
      PROVE  v[2].raw = Raw(w, v[2].raw[1])
  <2>1. PICK id \in w.shows[s] : v = <<id, Evidence(w, s)[id]>>
    BY <1>3, <1>4
  <2>2. id \in DOMAIN Evidence(w, s)
    BY <1>2
  <2>3. v[2] = Shown(w, Target(w.bind[s], s, id))
    BY <1>2, <2>1, <2>2, EvidenceIsComputed
  <2> QED
    BY <2>3 DEF Shown, Raw
<1>5. package'.of = w /\ DOMAIN package' = {"of", "returned"}
  BY <1>1
<1> QED
  BY <1>1, <1>3, <1>4, <1>5 DEF PackageFits

LEMMA RevisionIsMade ==
  ASSUME IInv, NEW refresh \in BOOLEAN, PrepareRevision(refresh)
  PROVE  TaskFits'
<1> DEFINE w == package.of
           working == IF refresh THEN Assembled(w) ELSE w
<1>1. /\ Coherent(w) /\ w.stage = "candidate"
      /\ IF refresh THEN Refreshes(w) ELSE Current(w)
      /\ task' = [quote |-> w.view.text, refreshed |-> refresh, working |-> working]
  BY DEF PrepareRevision, IInv, PackageFits
<1> HIDE DEF w
<1>2. DOMAIN w = Fields /\ Clean(w) /\ Tells(w.view, w.state)
  BY <1>1 DEF Coherent
<1>3. CASE refresh
  <2>1. working = Assembled(w) /\ Refreshes(w)
    BY <1>1, <1>3
  <2>2. Coherent(working)
    BY <1>1, <2>1, AssembledIsCoherent DEF Refreshes
  <2>3. working.view = View(w)
    BY <1>2, <2>1, AssembledIs
  <2>4. \A s \in Sections : SameMeaning(working.view.text[s], w.view.text[s])
    BY <1>1, <1>2, <2>1, <2>3, RefreshedMeans
  <2> HIDE DEF working
  <2> QED
    BY <1>1, <1>3, <2>2, <2>4 DEF TaskFits
<1>4. CASE ~ refresh
  <2>1. working = w
    BY <1>4
  <2>2. \A s \in Sections : SameMeaning(w.view.text[s], w.view.text[s])
    BY DEF SameMeaning
  <2> HIDE DEF working
  <2> QED
    BY <1>1, <1>4, <2>1, <2>2 DEF TaskFits
<1> QED
  BY <1>3, <1>4

LEMMA InvariantHolds ==
  Spec => []IInv
<1>1. Init => IInv
  <2> SUFFICES ASSUME Init PROVE IInv
    OBVIOUS
  <2>1. /\ DOMAIN work = Fields /\ work.stage = "input" /\ work.view = None
        /\ work.depends \in [Sections -> SUBSET Sections]
    BY SpineAndDepends DEF Init, Fields
  <2>2. work.bound = [s \in Sections |-> {}] /\ work.copies = [s \in Sections |-> Empty]
    BY DEF Init
  <2>3. DOMAIN Empty = {}
    BY DEF Empty
  <2>4. Clean(work)
    BY <2>2, <2>3 DEF Clean
  <2>5. package = None /\ task = None
    BY DEF Init
  <2> QED
    BY <2>1, <2>4, <2>5 DEF IInv, Coherent, PackageFits, TaskFits
<1>2. IInv /\ [Next]_vars => IInv'
  <2> SUFFICES ASSUME IInv, [Next]_vars PROVE IInv'
    OBVIOUS
  <2>0. Coherent(work) /\ DOMAIN work = Fields /\ work.depends \in [Sections -> SUBSET Sections]
    BY DEF IInv, Coherent
  <2>1. CASE HostEdits
    <3>1. Untouched(work', work) /\ UNCHANGED <<package, task, prior, changes>>
      BY <2>0, <2>1, EditsAreUntouched
    <3>2. Coherent(work')
      BY <2>0, <3>1, UntouchedStays
    <3> QED
      BY <3>1, <3>2 DEF IInv, PackageFits, TaskFits
  <2>2. CASE PrepareManuscript
    <3> DEFINE x == Assembled(work)
    <3>1. Clean(x) /\ DOMAIN x = Fields /\ x.depends \in [Sections -> SUBSET Sections]
      BY <2>0, <2>2, AssembledIs, AssembledIsClean DEF PrepareManuscript, InputsFit, Coherent
    <3>2. /\ work' = [x EXCEPT !.stage = "package", !.state = None, !.view = None]
          /\ UNCHANGED <<package, task, prior, changes>>
      BY <2>2 DEF PrepareManuscript
    <3> HIDE DEF x
    <3>3. Coherent(work')
      BY <3>1, <3>2 DEF Coherent, Clean, Fields
    <3> QED
      BY <3>2, <3>3 DEF IInv, PackageFits, TaskFits
  <2>3. CASE Upgrade
    BY <2>3 DEF Upgrade, IInv, PackageFits, TaskFits
  <2>4. CASE AssembleManuscript
    <3>1. work' = Assembled(work) /\ Assembles(work) /\ UNCHANGED <<package, task>>
      BY <2>4 DEF AssembleManuscript
    <3>2. Coherent(work')
      BY <2>0, <3>1, AssembledIsCoherent
    <3> QED
      BY <3>1, <3>2 DEF IInv, PackageFits, TaskFits
  <2>5. CASE RefreshDisplay
    <3>1. work' = Assembled(work) /\ Assembles(work) /\ UNCHANGED <<package, task>>
      BY <2>5 DEF RefreshDisplay, Refreshes
    <3>2. Coherent(work')
      BY <2>0, <3>1, AssembledIsCoherent
    <3> QED
      BY <3>1, <3>2 DEF IInv, PackageFits, TaskFits
  <2>6. CASE PrepareReview
    <3>1. work' = work /\ task' = task
      BY <2>6 DEF PrepareReview
    <3>2. PackageFits'
      BY <2>6, PackageIsMade
    <3> QED
      BY <3>1, <3>2 DEF IInv, TaskFits
  <2>7. CASE ImportReview
    <3>1. work' = work /\ task' = task /\ package # None
          /\ package' = [package EXCEPT !.returned = TRUE]
      BY <2>7 DEF ImportReview
    <3>2. DOMAIN package = {"of", "returned"}
      BY <3>1 DEF IInv, PackageFits
    <3>3. package'.of = package.of /\ DOMAIN package' = {"of", "returned"}
      BY <3>1, <3>2
    <3> QED
      BY <3>1, <3>3 DEF IInv, PackageFits, TaskFits
  <2>8. CASE AdoptRevision
    BY <2>8 DEF AdoptRevision, IInv, PackageFits, TaskFits
  <2>9. ASSUME NEW s \in Sections, HostDrafts(s) PROVE IInv'
    <3>1. Untouched(work', work) /\ UNCHANGED <<package, task, prior, changes>>
      BY <2>0, <2>9 DEF HostDrafts, Untouched, Fields
    <3>2. Coherent(work')
      BY <2>0, <3>1, UntouchedStays
    <3> QED
      BY <3>1, <3>2 DEF IInv, PackageFits, TaskFits
  <2>10. ASSUME NEW refresh \in BOOLEAN, PrepareRevision(refresh) PROVE IInv'
    <3>1. work' = work /\ package' = package
      BY <2>10 DEF PrepareRevision
    <3>2. TaskFits'
      BY <2>10, RevisionIsMade
    <3> QED
      BY <3>1, <3>2 DEF IInv, PackageFits
  <2>11. CASE UNCHANGED vars
    BY <2>11 DEF vars, IInv, PackageFits, TaskFits
  <2> QED
    BY <2>1, <2>2, <2>3, <2>4, <2>5, <2>6, <2>7, <2>8, <2>9, <2>10, <2>11 DEF Next
<1> QED
  BY <1>1, <1>2, PTL DEF Spec

(* Every number a manuscript shows is the result of the section that owns  *)
(* it, from the sources and definitions the manuscript retains, and a      *)
(* writing context shows the same (assemble_manuscript,                    *)
(* prepare_writing_context).                                               *)
THEOREM ValuesAreTheOwners ==
  Spec => []ValuesFollowOwner
<1>1. ASSUME IInv, work.view # None, NEW s \in Sections, NEW v \in work.view.text[s].values
      PROVE  LET state == work.state.sections
                 target == IF v[1] \in DOMAIN state[s].bind THEN state[s].bind[v[1]] ELSE <<s, v[1]>>
                 owner == state[target[1]]
             IN  /\ v[2].raw = <<target, owner.sources, owner.input[1]>>
                 /\ \A t \in Sections : \A x \in work.view.text[t].values : x[2].format = v[2].format
  <2>1. Tells(work.view, work.state)
    BY <1>1 DEF IInv, Coherent
  <2>2. PICK format : \A t \in Sections : \A id \in work.state.sections[t].draft[2] :
          Computed(work.state, t, id, format)
    BY <2>1 DEF Tells
  <2>3. ASSUME NEW t \in Sections, NEW x \in work.view.text[t].values
        PROVE  /\ Computed(work.state, t, x[1], format)
               /\ x[2] = work.state.sections[t].evidence[x[1]]
    <3>1. work.view.text[t].values =
            {<<id, work.state.sections[t].evidence[id]>> : id \in work.state.sections[t].draft[2]}
      BY <2>1 DEF Tells
    <3>2. PICK id \in work.state.sections[t].draft[2] :
            x = <<id, work.state.sections[t].evidence[id]>>
      BY <2>3, <3>1
    <3> QED
      BY <2>2, <3>2
  <2>4. ASSUME NEW t \in Sections, NEW x \in work.view.text[t].values
        PROVE  x[2].format = format
    BY <2>3, <2>4, SMTT(30) DEF Computed
  <2>5. Computed(work.state, s, v[1], format) /\ v[2] = work.state.sections[s].evidence[v[1]]
    BY <1>1, <2>3
  <2> QED
    BY <1>1, <2>4, <2>5, Zenon DEF Computed, Target
<1>2. ASSUME IInv, InputsFit(work), NEW s \in Sections, NEW id \in DOMAIN work.bind[s]
      PROVE  LET shown == WritingContext(work, s).values
                 o == work.bind[s][id]
             IN  shown[s][id] = shown[o[1]][o[2]]
  <2> DEFINE o == work.bind[s][id]
             shown == WritingContext(work, s).values
  <2>1. Clean(work) /\ BindingsFit(work)
    BY <1>2 DEF IInv, Coherent, InputsFit
  <2>2. o \in Owned /\ o[2] \notin DOMAIN work.bind[o[1]]
    BY <1>2, <2>1, BindingsAreOwned
  <2>3. o[1] \in Sections /\ o[2] \in Local[o[1]] /\ o = <<o[1], o[2]>>
    BY <2>2, OwnedHasOwner
  <2>4. o[1] \in Links(work, s)
    BY <1>2 DEF Links, Owners
  <2>5. shown[s] = Evidence(work, s) /\ shown[o[1]] = Evidence(work, o[1])
    BY <2>4 DEF WritingContext
  <2>6. Evidence(work, s)[id] = Shown(work, o)
    BY <1>2, <2>1, EvidenceIsComputed DEF Target
  <2> HIDE DEF o
  <2>7. Evidence(work, o[1])[o[2]] = Shown(work, <<o[1], o[2]>>)
    <3>1. Target(work.bind[o[1]], o[1], o[2]) = <<o[1], o[2]>>
      BY <2>2 DEF Target
    <3>2. o[2] \in DOMAIN Evidence(work, o[1])
      BY <2>1, <2>3, EvidenceIsComputed
    <3>3. \A t \in Sections : \A x \in DOMAIN Evidence(work, t) :
            Evidence(work, t)[x] = Shown(work, Target(work.bind[t], t, x))
      BY <2>1, EvidenceIsComputed
    <3>4. Evidence(work, o[1])[o[2]] = Shown(work, Target(work.bind[o[1]], o[1], o[2]))
      BY <2>3, <3>2, <3>3, Zenon
    <3> QED
      BY <3>1, <3>4
  <2>8. shown[s][id] = Shown(work, o)
    BY <2>5, <2>6
  <2>9. shown[o[1]][o[2]] = Shown(work, o)
    BY <2>3, <2>5, <2>7
  <2> HIDE DEF shown
  <2>10. shown[s][id] = shown[o[1]][o[2]]
    BY <2>8, <2>9, Zenon
  <2> QED
    BY <2>10 DEF o, shown
<1>3. IInv => ValuesFollowOwner
  BY <1>1, <1>2, Zenon DEF ValuesFollowOwner
<1> QED
  BY <1>3, InvariantHolds, PTL

(* A display refresh writes the same words, images, numbers and results    *)
(* (refresh_manuscript_display).                                           *)
THEOREM RefreshesKeepMeaning ==
  Spec => RefreshKeepsMeaning
<1> DEFINE Same == RefreshDisplay =>
             /\ work'.view.labels = work.view.labels
             /\ \A s \in Sections :
                  /\ work'.view.text[s].words = work.view.text[s].words
                  /\ work'.view.text[s].image = work.view.text[s].image
                  /\ {<<v[1], v[2].raw>> : v \in work'.view.text[s].values}
                       = {<<v[1], v[2].raw>> : v \in work.view.text[s].values}
<1>1. ASSUME IInv PROVE Same
  <2>1. SUFFICES ASSUME RefreshDisplay PROVE Same
    OBVIOUS
  <2>2. Refreshes(work) /\ work' = Assembled(work)
    BY <2>1 DEF RefreshDisplay
  <2>3. DOMAIN work = Fields /\ Clean(work) /\ work.stage = "candidate" /\ Tells(work.view, work.state)
    BY <1>1, <2>2 DEF IInv, Coherent, Refreshes
  <2>4. work'.view = View(work)
    BY <2>2, <2>3, AssembledIs
  <2>5. View(work).labels = work.view.labels
    BY <2>2 DEF Refreshes
  <2>6. \A s \in Sections : SameMeaning(View(work).text[s], work.view.text[s])
    BY <2>2, <2>3, RefreshedMeans
  <2> QED
    BY <2>4, <2>5, <2>6 DEF SameMeaning
<1> QED
  BY <1>1, InvariantHolds, PTL DEF Spec, RefreshKeepsMeaning

(* What the reviewer reads is what the inputs of the package give, and a   *)
(* revision starts from the quoted text, whatever the host did since       *)
(* (prepare_manuscript_review, prepare_manuscript_revision).               *)
THEOREM ReviewsAreReproducible ==
  Spec => []ReviewIsReproducible
<1>1. IInv => ReviewIsReproducible
  BY DEF IInv, PackageFits, TaskFits, SameMeaning, ReviewIsReproducible
<1> QED
  BY <1>1, InvariantHolds, PTL
-----------------------------------------------------------------------------
(* The report of changes.  What follows from the rounds of Affected and of *)
(* DeclaredFrom is shown round by round, by the least counterexample.      *)
LEMMA LeastNat ==
  ASSUME NEW T \in SUBSET Nat, T # {}
  PROVE  \E n \in T : \A m \in T : n <= m
<1> DEFINE R == OpToRel(<, Nat)
<1>1. IsWellFoundedOn(R, Nat)
  BY NatLessThanWellFounded
<1>2. \A x, y \in Nat : x < y => <<x, y>> \in R
  BY DEF OpToRel
<1> HIDE DEF R
<1>3. PICK x \in T : \A y \in T : ~ (<<y, x>> \in R)
  BY <1>1, WFMin
<1>4. ASSUME NEW y \in T PROVE x <= y
  <2>1. x \in Nat /\ y \in Nat
    OBVIOUS
  <2>2. ~ (y < x)
    BY <1>2, <1>3, <2>1
  <2> QED
    BY <2>1, <2>2
<1> QED
  BY <1>4

\* What holds at 0 and goes on from each number to the next holds up to N.
LEMMA UpTo ==
  ASSUME NEW N \in Nat, NEW T, 0 \in T, \A i \in 1..N : i - 1 \in T => i \in T
  PROVE  \A i \in 0..N : i \in T
<1> DEFINE Bad == {i \in 0..N : i \notin T}
<1> SUFFICES ASSUME Bad # {} PROVE FALSE
  OBVIOUS
<1>0. Bad \in SUBSET Nat
  OBVIOUS
<1>1. PICK n \in Bad : \A m \in Bad : n <= m
  <2> HIDE DEF Bad
  <2> QED
    BY <1>0, LeastNat
<1>2. n \in 1..N /\ n - 1 \in 0..N /\ n - 1 \notin Bad
  BY <1>1
<1> QED
  BY <1>1, <1>2

\* Rows of values, each made from the one before.
HasRows(V, a, N, F) ==
  \E g \in [0..N -> V] : g[0] = a /\ \A i \in 1..N : g[i] = F[<<i, g[i - 1]>>]

LEMMA Rows ==
  ASSUME NEW V, NEW a \in V, NEW N \in Nat, NEW F \in [(1..N) \X V -> V]
  PROVE  HasRows(V, a, N, F)
<1> DEFINE Filled(n, g) == g[0] = a /\ \A i \in 1..n : g[i] = F[<<i, g[i - 1]>>]
           T == {n \in 0..N : \E g \in [0..n -> V] : Filled(n, g)}
<1>1. 0 \in T
  <2>1. [i \in 0..0 |-> a] \in [0..0 -> V] /\ Filled(0, [i \in 0..0 |-> a])
    OBVIOUS
  <2> HIDE DEF Filled
  <2>2. \E g \in [0..0 -> V] : Filled(0, g)
    BY <2>1
  <2> QED
    BY <2>2
<1>2. ASSUME NEW n \in 1..N, n - 1 \in T PROVE n \in T
  <2>1. PICK g \in [0..(n - 1) -> V] : Filled(n - 1, g)
    BY <1>2
  <2> DEFINE h == [i \in 0..n |-> IF i = n THEN F[<<n, g[n - 1]>>] ELSE g[i]]
  <2>2. h \in [0..n -> V]
    <3>1. g[n - 1] \in V
      BY <2>1
    <3>2. F[<<n, g[n - 1]>>] \in V
      BY <3>1
    <3>3. \A i \in 0..n : i # n => g[i] \in V
      BY <2>1
    <3> QED
      BY <3>2, <3>3
  <2>3. h[0] = a
    BY <2>1
  <2>4. ASSUME NEW i \in 1..n PROVE h[i] = F[<<i, h[i - 1]>>]
    <3>1. i - 1 \in 0..n /\ i - 1 # n /\ h[i - 1] = g[i - 1]
      OBVIOUS
    <3>2. CASE i = n
      BY <3>1, <3>2
    <3>3. CASE i # n
      <4>1. i \in 1..(n - 1) /\ h[i] = g[i]
        BY <3>3
      <4>2. g[i] = F[<<i, g[i - 1]>>]
        BY <2>1, <4>1
      <4> HIDE DEF h
      <4> QED
        BY <3>1, <4>1, <4>2
    <3> QED
      BY <3>2, <3>3
  <2>5. Filled(n, h)
    BY <2>3, <2>4
  <2> HIDE DEF Filled, h
  <2>6. \E x \in [0..n -> V] : Filled(n, x)
    BY <2>2, <2>5
  <2>7. n \in 0..N
    OBVIOUS
  <2> QED
    BY <2>6, <2>7
<1> HIDE DEF T
<1>3. N \in T
  <2>1. N \in 0..N
    OBVIOUS
  <2> QED
    BY <1>1, <1>2, <2>1, UpTo
<1> QED
  BY <1>3 DEF T, HasRows

SpineLength == Len(Spine)
FirstRound(old, new) ==
  [affected |-> Touched(old, new),
   evidence |-> UNION {{<<s, id>> : id \in Changed(old, new, s)} : s \in Sections}]

\* The rounds of the report.
LEMMA AffectedHasRounds ==
  ASSUME NEW old, NEW new, SpineLength \in Nat
  PROVE  \E round : /\ round[0] = FirstRound(old, new)
                    /\ \A i \in 1..(2 * SpineLength) : round[i] = Follow(old, new, round[i - 1])
                    /\ Affected(old, new) = round[2 * SpineLength].affected
<1> DEFINE N == 2 * SpineLength
           Then(x) == Follow(old, new, x)
           Rounds(g, n) == g = [i \in 0..n |-> IF i = 0 THEN FirstRound(old, new) ELSE Then(g[i - 1])]
           g0 == CHOOSE g : Rounds(g, N)
<1>0. N \in Nat
  OBVIOUS
<1>a. Affected(old, new) = g0[N].affected
  BY DEF Affected, FirstRound, SpineLength
<1> HIDE DEF N
<1>1. \A n \in Nat : \E g : Rounds(g, n)
  <2> DEFINE Bad == {n \in Nat : ~ \E g : Rounds(g, n)}
  <2> HIDE DEF Then
  <2> SUFFICES ASSUME Bad # {} PROVE FALSE
    OBVIOUS
  <2>1. PICK n \in Bad : \A m \in Bad : n <= m
    BY LeastNat
  <2>2. CASE n = 0
    <3>1. Rounds([i \in 0..0 |-> FirstRound(old, new)], 0)
      OBVIOUS
    <3> QED
      BY <2>2, <3>1
  <2>3. CASE n # 0
    <3>0. n \in Nat
      OBVIOUS
    <3> HIDE DEF Bad
    <3>1. n - 1 \in Nat /\ n - 1 \notin Bad /\ n \in Nat
      BY <2>1, <2>3, <3>0
    <3>2. PICK g : Rounds(g, n - 1)
      BY <3>1 DEF Bad
    <3> USE DEF Bad
    <3> DEFINE h == [i \in 0..n |-> IF i = n THEN Then(g[n - 1]) ELSE g[i]]
    <3>3. \A i \in 0..n : h[i] = IF i = 0 THEN FirstRound(old, new) ELSE Then(h[i - 1])
      <4> TAKE i \in 0..n
      <4>1. CASE i = n
        BY <3>1, <2>3, <4>1
      <4>2. CASE i # n
        <5>1. i \in 0..(n - 1) /\ (i # 0 => i - 1 \in 0..(n - 1))
          BY <3>1, <4>2
        <5>2. g[i] = IF i = 0 THEN FirstRound(old, new) ELSE Then(g[i - 1])
          BY <3>2, <5>1
        <5> QED
          BY <5>1, <5>2, <3>1
      <4> QED
        BY <4>1, <4>2
    <3>4. Rounds(h, n)
      BY <3>3
    <3> QED
      BY <3>4
  <2> QED
    BY <2>2, <2>3
<1>2. Rounds(g0, N)
  BY <1>0, <1>1
<1> HIDE DEF g0, Then
<1>3. g0[0] = FirstRound(old, new) /\ \A i \in 1..N : g0[i] = Then(g0[i - 1])
  <2>1. \A i \in 0..N : g0[i] = IF i = 0 THEN FirstRound(old, new) ELSE Then(g0[i - 1])
    BY <1>2
  <2> QED
    BY <2>1, <1>0
<1> QED
  BY <1>a, <1>3 DEF N, Then

(* The rounds in which the declared dependencies of a section are collected. *)
DeclaredRounds(state, s, seen) ==
  /\ seen[0] = {s}
  /\ \A i \in 1..SpineLength :
       seen[i] = seen[i - 1] \cup (UNION {state.sections[t].depends : t \in seen[i - 1]})
  /\ DeclaredFrom(state, s) = seen[SpineLength]

\* The rounds over the declared dependencies.
LEMMA DeclaredHasRounds ==
  ASSUME NEW state, NEW s, SpineLength \in Nat
  PROVE  \E seen : DeclaredRounds(state, s, seen)
<1> DEFINE N == SpineLength
           Then(x) == x \cup (UNION {state.sections[t].depends : t \in x})
           Rounds(g, n) == g = [i \in 0..n |-> IF i = 0 THEN {s} ELSE Then(g[i - 1])]
           g0 == CHOOSE g : Rounds(g, N)
<1>a. DeclaredFrom(state, s) = g0[N]
  BY DEF DeclaredFrom, SpineLength
<1> HIDE DEF N
<1>0. N \in Nat
  BY DEF N
<1>1. \A n \in Nat : \E g : Rounds(g, n)
  <2> DEFINE Bad == {n \in Nat : ~ \E g : Rounds(g, n)}
  <2> HIDE DEF Then
  <2> SUFFICES ASSUME Bad # {} PROVE FALSE
    OBVIOUS
  <2>1. PICK n \in Bad : \A m \in Bad : n <= m
    BY LeastNat
  <2>2. CASE n = 0
    <3>1. Rounds([i \in 0..0 |-> {s}], 0)
      OBVIOUS
    <3> QED
      BY <2>2, <3>1
  <2>3. CASE n # 0
    <3>0. n \in Nat
      OBVIOUS
    <3> HIDE DEF Bad
    <3>1. n - 1 \in Nat /\ n - 1 \notin Bad /\ n \in Nat
      BY <2>1, <2>3, <3>0
    <3>2. PICK g : Rounds(g, n - 1)
      BY <3>1 DEF Bad
    <3> USE DEF Bad
    <3> DEFINE h == [i \in 0..n |-> IF i = n THEN Then(g[n - 1]) ELSE g[i]]
    <3>3. \A i \in 0..n : h[i] = IF i = 0 THEN {s} ELSE Then(h[i - 1])
      <4> TAKE i \in 0..n
      <4>1. CASE i = n
        BY <3>1, <2>3, <4>1
      <4>2. CASE i # n
        <5>1. i \in 0..(n - 1) /\ (i # 0 => i - 1 \in 0..(n - 1))
          BY <3>1, <4>2
        <5>2. g[i] = IF i = 0 THEN {s} ELSE Then(g[i - 1])
          BY <3>2, <5>1
        <5> QED
          BY <5>1, <5>2, <3>1
      <4> QED
        BY <4>1, <4>2
    <3>4. Rounds(h, n)
      BY <3>3
    <3> QED
      BY <3>4
  <2> QED
    BY <2>2, <2>3
<1>2. Rounds(g0, N)
  BY <1>0, <1>1
<1> HIDE DEF g0, Then
<1>3. g0[0] = {s} /\ \A i \in 1..N : g0[i] = Then(g0[i - 1])
  <2>1. \A i \in 0..N : g0[i] = IF i = 0 THEN {s} ELSE Then(g0[i - 1])
    BY <1>2
  <2> QED
    BY <2>1, <1>0
<1> QED
  BY <1>a, <1>3 DEF N, Then, DeclaredRounds

\* A round keeps what is affected and adds whoever depends on it.
LEMMA FollowSpreads ==
  ASSUME NEW old, NEW new, NEW x
  PROVE  /\ x.affected \subseteq Follow(old, new, x).affected
         /\ \A u \in Sections : \A y \in new.sections[u].depends :
              y \in x.affected => u \in Follow(old, new, x).affected
<1> DEFINE links(u) == Pairs(old.sections[u].bind) \cup Pairs(new.sections[u].bind)
           hit == {h \in UNION {{u} \X links(u) : u \in Sections} :
                     h[2][2][1] \in Broad(old, new) \/ h[2][2] \in x.evidence}
           leans(u) == old.sections[u].depends \cup new.sections[u].depends
           more == {u \in Sections : leans(u) \cap (x.affected \cup Broad(old, new)) # {}}
           hits == {h[1] : h \in hit}
           names == x.evidence \cup {<<h[1], h[2][1]>> : h \in hit}
<1>1. Follow(old, new, x) = [evidence |-> names, affected |-> x.affected \cup hits \cup more]
  BY DEF Follow
<1> HIDE DEF hits, names, hit
<1>2. ASSUME NEW u \in Sections, NEW y \in new.sections[u].depends, y \in x.affected
      PROVE  u \in more
  BY <1>2
<1> HIDE DEF more
<1>3. Follow(old, new, x).affected = x.affected \cup hits \cup more
  BY <1>1
<1> QED
  BY <1>2, <1>3

\* A section that was touched affects every section that depends on it, through
\* as many others as there are.
LEMMA TouchedSpreads ==
  ASSUME NEW old, NEW new, \A u \in Sections : new.sections[u].depends \subseteq Sections,
         NEW s \in Sections, NEW t \in DeclaredFrom(new, s)
  PROVE  t \in Sections /\ (t \in Touched(old, new) => s \in Affected(old, new))
<1> DEFINE N == SpineLength
<1>0. N \in Nat
  BY SpineAndDepends, LenProperties DEF SpineLength
<1>1. PICK round :
        /\ round[0] = FirstRound(old, new)
        /\ \A i \in 1..(2 * N) : round[i] = Follow(old, new, round[i - 1])
        /\ Affected(old, new) = round[2 * N].affected
  BY <1>0, AffectedHasRounds
<1>2a. PICK seen : DeclaredRounds(new, s, seen)
  BY <1>0, DeclaredHasRounds
<1>2. /\ seen[0] = {s}
      /\ \A i \in 1..N : seen[i] = seen[i - 1] \cup (UNION {new.sections[u].depends : u \in seen[i - 1]})
      /\ DeclaredFrom(new, s) = seen[N]
  BY <1>2a DEF DeclaredRounds
<1> HIDE DEF N
<1>3. ASSUME NEW i \in 1..(2 * N)
      PROVE  /\ round[i - 1].affected \subseteq round[i].affected
             /\ \A u \in Sections : \A x \in new.sections[u].depends :
                  x \in round[i - 1].affected => u \in round[i].affected
  <2>1. round[i] = Follow(old, new, round[i - 1])
    BY <1>1
  <2> QED
    BY <2>1, FollowSpreads
<1>4. \A i \in Nat : i <= 2 * N => Touched(old, new) \subseteq round[i].affected
  <2> DEFINE Bad == {i \in Nat : i <= 2 * N /\ ~ (Touched(old, new) \subseteq round[i].affected)}
  <2> SUFFICES ASSUME Bad # {} PROVE FALSE
    OBVIOUS
  <2>1. PICK n \in Bad : \A m \in Bad : n <= m
    BY LeastNat
  <2>2. n # 0
    BY <1>1, <2>1 DEF FirstRound
  <2>3. n - 1 \in Nat /\ n - 1 <= 2 * N /\ n - 1 \notin Bad /\ n \in 1..(2 * N)
    BY <1>0, <2>1, <2>2
  <2>4. Touched(old, new) \subseteq round[n - 1].affected
    BY <2>3
  <2> QED
    BY <1>3, <2>1, <2>3, <2>4
<1>5. \A i \in Nat : i <= N => seen[i] \subseteq Sections
  <2> DEFINE Bad == {i \in Nat : i <= N /\ ~ (seen[i] \subseteq Sections)}
  <2> SUFFICES ASSUME Bad # {} PROVE FALSE
    OBVIOUS
  <2>1. PICK n \in Bad : \A m \in Bad : n <= m
    BY LeastNat
  <2>2. n # 0
    BY <1>2, <2>1
  <2>3. n - 1 \in Nat /\ n - 1 <= N /\ n - 1 \notin Bad /\ n \in 1..N
    BY <1>0, <2>1, <2>2
  <2>4. seen[n - 1] \subseteq Sections
    BY <2>3
  <2>5. seen[n] = seen[n - 1] \cup (UNION {new.sections[u].depends : u \in seen[n - 1]})
    BY <1>2, <2>3
  <2> QED
    BY <2>1, <2>4, <2>5
<1> DEFINE Spreads(i) == \A k \in Nat : k + i <= 2 * N =>
             \A x \in seen[i] : x \in round[k].affected => s \in round[k + i].affected
<1>6. \A i \in Nat : i <= N => Spreads(i)
  <2> DEFINE Bad == {i \in Nat : i <= N /\ ~ Spreads(i)}
  <2> SUFFICES ASSUME Bad # {} PROVE FALSE
    OBVIOUS
  <2>1. PICK n \in Bad : \A m \in Bad : n <= m
    BY LeastNat
  <2>2. n # 0
    <3>1. Spreads(0)
      BY <1>2
    <3> QED
      BY <2>1, <3>1
  <2>3. n - 1 \in Nat /\ n - 1 <= N /\ n - 1 \notin Bad /\ n \in 1..N
    BY <1>0, <2>1, <2>2
  <2>4. Spreads(n - 1)
    BY <2>3
  <2>5. seen[n] = seen[n - 1] \cup (UNION {new.sections[u].depends : u \in seen[n - 1]})
    BY <1>2, <2>3
  <2>6. ASSUME NEW k \in Nat, k + n <= 2 * N, NEW x \in seen[n], x \in round[k].affected
        PROVE  s \in round[k + n].affected
    <3>0. /\ k + n \in 1..(2 * N) /\ (k + n) - 1 = k + (n - 1) /\ k + (n - 1) <= 2 * N
          /\ k + 1 \in 1..(2 * N) /\ (k + 1) - 1 = k /\ k + 1 \in Nat /\ (k + 1) + (n - 1) = k + n
      BY <1>0, <2>3, <2>6
    <3>1. CASE x \in seen[n - 1]
      <4>1. s \in round[k + (n - 1)].affected
        BY <2>4, <2>6, <3>0, <3>1
      <4> QED
        BY <1>3, <3>0, <4>1
    <3>2. CASE x \notin seen[n - 1]
      <4>1. PICK u \in seen[n - 1] : x \in new.sections[u].depends
        BY <2>5, <2>6, <3>2
      <4>2. u \in Sections
        BY <1>5, <2>3, <4>1
      <4>3. u \in round[k + 1].affected
        BY <1>3, <2>6, <3>0, <4>1, <4>2
      <4> HIDE DEF Spreads
      <4>4. (k + 1) + (n - 1) <= 2 * N
        BY <2>6, <3>0
      <4>5. s \in round[(k + 1) + (n - 1)].affected
        BY <2>4, <3>0, <4>1, <4>3, <4>4 DEF Spreads
      <4> QED
        BY <3>0, <4>5
    <3> QED
      BY <3>1, <3>2
  <2>7. Spreads(n)
    BY <2>6
  <2> QED
    BY <2>1, <2>7
<1>7. t \in Sections
  BY <1>0, <1>2, <1>5
<1>8. ASSUME t \in Touched(old, new) PROVE s \in Affected(old, new)
  <2>1. N \in Nat /\ N <= 2 * N /\ N + N = 2 * N /\ N <= N
    BY <1>0
  <2>2. t \in round[N].affected
    BY <1>4, <1>8, <2>1
  <2>3. Spreads(N)
    BY <1>6, <2>1
  <2>4. s \in round[N + N].affected
    BY <1>2, <2>1, <2>2, <2>3
  <2> QED
    BY <1>1, <2>1, <2>4
<1> QED
  BY <1>7, <1>8

\* A section stands in its own declared dependencies.
LEMMA DeclaredItself ==
  ASSUME NEW state, NEW s
  PROVE  s \in DeclaredFrom(state, s)
<1>0. SpineLength \in Nat
  BY SpineAndDepends, LenProperties DEF SpineLength
<1>1a. PICK seen : DeclaredRounds(state, s, seen)
  BY <1>0, DeclaredHasRounds
<1>1. /\ seen[0] = {s}
      /\ \A i \in 1..SpineLength :
           seen[i] = seen[i - 1] \cup (UNION {state.sections[t].depends : t \in seen[i - 1]})
      /\ DeclaredFrom(state, s) = seen[SpineLength]
  BY <1>1a DEF DeclaredRounds
<1> DEFINE Bad == {i \in Nat : i <= SpineLength /\ s \notin seen[i]}
<1>2. SUFFICES ASSUME Bad # {} PROVE FALSE
  BY <1>0, <1>1
<1>3. PICK n \in Bad : \A m \in Bad : n <= m
  BY <1>2, LeastNat
<1>4. n # 0
  BY <1>1, <1>3
<1>5. n - 1 \in Nat /\ n - 1 <= SpineLength /\ n - 1 \notin Bad /\ n \in 1..SpineLength
  BY <1>0, <1>3, <1>4
<1>6. s \in seen[n - 1]
  BY <1>5
<1> QED
  BY <1>1, <1>3, <1>5, <1>6

\* Two manuscripts that tell the same of a section read alike there.
LEMMA SameReading ==
  ASSUME NEW view, NEW state, Tells(view, state), NEW prev, NEW old, Tells(prev, old),
         NEW s \in Sections, old.terms = state.terms,
         old.sections[s].draft = state.sections[s].draft,
         \A id \in state.sections[s].draft[2] :
           old.sections[s].evidence[id] = state.sections[s].evidence[id]
  PROVE  Reading(view, s) = Reading(prev, s)
<1> DEFINE new == view.text[s]
           text == prev.text[s]
<1>1. /\ new = [x \in TextFields |-> new[x]] /\ new.terms = state.terms
      /\ new.words = state.sections[s].draft[1]
      /\ new.values = {<<id, state.sections[s].evidence[id]>> : id \in state.sections[s].draft[2]}
  BY DEF Tells
<1>2. /\ text = [x \in TextFields |-> text[x]] /\ text.terms = old.terms
      /\ text.words = old.sections[s].draft[1]
      /\ text.values = {<<id, old.sections[s].evidence[id]>> : id \in old.sections[s].draft[2]}
  BY DEF Tells
<1>3. Reading(view, s) = [new EXCEPT !.image = 0] /\ Reading(prev, s) = [text EXCEPT !.image = 0]
  BY DEF Reading
<1> HIDE DEF new, text
<1>4. new.terms = text.terms /\ new.words = text.words
  BY <1>1, <1>2
<1>5. new.values = text.values
  <2> DEFINE shown == state.sections[s].draft[2]
             f == state.sections[s].evidence
             g == old.sections[s].evidence
  <2>1. new.values = {<<id, f[id]>> : id \in shown} /\ text.values = {<<id, g[id]>> : id \in shown}
    BY <1>1, <1>2
  <2>2. \A id \in shown : g[id] = f[id]
    OBVIOUS
  <2> HIDE DEF shown, f, g
  <2>3. {<<id, f[id]>> : id \in shown} = {<<id, g[id]>> : id \in shown}
    BY <2>2
  <2> QED
    BY <2>1, <2>3
<1>6. [new EXCEPT !.image = 0] = [text EXCEPT !.image = 0]
  <2>1. DOMAIN new = TextFields /\ DOMAIN text = TextFields
    BY <1>1, <1>2
  <2>2. ASSUME NEW f, DOMAIN f = TextFields
        PROVE  [f EXCEPT !.image = 0] = [x \in TextFields |-> IF x = "image" THEN 0 ELSE f[x]]
    BY <2>2
  <2>3. \A x \in TextFields : x # "image" => new[x] = text[x]
    BY <1>4, <1>5 DEF TextFields
  <2>4. /\ [new EXCEPT !.image = 0] = [x \in TextFields |-> IF x = "image" THEN 0 ELSE new[x]]
        /\ [text EXCEPT !.image = 0] = [x \in TextFields |-> IF x = "image" THEN 0 ELSE text[x]]
    BY <2>1, <2>2
  <2> QED
    BY <2>3, <2>4
<1> QED
  BY <1>3, <1>6

\* Names of evidence that are no difference have the same evidence.
LEMMA Undiffering ==
  ASSUME NEW f, NEW g, NEW x \in DOMAIN g, x \notin Differs(f, g)
  PROVE  f[x] = g[x]
BY DEF Differs

\* What reads otherwise was touched, and a paragraph that does is listed.
LEMMA UnlistedReadsAlike ==
  ASSUME NEW view, NEW state, Tells(view, state), NEW prev, NEW old, Tells(prev, old),
         NEW s \in Sections, s \notin Touched(old, state) \/ ~ Listed(old, state, s)
  PROVE  Reading(view, s) = Reading(prev, s)
<1> DEFINE shown == state.sections[s].draft[2]
<1>1. /\ old.terms = state.terms /\ old.sections[s].draft = state.sections[s].draft
      /\ Changed(old, state, s) \cap shown = {}
  <2>1. CASE s \notin Touched(old, state)
    BY <2>1 DEF Touched
  <2>2. CASE ~ Listed(old, state, s)
    BY <2>2 DEF Listed
  <2> QED
    BY <2>1, <2>2
<1>2. Differs(old.sections[s].evidence, state.sections[s].evidence) \subseteq Changed(old, state, s)
  BY DEF Changed
<1>3. shown \subseteq DOMAIN state.sections[s].evidence
  BY DEF Tells
<1>4. ASSUME NEW id \in shown
      PROVE  old.sections[s].evidence[id] = state.sections[s].evidence[id]
  <2>1. id \in DOMAIN state.sections[s].evidence
    BY <1>3
  <2>2. id \notin Differs(old.sections[s].evidence, state.sections[s].evidence)
    BY <1>1, <1>2
  <2> QED
    BY <2>1, <2>2, Undiffering
<1> QED
  BY <1>1, <1>4, SameReading

\* The report is about the two manuscripts the reader has.
Told(old, new) ==
  [unchanged |-> Sections \ Affected(old, new),
   passages |-> {s \in Affected(old, new) : Listed(old, new, s)}]

ReportsFit ==
  changes # None /\ prior # None /\ work.view # None =>
    \E old : Tells(prior, old) /\ Tells(work.view, work.state) /\ changes = Told(old, work.state)

LEMMA FittingReportsAreTrue ==
  ASSUME ReportsFit
  PROVE  UnchangedIsUnchanged
<1> SUFFICES ASSUME changes # None, prior # None, work.view # None
             PROVE  /\ \A s \in changes.unchanged : \A t \in DeclaredFrom(work.state, s) :
                         Reading(work.view, t) = Reading(prior, t)
                    /\ \A s \in Sections \ changes.passages : Reading(work.view, s) = Reading(prior, s)
  BY DEF UnchangedIsUnchanged
<1> DEFINE new == work.state
<1>1. PICK old : Tells(prior, old) /\ Tells(work.view, new) /\ changes = Told(old, new)
  BY DEF ReportsFit
<1>2. /\ changes.unchanged = Sections \ Affected(old, new)
      /\ changes.passages = {s \in Affected(old, new) : Listed(old, new, s)}
  BY <1>1 DEF Told
<1>3. \A u \in Sections : new.sections[u].depends \subseteq Sections
  BY <1>1 DEF Tells
<1> HIDE DEF new
<1>4. ASSUME NEW s \in changes.unchanged, NEW t \in DeclaredFrom(new, s)
      PROVE  Reading(work.view, t) = Reading(prior, t)
  <2>1. s \in Sections /\ s \notin Affected(old, new)
    BY <1>2
  <2>2. t \in Sections /\ t \notin Touched(old, new)
    BY <1>3, <2>1, TouchedSpreads
  <2> QED
    BY <1>1, <2>2, UnlistedReadsAlike
<1>5. ASSUME NEW s \in Sections \ changes.passages
      PROVE  Reading(work.view, s) = Reading(prior, s)
  <2>1. CASE s \in Affected(old, new)
    <3>1. ~ Listed(old, new, s)
      BY <1>2, <1>5, <2>1
    <3> QED
      BY <1>1, <3>1, UnlistedReadsAlike
  <2>2. CASE s \notin Affected(old, new)
    <3>1. s \in changes.unchanged
      BY <1>2, <2>2
    <3> QED
      BY <1>4, <3>1, DeclaredItself
  <2> QED
    BY <2>1, <2>2
<1> QED
  BY <1>4, <1>5 DEF new

\* An assembly compares with the state that tells what the reader had.
LEMMA AssemblyReports ==
  ASSUME IInv, Assembles(work), work' = Assembled(work), prior' = work.view,
         changes' = Report(work.state, WritingState(work))
  PROVE  ReportsFit'
<1> SUFFICES ASSUME changes' # None, prior' # None
             PROVE  \E old : /\ Tells(prior', old) /\ Tells(work'.view, work'.state)
                             /\ changes' = Told(old, work'.state)
  BY DEF ReportsFit
<1>1. /\ DOMAIN work = Fields /\ Clean(work) /\ work.depends \in [Sections -> SUBSET Sections]
      /\ work.stage # "candidate" => work.view = None
      /\ work.stage = "candidate" => Tells(work.view, work.state)
  BY DEF IInv, Coherent
<1>2. work'.view = View(work) /\ work'.state = WritingState(work)
  BY <1>1, AssembledIs
<1>3. Tells(View(work), WritingState(work))
  BY <1>1, AssembledTells
<1>4. Tells(prior', work.state)
  BY <1>1
<1>5. changes' = Told(work.state, WritingState(work))
  BY DEF Report, Told
<1> QED
  BY <1>2, <1>3, <1>4, <1>5

LEMMA SameReport ==
  ASSUME ReportsFit, UNCHANGED <<prior, changes>>, work'.view = work.view, work'.state = work.state
  PROVE  ReportsFit'
BY DEF ReportsFit

(* A section the report of changes calls unchanged reads as before, with   *)
(* all it was declared to depend on, whatever the spine and however long   *)
(* the chains of dependencies; a paragraph that reads otherwise is listed  *)
(* for review (compare_manuscript_states, _change_report); and what the    *)
(* reviewer and the reviser get is what the manuscript says.               *)
THEOREM ReportsTellTheTruth ==
  Spec => []ReportsAreTrue
<1>1. Init => ReportsFit
  BY DEF Init, ReportsFit
<1>2. IInv /\ ReportsFit /\ [Next]_vars => ReportsFit'
  <2> SUFFICES ASSUME IInv, ReportsFit, [Next]_vars PROVE ReportsFit'
    OBVIOUS
  <2>0. DOMAIN work = Fields /\ work.depends \in [Sections -> SUBSET Sections]
    BY DEF IInv, Coherent
  <2>1. CASE HostEdits
    <3>1. Untouched(work', work) /\ UNCHANGED <<package, task, prior, changes>>
      BY <2>0, <2>1, EditsAreUntouched
    <3> QED
      BY <3>1, SameReport DEF Untouched
  <2>2. CASE PrepareManuscript
    <3> DEFINE x == Assembled(work)
    <3>1. DOMAIN x = Fields
      BY <2>0, AssembledIs
    <3>2. work' = [x EXCEPT !.stage = "package", !.state = None, !.view = None]
      BY <2>2 DEF PrepareManuscript
    <3> HIDE DEF x
    <3>3. work'.view = None
      BY <3>1, <3>2 DEF Fields
    <3> QED
      BY <3>3 DEF ReportsFit
  <2>3. CASE AssembleManuscript
    BY <2>3, AssemblyReports DEF AssembleManuscript
  <2>4. CASE RefreshDisplay
    BY <2>4, AssemblyReports DEF RefreshDisplay, Refreshes
  <2>5. CASE AdoptRevision
    BY <2>5 DEF AdoptRevision, ReportsFit
  <2>6. ASSUME NEW s \in Sections, HostDrafts(s) PROVE ReportsFit'
    <3>1. /\ work' = [work EXCEPT !.drafted = @ \cup {s}]
          /\ UNCHANGED <<prior, changes>>
      BY <2>6 DEF HostDrafts
    <3>2. work'.view = work.view /\ work'.state = work.state
      BY <2>0, <3>1 DEF Fields
    <3> QED
      BY <3>1, <3>2, SameReport
  <2>7. CASE \/ Upgrade \/ PrepareReview \/ ImportReview \/ UNCHANGED vars
             \/ \E refresh \in BOOLEAN : PrepareRevision(refresh)
    <3>1. UNCHANGED <<work, prior, changes>>
      BY <2>7 DEF Upgrade, PrepareReview, ImportReview, PrepareRevision, vars
    <3> QED
      BY <3>1, SameReport
  <2> QED
    BY <2>1, <2>2, <2>3, <2>4, <2>5, <2>6, <2>7 DEF Next
<1>3. ReportsFit /\ ReviewIsReproducible => ReportsAreTrue
  BY FittingReportsAreTrue DEF ReportsAreTrue
<1> QED
  BY <1>1, <1>2, <1>3, InvariantHolds, ReviewsAreReproducible, PTL DEF Spec
-----------------------------------------------------------------------------
(* Numbers of figures.                                                     *)
SumOf(f, S) ==
  LET sum[i \in 0..Len(Spine)] ==
        IF i = 0 THEN 0 ELSE sum[i - 1] + (IF Spine[i] \in S THEN f[Spine[i]] ELSE 0)
  IN  sum[Len(Spine)]

LEMMA SpineFits ==
  SpineLength \in Nat /\ Spine \in [1..SpineLength -> Sections] /\ IsInjective(Spine)
BY SpineAndDepends, LenProperties DEF SpineLength

\* The sum, section by section.
Sums(sum, f, S) ==
  /\ sum \in [0..SpineLength -> Nat] /\ sum[0] = 0
  /\ \A i \in 1..SpineLength : sum[i] = sum[i - 1] + (IF Spine[i] \in S THEN f[Spine[i]] ELSE 0)

LEMMA SumHasSums ==
  ASSUME NEW f \in [Sections -> Nat], NEW S
  PROVE  \E sum : Sums(sum, f, S) /\ SumOf(f, S) = sum[SpineLength]
<1> DEFINE N == SpineLength
           Add(i) == IF Spine[i] \in S THEN f[Spine[i]] ELSE 0
           F == [x \in (1..N) \X Nat |-> x[2] + Add(x[1])]
           Row(g) == g = [i \in 0..N |-> IF i = 0 THEN 0 ELSE g[i - 1] + Add(i)]
           g0 == CHOOSE g : Row(g)
<1>1. SumOf(f, S) = g0[N]
  BY DEF SumOf, SpineLength
<1>2. N \in Nat /\ \A i \in 1..N : Add(i) \in Nat
  BY SpineFits
<1> HIDE DEF N, Add
<1>3. F \in [(1..N) \X Nat -> Nat]
  BY <1>2
<1>4. PICK g \in [0..N -> Nat] : g[0] = 0 /\ \A i \in 1..N : g[i] = F[<<i, g[i - 1]>>]
  <2> HIDE DEF F
  <2>1. 0 \in Nat
    OBVIOUS
  <2>2. HasRows(Nat, 0, N, F)
    BY <1>2, <1>3, <2>1, Rows
  <2> QED
    BY <2>2 DEF HasRows
<1>5. \A i \in 0..N : g[i] = IF i = 0 THEN 0 ELSE g[i - 1] + Add(i)
  <2>1. ASSUME NEW i \in 1..N PROVE g[i] = g[i - 1] + Add(i)
    <3>1. g[i - 1] \in Nat /\ <<i, g[i - 1]>> \in (1..N) \X Nat
      BY <1>2
    <3>2. F[<<i, g[i - 1]>>] = g[i - 1] + Add(i)
      BY <3>1
    <3> QED
      BY <1>4, <3>2
  <2>2. \A i \in 0..N : i # 0 => i \in 1..N
    BY <1>2
  <2> QED
    BY <1>4, <2>1, <2>2
<1>6. Row(g)
  BY <1>5
<1>7. Row(g0)
  BY <1>6
<1> HIDE DEF g0, F
<1>8. g0[0] = 0 /\ \A i \in 1..N : g0[i] = g0[i - 1] + Add(i)
  BY <1>2, <1>7
<1>9. \A i \in 0..N : g0[i] \in Nat
  <2> DEFINE T == {i \in 0..N : g0[i] \in Nat}
  <2>1. 0 \in T
    BY <1>2, <1>8
  <2>2. ASSUME NEW i \in 1..N, i - 1 \in T PROVE i \in T
    BY <1>2, <1>8, <2>2
  <2> HIDE DEF T
  <2>3. \A i \in 0..N : i \in T
    BY <1>2, <2>1, <2>2, UpTo
  <2> QED
    BY <2>3 DEF T
<1>10. g0 \in [0..N -> Nat]
  BY <1>7, <1>9
<1> QED
  BY <1>1, <1>8, <1>10 DEF Sums, N, Add

LEMMA SumOfNone ==
  ASSUME NEW f \in [Sections -> Nat]
  PROVE  SumOf(f, {}) = 0
<1>1. PICK sum : Sums(sum, f, {}) /\ SumOf(f, {}) = sum[SpineLength]
  BY SumHasSums
<1> DEFINE T == {i \in 0..SpineLength : sum[i] = 0}
<1>2. 0 \in T
  BY <1>1, SpineFits DEF Sums
<1>3. ASSUME NEW i \in 1..SpineLength, i - 1 \in T PROVE i \in T
  BY <1>1, <1>3 DEF Sums
<1> HIDE DEF T
<1>4. SpineLength \in T
  <2>1. SpineLength \in 0..SpineLength /\ SpineLength \in Nat
    BY SpineFits
  <2> QED
    BY <1>2, <1>3, <2>1, UpTo
<1> QED
  BY <1>1, <1>4 DEF T

\* One section more.
LEMMA SumOfOneMore ==
  ASSUME NEW f \in [Sections -> Nat], NEW S, NEW s \in Sections, s \notin S
  PROVE  SumOf(f, S \cup {s}) = SumOf(f, S) + f[s]
<1> DEFINE N == SpineLength
<1>1. PICK old : Sums(old, f, S) /\ SumOf(f, S) = old[N]
  BY SumHasSums
<1>2. PICK new : Sums(new, f, S \cup {s}) /\ SumOf(f, S \cup {s}) = new[N]
  BY SumHasSums
<1>3. PICK p \in 1..N : Spine[p] = s /\ \A i \in 1..N : i # p => Spine[i] # s
  <2>1. \E p \in 1..N : Spine[p] = s
    BY SpineFits DEF Sections, ToSet
  <2> QED
    BY <2>1, SpineFits DEF IsInjective
<1>4. f[s] \in Nat /\ N \in Nat
  BY SpineFits
<1> HIDE DEF N
<1> DEFINE T == {i \in 0..N : new[i] = old[i] + (IF i < p THEN 0 ELSE f[s])}
<1>5. 0 \in T
  BY <1>1, <1>2, <1>3, <1>4 DEF Sums
<1>6. ASSUME NEW i \in 1..N, i - 1 \in T PROVE i \in T
  <2>1. /\ old[i] \in Nat /\ old[i - 1] \in Nat
        /\ new[i] = new[i - 1] + (IF Spine[i] \in S \cup {s} THEN f[Spine[i]] ELSE 0)
        /\ old[i] = old[i - 1] + (IF Spine[i] \in S THEN f[Spine[i]] ELSE 0)
    BY <1>1, <1>2, <1>4 DEF Sums, N
  <2>2. new[i - 1] = old[i - 1] + (IF i - 1 < p THEN 0 ELSE f[s])
    BY <1>6
  <2>3. CASE i = p
    <3>1. new[i] = new[i - 1] + f[s] /\ old[i] = old[i - 1]
      BY <1>3, <2>1, <2>3, <1>4
    <3>2. i - 1 < p
      BY <2>3
    <3> QED
      BY <1>4, <2>1, <2>2, <2>3, <3>1, <3>2
  <2>4. CASE i # p
    <3>1. Spine[i] \in S \cup {s} <=> Spine[i] \in S
      BY <1>3, <2>4
    <3>2. i - 1 < p <=> i < p
      BY <2>4
    <3> DEFINE x == IF Spine[i] \in S THEN f[Spine[i]] ELSE 0
    <3>3. x \in Nat
      BY SpineFits DEF N
    <3>4. new[i] = new[i - 1] + x /\ old[i] = old[i - 1] + x
      BY <2>1, <3>1
    <3> HIDE DEF x
    <3> QED
      BY <1>4, <2>1, <2>2, <3>2, <3>3, <3>4
  <2> QED
    BY <2>3, <2>4
<1> HIDE DEF T
<1>7. N \in T
  <2>1. N \in 0..N
    BY <1>4
  <2> QED
    BY <1>4, <1>5, <1>6, <2>1, UpTo
<1>8. new[N] = old[N] + f[s]
  BY <1>3, <1>4, <1>7 DEF T
<1> QED
  BY <1>1, <1>2, <1>8

LEMMA SumIsNat ==
  ASSUME NEW f \in [Sections -> Nat], NEW S
  PROVE  SumOf(f, S) \in Nat
<1>1. PICK sum : Sums(sum, f, S) /\ SumOf(f, S) = sum[SpineLength]
  BY SumHasSums
<1> QED
  BY <1>1, SpineFits DEF Sums
Places(w) == 1..Len(w.order)
Permuted(w) ==
  /\ w.order \in Seq(Sections) /\ IsInjective(w.order)
  /\ {w.order[i] : i \in Places(w)} = Sections
Until(w, i) == {w.order[j] : j \in 1..i}
Upto(w, i) == SumOf(w.figures, Until(w, i))

LEMMA OrderFits ==
  ASSUME NEW w, Permuted(w)
  PROVE  /\ Len(w.order) \in Nat /\ w.order \in [Places(w) -> Sections] /\ DOMAIN w.order = Places(w)
         /\ \A i, j \in Places(w) : w.order[i] = w.order[j] => i = j
BY LenProperties DEF Permuted, Places, IsInjective

LEMMA BeforeIs ==
  ASSUME NEW w, Permuted(w), NEW i \in Places(w)
  PROVE  Before(w, w.order[i]) = Until(w, i - 1)
<1> DEFINE N == Len(w.order)
           order == w.order
<1>1. /\ N \in Nat /\ order \in [1..N -> Sections] /\ i \in 1..N
      /\ \A j, k \in 1..N : order[j] = order[k] => j = k
  BY OrderFits DEF Places
<1>2. Before(w, order[i]) = {t \in Sections : \E j, k \in 1..N : j < k /\ order[j] = t /\ order[k] = order[i]}
  BY <1>1 DEF Before
<1>3. Until(w, i - 1) = {order[j] : j \in 1..(i - 1)}
  BY DEF Until
<1> HIDE DEF N, order
<1>4. ASSUME NEW t \in Until(w, i - 1)
      PROVE  t \in Before(w, order[i])
  <2>1. PICK j \in 1..(i - 1) : order[j] = t
    BY <1>3
  <2>2. j \in 1..N /\ j < i
    BY <1>1
  <2> QED
    BY <1>1, <1>2, <2>1, <2>2
<1>5. ASSUME NEW t \in Before(w, order[i])
      PROVE  t \in Until(w, i - 1)
  <2>1. PICK j \in 1..N, k \in 1..N : j < k /\ order[j] = t /\ order[k] = order[i]
    BY <1>2
  <2>2. k = i /\ j \in 1..(i - 1)
    BY <1>1, <2>1
  <2> QED
    BY <1>3, <2>1, <2>2
<1> QED
  BY <1>4, <1>5 DEF order

\* What the sections up to a place have of figures.
LEMMA UptoSteps ==
  ASSUME NEW w, Permuted(w), w.figures \in [Sections -> Nat]
  PROVE  /\ Upto(w, 0) = 0
         /\ \A i \in 0..Len(w.order) : Upto(w, i) \in Nat
         /\ \A i \in Places(w) : Upto(w, i) = Upto(w, i - 1) + w.figures[w.order[i]]
         /\ Upto(w, Len(w.order)) = SumOf(w.figures, Sections)
<1>1. Until(w, 0) = {}
  BY DEF Until
<1>2. Upto(w, 0) = 0
  BY <1>1, SumOfNone DEF Upto
<1>3. \A i \in 0..Len(w.order) : Upto(w, i) \in Nat
  BY SumIsNat DEF Upto
<1>4. ASSUME NEW i \in Places(w)
      PROVE  Upto(w, i) = Upto(w, i - 1) + w.figures[w.order[i]]
  <2>1. Until(w, i) = Until(w, i - 1) \cup {w.order[i]}
    BY OrderFits DEF Until, Places
  <2>2. w.order[i] \in Sections /\ w.order[i] \notin Until(w, i - 1)
    BY OrderFits DEF Until, Places
  <2> QED
    BY <2>1, <2>2, SumOfOneMore DEF Upto
<1>5. Until(w, Len(w.order)) = Sections
  BY DEF Until, Permuted, Places
<1> QED
  BY <1>2, <1>3, <1>4, <1>5 DEF Upto

LEMMA UptoGrows ==
  ASSUME NEW w, Permuted(w), w.figures \in [Sections -> Nat],
         NEW i \in 0..Len(w.order), NEW j \in i..Len(w.order)
  PROVE  Upto(w, i) <= Upto(w, j)
<1> DEFINE N == Len(w.order)
           T == {k \in 0..N : k >= i => Upto(w, i) <= Upto(w, k)}
<1>0. N \in Nat
  BY OrderFits
<1>a. \A k \in 1..N : w.order[k] \in Sections
  BY OrderFits DEF Places
<1>b. /\ \A k \in 0..N : Upto(w, k) \in Nat
      /\ \A k \in 1..N : Upto(w, k) = Upto(w, k - 1) + w.figures[w.order[k]]
  BY UptoSteps DEF Places
<1>1. 0 \in T
  BY <1>0, <1>b
<1>2. ASSUME NEW k \in 1..N, k - 1 \in T PROVE k \in T
  <2>1. /\ Upto(w, k) \in Nat /\ Upto(w, k - 1) \in Nat /\ Upto(w, i) \in Nat
        /\ Upto(w, k) = Upto(w, k - 1) + w.figures[w.order[k]]
    BY <1>b, <1>0
  <2>2. w.figures[w.order[k]] \in Nat
    BY <1>a
  <2>3. k >= i => i = k \/ Upto(w, i) <= Upto(w, k - 1)
    BY <1>2, <1>0
  <2> QED
    BY <1>0, <2>1, <2>2, <2>3, SMTT(30)
<1> HIDE DEF T
<1>3. \A k \in 0..N : k \in T
  BY <1>0, <1>1, <1>2, UpTo
<1>4. j \in T
  BY <1>0, <1>3
<1> QED
  BY <1>4 DEF T

\* The figures of a section are numbered through, from the last before it.
LEMMA FiguresAre ==
  ASSUME NEW w, Permuted(w), w.figures \in [Sections -> Nat], NEW i \in Places(w)
  PROVE  Labels(w, w.order[i]).figures = (Upto(w, i - 1) + 1)..Upto(w, i)
<1> DEFINE s == w.order[i]
           a == Upto(w, i - 1)
           n == w.figures[s]
<1>1. s \in Sections /\ i - 1 \in 0..Len(w.order)
  BY OrderFits DEF Places
<1>2. a \in Nat /\ n \in Nat /\ Upto(w, i) = a + n
  BY <1>1, UptoSteps
<1>3. Total(w, Before(w, s)) = a
  <2>1. Total(w, Before(w, s)) = SumOf(w.figures, Before(w, s))
    BY DEF Total, SumOf
  <2> QED
    BY <2>1, BeforeIs DEF Upto
<1>4. Labels(w, s).figures = {k + a : k \in 1..n}
  BY <1>3 DEF Labels, FigureNumber
<1> HIDE DEF s, a, n
<1>5. {k + a : k \in 1..n} = (a + 1)..(a + n)
  <2>1. ASSUME NEW m \in (a + 1)..(a + n) PROVE m \in {k + a : k \in 1..n}
    <3>1. m - a \in 1..n /\ m = (m - a) + a
      BY <1>2
    <3> QED
      BY <3>1
  <2>2. ASSUME NEW k \in 1..n PROVE k + a \in (a + 1)..(a + n)
    BY <1>2
  <2> QED
    BY <2>1, <2>2
<1> QED
  BY <1>2, <1>4, <1>5 DEF s, a, n

-----------------------------------------------------------------------------
(* Numbers of references.                                                  *)
RefList == {l \in Seq(ToSet(Refs)) : IsInjective(l)}

\* The new list begins with the old one and has the sources of C as well.
Lengthens(old, new, C) ==
  /\ new \in RefList /\ Len(old) <= Len(new)
  /\ \A n \in 1..Len(old) : new[n] = old[n]
  /\ ToSet(new) = ToSet(old) \cup C

LEMMA ListFits ==
  ASSUME NEW l \in RefList
  PROVE  /\ Len(l) \in Nat /\ l \in [1..Len(l) -> ToSet(Refs)] /\ DOMAIN l = 1..Len(l)
         /\ ToSet(l) = {l[n] : n \in 1..Len(l)}
         /\ \A m, n \in 1..Len(l) : l[m] = l[n] => m = n
BY LenProperties DEF RefList, IsInjective, ToSet

LEMMA RefsFit ==
  Len(Refs) \in Nat /\ Refs \in [1..Len(Refs) -> ToSet(Refs)]
  /\ ToSet(Refs) = {Refs[n] : n \in 1..Len(Refs)}
BY SpineAndDepends, LenProperties DEF ToSet

\* A source that is not in the list goes to its end.
LEMMA OneLonger ==
  ASSUME NEW l \in RefList, NEW r \in ToSet(Refs), r \notin ToSet(l)
  PROVE  Lengthens(l, Append(l, r), {r})
<1> DEFINE n == Len(l)
           x == Append(l, r)
<1>1. /\ n \in Nat /\ l \in Seq(ToSet(Refs)) /\ l \in [1..n -> ToSet(Refs)]
      /\ ToSet(l) = {l[i] : i \in 1..n} /\ \A i, j \in 1..n : l[i] = l[j] => i = j
  BY ListFits DEF RefList
<1>2. /\ x \in Seq(ToSet(Refs)) /\ Len(x) = n + 1 /\ x[n + 1] = r
      /\ \A i \in 1..n : x[i] = l[i]
  BY <1>1
<1>3. DOMAIN x = 1..(n + 1)
  BY <1>2, LenProperties
<1> HIDE DEF n, x
<1>4. \A i \in 1..n : l[i] # r
  BY <1>1
<1>5. IsInjective(x)
  <2>1. ASSUME NEW i \in 1..(n + 1), NEW j \in 1..(n + 1), x[i] = x[j] PROVE i = j
    <3>1. i \in 1..n \/ i = n + 1
      BY <1>1
    <3>2. j \in 1..n \/ j = n + 1
      BY <1>1
    <3> QED
      BY <1>1, <1>2, <1>4, <2>1, <3>1, <3>2
  <2> QED
    BY <1>3, <2>1 DEF IsInjective
<1>6. ToSet(x) = ToSet(l) \cup {r}
  <2>1. ToSet(x) = {x[i] : i \in 1..(n + 1)}
    BY <1>3 DEF ToSet
  <2>2. ASSUME NEW y \in ToSet(x) PROVE y \in ToSet(l) \cup {r}
    <3>1. PICK i \in 1..(n + 1) : y = x[i]
      BY <2>1
    <3>2. i \in 1..n \/ i = n + 1
      BY <1>1
    <3> QED
      BY <1>1, <1>2, <3>1, <3>2
  <2>3. ASSUME NEW y \in ToSet(l) \cup {r} PROVE y \in ToSet(x)
    <3>1. CASE y = r
      BY <1>1, <1>2, <2>1, <3>1
    <3>2. CASE y \in ToSet(l)
      <4>1. PICK i \in 1..n : y = l[i]
        BY <1>1, <3>2
      <4>2. i \in 1..(n + 1) /\ y = x[i]
        BY <1>1, <1>2, <4>1
      <4> QED
        BY <2>1, <4>2
    <3> QED
      BY <3>1, <3>2
  <2> QED
    BY <2>2, <2>3
<1> QED
  BY <1>1, <1>2, <1>5, <1>6 DEF Lengthens, RefList, n, x

LEMMA LongerAndLonger ==
  ASSUME NEW a \in RefList, NEW b, NEW c, NEW B, NEW C, Lengthens(a, b, B), Lengthens(b, c, C)
  PROVE  Lengthens(a, c, B \cup C)
<1>1. /\ Len(a) \in Nat /\ Len(b) \in Nat /\ Len(c) \in Nat
      /\ Len(a) <= Len(b) /\ Len(b) <= Len(c)
  BY ListFits DEF Lengthens
<1>2. ASSUME NEW n \in 1..Len(a) PROVE c[n] = a[n]
  <2>1. n \in 1..Len(b)
    BY <1>1
  <2> QED
    BY <2>1 DEF Lengthens
<1>3. c \in RefList /\ ToSet(c) = ToSet(a) \cup (B \cup C)
  BY DEF Lengthens
<1> QED
  BY <1>1, <1>2, <1>3 DEF Lengthens

LEMMA StaysAsLong ==
  ASSUME NEW a \in RefList, NEW C, C \subseteq ToSet(a)
  PROVE  Lengthens(a, a, C)
BY ListFits DEF Lengthens

\* What a section cites comes into the list once.
LEMMA CitesLengthen ==
  ASSUME NEW w, NEW s, w.cites[s] \subseteq ToSet(Refs), NEW list \in RefList
  PROVE  Lengthens(list, WithCites(w, list, s), w.cites[s])
<1> DEFINE N == Len(Refs)
           V == RefList
           C == w.cites[s]
           More(j, l) == IF Refs[j] \in C \ ToSet(l) THEN Append(l, Refs[j]) ELSE l
           F == [x \in (1..N) \X V |-> More(x[1], x[2])]
           Row(g) == g = [j \in 0..N |-> IF j = 0 THEN list ELSE More(j, g[j - 1])]
           g0 == CHOOSE g : Row(g)
<1>1. WithCites(w, list, s) = g0[N]
  BY DEF WithCites
<1>2. /\ N \in Nat /\ \A j \in 1..N : Refs[j] \in ToSet(Refs)
      /\ C \subseteq ToSet(Refs) /\ ToSet(Refs) = {Refs[n] : n \in 1..N}
  BY RefsFit
<1>3. ASSUME NEW j \in 1..N, NEW l \in V
      PROVE  Lengthens(l, More(j, l), C \cap {Refs[j]})
  <2>1. CASE Refs[j] \in C \ ToSet(l)
    <3>1. More(j, l) = Append(l, Refs[j]) /\ C \cap {Refs[j]} = {Refs[j]}
      BY <2>1
    <3> QED
      BY <1>2, <2>1, <3>1, OneLonger
  <2>2. CASE Refs[j] \notin C \ ToSet(l)
    <3>1. More(j, l) = l /\ C \cap {Refs[j]} \subseteq ToSet(l)
      BY <2>2
    <3> QED
      BY <3>1, StaysAsLong
  <2> QED
    BY <2>1, <2>2
<1> HIDE DEF N, V, More, C
<1>4. F \in [(1..N) \X V -> V]
  <2>1. \A j \in 1..N : \A l \in V : More(j, l) \in V
    BY <1>3 DEF Lengthens, V
  <2> QED
    BY <2>1
<1>5. HasRows(V, list, N, F)
  <2> HIDE DEF F
  <2> QED
    BY <1>2, <1>4, Rows DEF V
<1>6. PICK g \in [0..N -> V] : g[0] = list /\ \A j \in 1..N : g[j] = F[<<j, g[j - 1]>>]
  <2> HIDE DEF F
  <2> QED
    BY <1>5 DEF HasRows
<1>7. Row(g)
  <2>1. ASSUME NEW j \in 1..N PROVE g[j] = More(j, g[j - 1])
    <3>1. g[j - 1] \in V /\ <<j, g[j - 1]>> \in (1..N) \X V
      BY <1>2
    <3>2. F[<<j, g[j - 1]>>] = More(j, g[j - 1])
      BY <3>1
    <3> QED
      BY <1>6, <3>2
  <2>2. \A j \in 0..N : j # 0 => j \in 1..N
    BY <1>2
  <2>3. \A j \in 0..N : g[j] = IF j = 0 THEN list ELSE More(j, g[j - 1])
    BY <1>6, <2>1, <2>2
  <2> QED
    BY <2>3
<1>8. Row(g0)
  BY <1>7
<1> HIDE DEF g0, F
<1>9. g0[0] = list /\ \A j \in 1..N : g0[j] = More(j, g0[j - 1])
  BY <1>2, <1>8
<1> DEFINE Had(j) == {Refs[k] : k \in 1..j}
           T == {j \in 0..N : Lengthens(list, g0[j], C \cap Had(j))}
<1>10. 0 \in T
  <2>1. C \cap Had(0) = {}
    OBVIOUS
  <2>2. Lengthens(list, list, {})
    BY StaysAsLong
  <2>3. Lengthens(list, g0[0], C \cap Had(0))
    BY <1>9, <2>1, <2>2
  <2> QED
    BY <1>2, <2>3
<1>11. ASSUME NEW j \in 1..N, j - 1 \in T PROVE j \in T
  <2>1. Lengthens(list, g0[j - 1], C \cap Had(j - 1))
    BY <1>11
  <2>2. g0[j - 1] \in V
    BY <2>1 DEF Lengthens, V
  <2>3. Lengthens(g0[j - 1], g0[j], C \cap {Refs[j]})
    BY <1>3, <1>9, <2>2
  <2>4. (C \cap Had(j - 1)) \cup (C \cap {Refs[j]}) = C \cap Had(j)
    <3>1. 1..j = 1..(j - 1) \cup {j}
      BY <1>2
    <3>2. Had(j) = Had(j - 1) \cup {Refs[j]}
      BY <3>1
    <3> HIDE DEF Had
    <3> QED
      BY <3>2
  <2> HIDE DEF Had
  <2>5. Lengthens(list, g0[j], C \cap Had(j))
    BY <2>1, <2>3, <2>4, LongerAndLonger
  <2>6. j \in 0..N
    BY <1>2
  <2> QED
    BY <2>5, <2>6
<1> HIDE DEF T
<1>12. N \in T
  <2>1. N \in 0..N
    BY <1>2
  <2> QED
    BY <1>2, <1>10, <1>11, <2>1, UpTo
<1>13. C \cap Had(N) = C
  BY <1>2
<1> HIDE DEF Had
<1>14. Lengthens(list, g0[N], C)
  BY <1>12, <1>13 DEF T
<1> QED
  BY <1>1, <1>14 DEF C

Citing(w) == w.cites \in [Sections -> SUBSET ToSet(Refs)]
CitedUntil(w, i) == UNION {w.cites[t] : t \in Until(w, i)}

\* The list of references, section by section.
Lists(w, list) ==
  /\ list[0] = <<>>
  /\ \A i \in 0..Len(w.order) : list[i] \in RefList /\ ToSet(list[i]) = CitedUntil(w, i)
  /\ \A i \in 0..Len(w.order) : \A n \in 1..Len(list[i]) :
       n \in 1..Len(References(w)) /\ References(w)[n] = list[i][n]
  /\ References(w) = list[Len(w.order)]

LEMMA EmptyList ==
  <<>> \in RefList /\ ToSet(<<>>) = {}
<1>1. <<>> \in Seq(ToSet(Refs)) /\ Len(<<>>) = 0
  BY EmptySeq
<1>2. DOMAIN <<>> = {}
  BY <1>1, LenProperties
<1> QED
  BY <1>1, <1>2 DEF RefList, IsInjective, ToSet

LEMMA ReferencesHaveLists ==
  ASSUME NEW w, Permuted(w), Citing(w)
  PROVE  \E list : Lists(w, list)
<1> DEFINE N == Len(w.order)
           V == RefList
           More(i, l) == WithCites(w, l, w.order[i])
           F == [x \in (1..N) \X V |-> More(x[1], x[2])]
           Row(g) == g = [i \in 0..N |-> IF i = 0 THEN <<>> ELSE More(i, g[i - 1])]
           g0 == CHOOSE g : Row(g)
           C(i) == w.cites[w.order[i]]
<1>1. References(w) = g0[N]
  BY DEF References
<1>2. N \in Nat /\ \A i \in 1..N : w.order[i] \in Sections
  BY OrderFits DEF Places
<1>3. ASSUME NEW i \in 1..N, NEW l \in V
      PROVE  Lengthens(l, More(i, l), C(i))
  <2>1. w.cites[w.order[i]] \subseteq ToSet(Refs)
    BY <1>2 DEF Citing
  <2> QED
    BY <2>1, CitesLengthen
<1>a. ASSUME NEW i \in 1..N PROVE CitedUntil(w, i) = CitedUntil(w, i - 1) \cup C(i)
  <2>1. 1..i = 1..(i - 1) \cup {i}
    BY <1>2
  <2>2. Until(w, i) = Until(w, i - 1) \cup {w.order[i]}
    BY <2>1 DEF Until
  <2> QED
    BY <2>2 DEF CitedUntil
<1>b. CitedUntil(w, 0) = {}
  BY DEF CitedUntil, Until
<1> HIDE DEF N, V, More, C
<1>4. F \in [(1..N) \X V -> V]
  <2>1. \A i \in 1..N : \A l \in V : More(i, l) \in V
    BY <1>3 DEF Lengthens, V
  <2> QED
    BY <2>1
<1>5. HasRows(V, <<>>, N, F)
  <2> HIDE DEF F
  <2>1. <<>> \in V
    BY EmptyList DEF V
  <2> QED
    BY <1>2, <1>4, <2>1, Rows
<1>6. PICK g \in [0..N -> V] : g[0] = <<>> /\ \A i \in 1..N : g[i] = F[<<i, g[i - 1]>>]
  <2> HIDE DEF F
  <2> QED
    BY <1>5 DEF HasRows
<1>7. Row(g)
  <2>1. ASSUME NEW i \in 1..N PROVE g[i] = More(i, g[i - 1])
    <3>1. g[i - 1] \in V /\ <<i, g[i - 1]>> \in (1..N) \X V
      BY <1>2
    <3>2. F[<<i, g[i - 1]>>] = More(i, g[i - 1])
      BY <3>1
    <3> QED
      BY <1>6, <3>2
  <2>2. \A i \in 0..N : i # 0 => i \in 1..N
    BY <1>2
  <2>3. \A i \in 0..N : g[i] = IF i = 0 THEN <<>> ELSE More(i, g[i - 1])
    BY <1>6, <2>1, <2>2
  <2> QED
    BY <2>3
<1>8. Row(g0)
  BY <1>7
<1> HIDE DEF g0, F
<1>9. g0[0] = <<>> /\ \A i \in 1..N : g0[i] = More(i, g0[i - 1])
  BY <1>2, <1>8
<1> DEFINE T == {i \in 0..N : /\ g0[i] \in V /\ ToSet(g0[i]) = CitedUntil(w, i)
                              /\ \A k \in 0..i : \A n \in 1..Len(g0[k]) :
                                   n \in 1..Len(g0[i]) /\ g0[i][n] = g0[k][n]}
<1>10. 0 \in T
  <2>1. g0[0] \in V /\ ToSet(g0[0]) = CitedUntil(w, 0)
    BY <1>9, <1>b, EmptyList DEF V
  <2>2. \A k \in 0..0 : \A n \in 1..Len(g0[k]) : n \in 1..Len(g0[0]) /\ g0[0][n] = g0[k][n]
    OBVIOUS
  <2> QED
    BY <1>2, <2>1, <2>2
<1>11. ASSUME NEW i \in 1..N, i - 1 \in T PROVE i \in T
  <2>1. /\ g0[i - 1] \in V /\ ToSet(g0[i - 1]) = CitedUntil(w, i - 1)
        /\ \A k \in 0..(i - 1) : \A n \in 1..Len(g0[k]) :
             n \in 1..Len(g0[i - 1]) /\ g0[i - 1][n] = g0[k][n]
    BY <1>11
  <2>2. Lengthens(g0[i - 1], g0[i], C(i))
    BY <1>3, <1>9, <2>1
  <2>3. g0[i] \in V /\ ToSet(g0[i]) = CitedUntil(w, i)
    BY <1>a, <2>1, <2>2 DEF Lengthens, V
  <2>4. Len(g0[i - 1]) \in Nat /\ Len(g0[i]) \in Nat
    BY <2>1, <2>3, ListFits DEF V
  <2>5. \A n \in 1..Len(g0[i - 1]) : n \in 1..Len(g0[i]) /\ g0[i][n] = g0[i - 1][n]
    BY <2>2, <2>4 DEF Lengthens
  <2>6. ASSUME NEW k \in 0..i, NEW n \in 1..Len(g0[k])
        PROVE  n \in 1..Len(g0[i]) /\ g0[i][n] = g0[k][n]
    <3>1. CASE k = i
      BY <2>6, <3>1
    <3>2. CASE k # i
      <4>1. k \in 0..(i - 1)
        BY <1>2, <3>2
      <4> QED
        BY <2>1, <2>5, <2>6, <4>1
    <3> QED
      BY <3>1, <3>2
  <2>7. i \in 0..N
    BY <1>2
  <2> QED
    BY <2>3, <2>6, <2>7
<1> HIDE DEF T
<1>12. \A i \in 0..N : i \in T
  BY <1>2, <1>10, <1>11, UpTo
<1>13. \A i \in 0..N : g0[i] \in V /\ ToSet(g0[i]) = CitedUntil(w, i)
  BY <1>12 DEF T
<1>14. \A i \in 0..N : \A n \in 1..Len(g0[i]) : n \in 1..Len(g0[N]) /\ g0[N][n] = g0[i][n]
  <2>1. N \in T
    BY <1>2, <1>12
  <2> QED
    BY <2>1 DEF T
<1>15. Lists(w, g0)
  BY <1>1, <1>9, <1>13, <1>14 DEF Lists, V, N
<1> QED
  BY <1>15

\* A source has the number of its place in the list.
LEMMA CiteNumberIs ==
  ASSUME NEW w, References(w) \in RefList, NEW n \in 1..Len(References(w))
  PROVE  CiteNumber(w, References(w)[n]) = n
<1> DEFINE R == References(w)
<1>1. DOMAIN R = 1..Len(R) /\ \A i, j \in 1..Len(R) : R[i] = R[j] => i = j
  BY ListFits
<1>2. CiteNumber(w, R[n]) = CHOOSE m \in DOMAIN R : R[m] = R[n]
  BY DEF CiteNumber
<1> HIDE DEF R
<1> QED
  BY <1>1, <1>2 DEF R

-----------------------------------------------------------------------------
(* Figures and references of a manuscript that is assembled.               *)
Consistent(view) ==
  LET label == view.labels
      at(s) == CHOOSE i \in DOMAIN view.order : view.order[i] = s
  IN  /\ UNION {label[s].figures : s \in Sections}
           = 1..Total([figures |-> [s \in Sections |-> Cardinality(label[s].figures)]], Sections)
      /\ \A s, t \in Sections : at(s) < at(t) =>
           \A m \in label[s].figures, n \in label[t].figures : m < n
      /\ \A s \in Sections : \A r \in label[s].refers : r[2] \in label[r[1]].figures
      /\ \A s \in Sections : \A c \in label[s].cites :
           /\ view.references[c[2]] = c[1]
           /\ \A n \in 1..(c[2] - 1) : \E t \in Sections :
                /\ at(t) <= at(s)
                /\ <<view.references[n], n>> \in label[t].cites
      /\ IsInjective(view.references)

Numbered(w) ==
  /\ Permuted(w) /\ Citing(w)
  /\ w.figures \in [Sections -> Nat] /\ w.refers \in [Sections -> SUBSET Sections]

At(w, s) == CHOOSE i \in Places(w) : w.order[i] = s

LEMMA SectionsHavePlaces ==
  ASSUME NEW w, Permuted(w), NEW s \in Sections
  PROVE  At(w, s) \in Places(w) /\ w.order[At(w, s)] = s
<1>1. \E i \in Places(w) : w.order[i] = s
  BY DEF Permuted
<1> QED
  BY <1>1 DEF At

LEMMA FiguresAreNumbered ==
  ASSUME NEW w, Numbered(w)
  PROVE  UNION {Labels(w, s).figures : s \in Sections} = 1..SumOf(w.figures, Sections)
<1> DEFINE N == Len(w.order)
           fig(s) == Labels(w, s).figures
           T == {i \in 0..N : UNION {fig(s) : s \in Until(w, i)} = 1..Upto(w, i)}
<1>0. /\ N \in Nat /\ Permuted(w) /\ w.figures \in [Sections -> Nat]
      /\ \A i \in 1..N : w.order[i] \in Sections
  BY OrderFits DEF Numbered, Places
<1>1. /\ Upto(w, 0) = 0 /\ \A i \in 0..N : Upto(w, i) \in Nat
      /\ \A i \in 1..N : Upto(w, i) = Upto(w, i - 1) + w.figures[w.order[i]]
      /\ Upto(w, N) = SumOf(w.figures, Sections)
  BY <1>0, UptoSteps DEF Places
<1>2. \A i \in 1..N : fig(w.order[i]) = (Upto(w, i - 1) + 1)..Upto(w, i)
  BY <1>0, FiguresAre DEF Places
<1> HIDE DEF fig
<1>3. 0 \in T
  <2>1. Until(w, 0) = {}
    BY DEF Until
  <2> QED
    BY <1>0, <1>1, <2>1
<1>4. ASSUME NEW i \in 1..N, i - 1 \in T PROVE i \in T
  <2>1. 1..i = 1..(i - 1) \cup {i}
    BY <1>0
  <2>2. Until(w, i) = Until(w, i - 1) \cup {w.order[i]}
    BY <2>1 DEF Until
  <2>3. UNION {fig(s) : s \in Until(w, i)} = (UNION {fig(s) : s \in Until(w, i - 1)}) \cup fig(w.order[i])
    BY <2>2
  <2>4. UNION {fig(s) : s \in Until(w, i - 1)} = 1..Upto(w, i - 1)
    BY <1>4
  <2> DEFINE a == Upto(w, i - 1)
             b == Upto(w, i)
             n == w.figures[w.order[i]]
  <2>5. a \in Nat /\ b = a + n /\ n \in Nat
    BY <1>0, <1>1
  <2>6. UNION {fig(s) : s \in Until(w, i)} = (1..a) \cup ((a + 1)..b)
    BY <1>2, <2>3, <2>4
  <2> HIDE DEF a, b, n
  <2>7. (1..a) \cup ((a + 1)..b) = 1..b
    BY <2>5
  <2>8. UNION {fig(s) : s \in Until(w, i)} = 1..Upto(w, i)
    BY <2>6, <2>7 DEF b
  <2> QED
    BY <1>0, <2>8
<1> HIDE DEF T
<1>5. N \in T
  <2>1. N \in 0..N
    BY <1>0
  <2> QED
    BY <1>0, <1>3, <1>4, <2>1, UpTo
<1>6. Until(w, N) = Sections
  BY <1>0 DEF Until, Permuted, Places
<1> QED
  BY <1>1, <1>5, <1>6 DEF T, fig

LEMMA SomeFigures ==
  ASSUME NEW w, Numbered(w), NEW s \in Sections
  PROVE  Cardinality(Labels(w, s).figures) = w.figures[s]
<1> DEFINE i == At(w, s)
           a == Upto(w, i - 1)
           b == Upto(w, i)
           n == w.figures[s]
<1>1. /\ Permuted(w) /\ w.figures \in [Sections -> Nat]
      /\ i \in Places(w) /\ w.order[i] = s
  BY SectionsHavePlaces DEF Numbered
<1>2. Labels(w, s).figures = (a + 1)..b
  BY <1>1, FiguresAre
<1>3. a \in Nat /\ n \in Nat /\ b = a + n
  <2>1. i - 1 \in 0..Len(w.order)
    BY <1>1, OrderFits DEF Places
  <2> QED
    BY <1>1, <2>1, UptoSteps
<1> HIDE DEF a, b, n
<1>4. Cardinality((a + 1)..b) = n
  <2>1. a + 1 \in Int /\ b \in Int
    BY <1>3
  <2>2. Cardinality((a + 1)..b) = IF a + 1 > b THEN 0 ELSE b - (a + 1) + 1
    BY <2>1, FS_Interval
  <2> QED
    BY <1>3, <2>2
<1> QED
  BY <1>2, <1>4 DEF n

LEMMA FiguresAreInOrder ==
  ASSUME NEW w, Numbered(w), NEW s \in Sections, NEW t \in Sections, At(w, s) < At(w, t),
         NEW m \in Labels(w, s).figures, NEW n \in Labels(w, t).figures
  PROVE  m < n
<1> DEFINE i == At(w, s)
           j == At(w, t)
<1>1. /\ Permuted(w) /\ w.figures \in [Sections -> Nat]
      /\ i \in Places(w) /\ w.order[i] = s /\ j \in Places(w) /\ w.order[j] = t /\ i < j
  BY SectionsHavePlaces DEF Numbered
<1> HIDE DEF i, j
<1>2. m \in (Upto(w, i - 1) + 1)..Upto(w, i) /\ n \in (Upto(w, j - 1) + 1)..Upto(w, j)
  BY <1>1, FiguresAre
<1>3. /\ i \in 0..Len(w.order) /\ j - 1 \in i..Len(w.order) /\ i - 1 \in 0..Len(w.order)
      /\ j - 1 \in 0..Len(w.order) /\ j \in 0..Len(w.order)
  BY <1>1, OrderFits DEF Places
<1>4. Upto(w, i) <= Upto(w, j - 1)
  BY <1>1, <1>3, UptoGrows
<1>5. /\ Upto(w, i) \in Nat /\ Upto(w, i - 1) \in Nat /\ Upto(w, j) \in Nat /\ Upto(w, j - 1) \in Nat
  BY <1>1, <1>3, UptoSteps
<1> QED
  BY <1>2, <1>4, <1>5

LEMMA RefersAreFigures ==
  ASSUME NEW w, Numbered(w), NEW s \in Sections, \A t \in w.refers[s] : w.figures[t] > 0,
         NEW r \in Labels(w, s).refers
  PROVE  r[2] \in Labels(w, r[1]).figures
<1>1. Labels(w, s).refers = {<<t, FigureNumber(w, t, 1)>> : t \in w.refers[s]}
  BY DEF Labels
<1>2. PICK t \in w.refers[s] : r = <<t, FigureNumber(w, t, 1)>>
  BY <1>1
<1>3. t \in Sections /\ w.figures[t] \in Nat /\ 1 \in 1..w.figures[t]
  BY DEF Numbered
<1>4. Labels(w, t).figures = {FigureNumber(w, t, k) : k \in 1..w.figures[t]}
  BY DEF Labels
<1>5. FigureNumber(w, t, 1) \in Labels(w, t).figures
  BY <1>3, <1>4
<1> QED
  BY <1>2, <1>5

LEMMA CitesAreNumbered ==
  ASSUME NEW w, Numbered(w)
  PROVE  /\ IsInjective(References(w))
         /\ \A s \in Sections : \A c \in Labels(w, s).cites :
              /\ References(w)[c[2]] = c[1]
              /\ \A n \in 1..(c[2] - 1) : \E t \in Sections :
                   At(w, t) <= At(w, s) /\ <<References(w)[n], n>> \in Labels(w, t).cites
<1> DEFINE R == References(w)
           N == Len(w.order)
<1>1. Permuted(w) /\ Citing(w) /\ N \in Nat
  BY OrderFits DEF Numbered
<1>2. PICK list : Lists(w, list)
  BY <1>1, ReferencesHaveLists
<1>3. R \in RefList /\ R = list[N]
  BY <1>1, <1>2 DEF Lists
<1>4. ASSUME NEW s \in Sections PROVE Labels(w, s).cites = {<<r, CiteNumber(w, r)>> : r \in w.cites[s]}
  BY DEF Labels
<1>5. ASSUME NEW n \in 1..Len(R) PROVE CiteNumber(w, R[n]) = n
  BY <1>3, CiteNumberIs
<1>6. \A i \in 0..N : /\ list[i] \in RefList /\ ToSet(list[i]) = CitedUntil(w, i)
                      /\ \A n \in 1..Len(list[i]) : n \in 1..Len(R) /\ R[n] = list[i][n]
  BY <1>2 DEF Lists
<1> HIDE DEF R, N
<1>7. ASSUME NEW s \in Sections, NEW c \in Labels(w, s).cites
      PROVE  /\ R[c[2]] = c[1]
             /\ \A n \in 1..(c[2] - 1) : \E t \in Sections :
                  At(w, t) <= At(w, s) /\ <<R[n], n>> \in Labels(w, t).cites
  <2> DEFINE i == At(w, s)
  <2>1. i \in 1..N /\ w.order[i] = s /\ i \in 0..N
    BY <1>1, SectionsHavePlaces DEF Places, N
  <2> HIDE DEF i
  <2>2. PICK r \in w.cites[s] : c = <<r, CiteNumber(w, r)>>
    BY <1>4, <1>7
  <2>3. r \in ToSet(list[i])
    <3>1. s \in Until(w, i)
      BY <2>1 DEF Until
    <3> QED
      BY <1>6, <2>1, <2>2, <3>1 DEF CitedUntil
  <2>4. PICK p \in 1..Len(list[i]) : list[i][p] = r
    BY <1>6, <2>1, <2>3, ListFits
  <2>5. p \in 1..Len(R) /\ R[p] = r /\ Len(list[i]) \in Nat
    BY <1>6, <2>1, <2>4, ListFits
  <2>6. c[1] = r /\ c[2] = p
    BY <1>5, <2>2, <2>5
  <2>7. ASSUME NEW n \in 1..(p - 1)
        PROVE  \E t \in Sections : At(w, t) <= At(w, s) /\ <<R[n], n>> \in Labels(w, t).cites
    <3>1. n \in 1..Len(list[i])
      BY <2>4, <2>5
    <3>2. n \in 1..Len(R) /\ R[n] = list[i][n]
      BY <1>6, <2>1, <3>1
    <3>3. R[n] \in CitedUntil(w, i)
      BY <1>6, <2>1, <3>1, <3>2, ListFits
    <3>4. PICK j \in 1..i : R[n] \in w.cites[w.order[j]]
      BY <3>3 DEF CitedUntil, Until
    <3>5. j \in 1..N /\ j <= i
      BY <1>1, <2>1, <3>4 DEF N
    <3>6. w.order[j] \in Sections /\ At(w, w.order[j]) = j
      <4>1. w.order[j] \in Sections /\ j \in Places(w)
        BY <1>1, <3>5, OrderFits DEF Places, N
      <4>2. At(w, w.order[j]) \in Places(w) /\ w.order[At(w, w.order[j])] = w.order[j]
        BY <1>1, <4>1, SectionsHavePlaces
      <4> QED
        BY <1>1, <4>1, <4>2, OrderFits
    <3>7. <<R[n], n>> \in Labels(w, w.order[j]).cites
      BY <1>4, <1>5, <3>2, <3>4, <3>6
    <3> QED
      BY <3>5, <3>6, <3>7 DEF i
  <2> QED
    BY <2>5, <2>6, <2>7
<1>8. IsInjective(R)
  BY <1>3 DEF RefList
<1> QED
  BY <1>7, <1>8 DEF R

LEMMA NumberedIsConsistent ==
  ASSUME NEW w, Numbered(w), \A s \in Sections : \A t \in w.refers[s] : w.figures[t] > 0
  PROVE  Consistent(View(w))
<1> DEFINE view == View(w)
           label == view.labels
           at(s) == CHOOSE i \in DOMAIN view.order : view.order[i] = s
<1>1. /\ view.order = w.order /\ view.references = References(w)
      /\ \A s \in Sections : label[s] = Labels(w, s)
  BY DEF View
<1>2. \A s \in Sections : at(s) = At(w, s)
  BY <1>1, OrderFits DEF At, Numbered
<1> HIDE DEF view, at
<1>3. UNION {label[s].figures : s \in Sections}
        = 1..Total([figures |-> [s \in Sections |-> Cardinality(label[s].figures)]], Sections)
  <2> DEFINE f == [s \in Sections |-> Cardinality(label[s].figures)]
  <2>1. f = w.figures
    <3>1. \A s \in Sections : Cardinality(label[s].figures) = w.figures[s]
      BY <1>1, SomeFigures
    <3>2. w.figures \in [Sections -> Nat]
      BY DEF Numbered
    <3> QED
      BY <3>1, <3>2
  <2>2. Total([figures |-> f], Sections) = SumOf([figures |-> f].figures, Sections)
    BY DEF Total, SumOf
  <2>3. UNION {label[s].figures : s \in Sections} = UNION {Labels(w, s).figures : s \in Sections}
    BY <1>1
  <2> HIDE DEF f
  <2>4. Total([figures |-> f], Sections) = SumOf(w.figures, Sections)
    BY <2>1, <2>2
  <2>5. UNION {Labels(w, s).figures : s \in Sections} = 1..SumOf(w.figures, Sections)
    BY FiguresAreNumbered
  <2> QED
    BY <2>3, <2>4, <2>5 DEF f
<1>4. \A s, t \in Sections : at(s) < at(t) =>
        \A m \in label[s].figures, n \in label[t].figures : m < n
  BY <1>1, <1>2, FiguresAreInOrder
<1>5. \A s \in Sections : \A r \in label[s].refers : r[2] \in label[r[1]].figures
  <2>1. ASSUME NEW s \in Sections, NEW r \in label[s].refers
        PROVE  r[1] \in Sections /\ r[2] \in Labels(w, r[1]).figures
    <3>1. r \in Labels(w, s).refers
      BY <1>1, <2>1
    <3>2. Labels(w, s).refers = {<<t, FigureNumber(w, t, 1)>> : t \in w.refers[s]}
      BY DEF Labels
    <3>3. r[1] \in w.refers[s]
      BY <3>1, <3>2
    <3>4. r[1] \in Sections
      BY <3>3 DEF Numbered
    <3> QED
      BY <3>1, <3>4, RefersAreFigures
  <2> QED
    BY <1>1, <2>1
<1>6. /\ IsInjective(view.references)
      /\ \A s \in Sections : \A c \in label[s].cites :
           /\ view.references[c[2]] = c[1]
           /\ \A n \in 1..(c[2] - 1) : \E t \in Sections :
                at(t) <= at(s) /\ <<view.references[n], n>> \in label[t].cites
  BY <1>1, <1>2, CitesAreNumbered
<1> QED
  BY <1>3, <1>4, <1>5, <1>6 DEF Consistent, view, at

\* A manuscript can always be numbered, and what it shows was.
Ordered(w) == Numbered(w) /\ (w.view # None => Consistent(w.view))
NumbersFit ==
  /\ Ordered(work) /\ (package # None => Ordered(package.of))
  /\ (task # None => Ordered(task.working))

LEMMA IsAList ==
  ASSUME NEW V, NEW N \in Nat, NEW r \in [1..N -> V]
  PROVE  r \in Seq(V)
<1>1. r = [i \in 1..N |-> r[i]] /\ \A i \in 1..N : r[i] \in V
  OBVIOUS
<1>2. [i \in 1..N |-> r[i]] \in Seq(V)
  BY <1>1, IsASeq
<1> QED
  BY <1>1, <1>2

LEMMA ReverseIsPermuted ==
  ASSUME NEW w, Permuted(w), NEW x, x.order = Reverse(w.order)
  PROVE  Permuted(x)
<1> DEFINE N == Len(w.order)
           r == x.order
<1>1. /\ N \in Nat /\ w.order \in [1..N -> Sections] /\ w.order \in Seq(Sections)
      /\ \A i, j \in 1..N : w.order[i] = w.order[j] => i = j
      /\ {w.order[i] : i \in 1..N} = Sections
  BY OrderFits DEF Places, Permuted
<1>2. r = [i \in 1..N |-> w.order[(N - i) + 1]]
  BY DEF Reverse
<1> HIDE DEF N, r
<1>3. /\ DOMAIN r = 1..N /\ r \in [1..N -> Sections]
      /\ \A i \in 1..N : r[i] = w.order[(N - i) + 1] /\ (N - i) + 1 \in 1..N
  <2>1. \A i \in 1..N : (N - i) + 1 \in 1..N
    BY <1>1
  <2>2. \A i \in 1..N : w.order[(N - i) + 1] \in Sections
    BY <1>1, <2>1
  <2> QED
    BY <1>2, <2>1, <2>2
<1>4. r \in Seq(Sections) /\ Len(r) = N
  <2>1. r \in Seq(Sections)
    BY <1>1, <1>3, IsAList
  <2> QED
    BY <1>1, <1>3, <2>1, LenProperties
<1>5. IsInjective(r)
  <2>1. ASSUME NEW i \in 1..N, NEW j \in 1..N, r[i] = r[j] PROVE i = j
    <3>1. (N - i) + 1 = (N - j) + 1
      BY <1>1, <1>3, <2>1
    <3> QED
      BY <1>1, <3>1
  <2> QED
    BY <1>3, <2>1 DEF IsInjective
<1>6. {r[i] : i \in 1..N} = Sections
  <2>1. ASSUME NEW s \in Sections PROVE \E i \in 1..N : r[i] = s
    <3>1. PICK j \in 1..N : w.order[j] = s
      BY <1>1
    <3>2. (N - j) + 1 \in 1..N /\ (N - ((N - j) + 1)) + 1 = j
      BY <1>1
    <3> QED
      BY <1>3, <3>1, <3>2
  <2> QED
    BY <1>3, <2>1
<1> QED
  BY <1>4, <1>5, <1>6 DEF Permuted, Places, r

LEMMA PermutedStays ==
  ASSUME NEW w, Permuted(w), NEW x, x.order = w.order
  PROVE  Permuted(x)
BY DEF Permuted, Places

\* What numbering asks of a directory.
Counts(x, w) ==
  x.order = w.order /\ x.figures = w.figures /\ x.cites = w.cites /\ x.refers = w.refers

LEMMA CountsStay ==
  ASSUME NEW w, Numbered(w), NEW x, Counts(x, w)
  PROVE  Numbered(x)
BY PermutedStays DEF Numbered, Counts, Citing

LEMMA EditsAreNumbered ==
  ASSUME DOMAIN work = Fields, Numbered(work), HostEdits
  PROVE  Numbered(work')
<1>1. ASSUME NEW s \in Sections, EditSource(s) \/ Redefine(s) \/ ReplaceImage(s) \/ Rewrite(s)
      PROVE  Counts(work', work)
  BY <1>1 DEF EditSource, Redefine, ReplaceImage, Rewrite, Edit, Counts, Fields
<1>2. ASSUME NEW s \in Sections, NEW id, Show(s, id) \/ Unbind(s, id)
      PROVE  Counts(work', work)
  BY <1>2 DEF Show, Unbind, Edit, Counts, Fields
<1>3. ASSUME NEW s \in Sections, NEW id, NEW o, Bind(s, id, o)
      PROVE  Counts(work', work)
  BY <1>3 DEF Bind, Edit, Counts, Fields
<1>4. ASSUME NEW s \in Sections, NEW t \in Sections, Depend(s, t)
      PROVE  Counts(work', work)
  BY <1>4 DEF Depend, Edit, Counts, Fields
<1>5. ASSUME NEW s \in Sections, NEW r, EditMetadata(s, r)
      PROVE  Counts(work', work)
  BY <1>5 DEF EditMetadata, Edit, Counts, Fields
<1>6. ASSUME NEW s \in Sections, NEW v, NEW o, ApplyRevision(s, v, o)
      PROVE  Counts(work', work)
  BY <1>6 DEF ApplyRevision, Edit, Counts, Fields
<1>7. ASSUME ChangeTerms PROVE Counts(work', work)
  BY <1>7 DEF ChangeTerms, Edit, Counts, Fields
<1>8. ASSUME Counts(work', work) PROVE Numbered(work')
  BY <1>8, CountsStay
<1>9. ASSUME NEW s \in Sections, AddFigure(s) \/ DropFigure(s)
      PROVE  Numbered(work')
  <2>1. /\ work'.order = work.order /\ work'.cites = work.cites /\ work'.refers = work.refers
        /\ \/ work'.figures = [work.figures EXCEPT ![s] = @ + 1]
           \/ work.figures[s] > 0 /\ work'.figures = [work.figures EXCEPT ![s] = @ - 1]
    BY <1>9 DEF AddFigure, DropFigure, Edit, Fields
  <2>2. work'.figures \in [Sections -> Nat]
    BY <2>1 DEF Numbered
  <2> QED
    BY <2>1, <2>2, PermutedStays DEF Numbered, Citing
<1>10. ASSUME NEW s \in Sections, NEW t \in Sections, Refer(s, t)
       PROVE  Numbered(work')
  <2>1. /\ work'.order = work.order /\ work'.cites = work.cites /\ work'.figures = work.figures
        /\ work'.refers = [work.refers EXCEPT ![s] = IF t \in @ THEN @ \ {t} ELSE @ \cup {t}]
    BY <1>10 DEF Refer, Edit, Fields
  <2>2. work'.refers \in [Sections -> SUBSET Sections]
    BY <2>1 DEF Numbered
  <2> QED
    BY <2>1, <2>2, PermutedStays DEF Numbered, Citing
<1>11. ASSUME NEW s \in Sections, NEW r \in ToSet(Refs), Cite(s, r)
       PROVE  Numbered(work')
  <2>1. /\ work'.order = work.order /\ work'.refers = work.refers /\ work'.figures = work.figures
        /\ work'.cites = [work.cites EXCEPT ![s] = IF r \in @ THEN @ \ {r} ELSE @ \cup {r}]
    BY <1>11 DEF Cite, Edit, Fields
  <2>2. work'.cites \in [Sections -> SUBSET ToSet(Refs)]
    BY <2>1 DEF Numbered, Citing
  <2> QED
    BY <2>1, <2>2, PermutedStays DEF Numbered, Citing
<1>12. ASSUME Reorder PROVE Numbered(work')
  <2>1. /\ work'.order = Reverse(work.order) /\ work'.cites = work.cites
        /\ work'.refers = work.refers /\ work'.figures = work.figures
    BY <1>12 DEF Reorder, Edit, Fields
  <2>2. Permuted(work')
    BY <2>1, ReverseIsPermuted DEF Numbered
  <2> QED
    BY <2>1, <2>2 DEF Numbered, Citing
<1> QED
  BY <1>1, <1>2, <1>3, <1>4, <1>5, <1>6, <1>7, <1>8, <1>9, <1>10, <1>11, <1>12 DEF HostEdits

LEMMA AssembledIsOrdered ==
  ASSUME NEW w, DOMAIN w = Fields, Numbered(w), Assembles(w)
  PROVE  Ordered(Assembled(w))
<1> DEFINE copies == [s \in Sections |-> [id \in DOMAIN w.bind[s] |-> Evidence(w, s)[id]]]
           bound == [s \in Sections |-> DOMAIN w.bind[s]]
           state == WritingState(w)
           view == View(w)
           x == Assembled(w)
<1>1. x = [w EXCEPT !.copies = copies, !.bound = bound, !.stage = "candidate", !.state = state,
                    !.view = view]
  BY DEF Assembled
<1>2. Consistent(view)
  BY NumberedIsConsistent DEF Assembles, DraftFits
<1> HIDE DEF copies, bound, state, view, x
<1>3. Counts(x, w) /\ x.view = view
  BY <1>1 DEF Counts, Fields
<1> QED
  BY <1>2, <1>3, CountsStay DEF Ordered, x

(* Figures are numbered through in the order of publication and referred   *)
(* to by their numbers; every source has one number in all sections, and   *)
(* sources are numbered as they are first cited, for any number of         *)
(* sections, figures and sources (_object_numbers, assemble_manuscript).   *)
THEOREM NumbersAreInOrder ==
  Spec => []NumbersAreConsistent
<1>1. Init => NumbersFit
  <2> SUFFICES ASSUME Init PROVE NumbersFit
    OBVIOUS
  <2>1. /\ work.order = Spine /\ work.view = None
        /\ work.cites = [s \in Sections |-> {}] /\ work.refers = [s \in Sections |-> {}]
        /\ work.figures = [s \in Sections |-> IF Local[s] # {} THEN 1 ELSE 0]
        /\ package = None /\ task = None
    BY DEF Init
  <2>2. {Spine[i] : i \in 1..Len(Spine)} = Sections
    BY SpineAndDepends, LenProperties DEF Sections, ToSet
  <2>3. Permuted(work)
    BY <2>1, <2>2, SpineAndDepends DEF Permuted, Places
  <2>4. Numbered(work)
    BY <2>1, <2>3 DEF Numbered, Citing
  <2> QED
    BY <2>1, <2>4 DEF NumbersFit, Ordered
<1>2. IInv /\ NumbersFit /\ [Next]_vars => NumbersFit'
  <2> SUFFICES ASSUME IInv, NumbersFit, [Next]_vars PROVE NumbersFit'
    OBVIOUS
  <2>0. /\ DOMAIN work = Fields /\ work.depends \in [Sections -> SUBSET Sections]
        /\ Numbered(work) /\ Ordered(work)
    BY DEF IInv, Coherent, NumbersFit, Ordered
  <2>1. CASE HostEdits
    <3>1. Untouched(work', work) /\ UNCHANGED <<package, task, prior, changes>>
      BY <2>0, <2>1, EditsAreUntouched
    <3>2. Numbered(work')
      BY <2>0, <2>1, EditsAreNumbered
    <3> QED
      BY <3>1, <3>2 DEF NumbersFit, Ordered, Untouched
  <2>2. CASE PrepareManuscript
    <3> DEFINE copies == [s \in Sections |-> [id \in DOMAIN work.bind[s] |-> Evidence(work, s)[id]]]
               bound == [s \in Sections |-> DOMAIN work.bind[s]]
               state == WritingState(work)
               view == View(work)
               x == Assembled(work)
    <3>1. x = [work EXCEPT !.copies = copies, !.bound = bound, !.stage = "candidate",
                           !.state = state, !.view = view]
      BY DEF Assembled
    <3>2. /\ work' = [x EXCEPT !.stage = "package", !.state = None, !.view = None]
          /\ UNCHANGED <<package, task>>
      BY <2>2 DEF PrepareManuscript
    <3> HIDE DEF copies, bound, state, view, x
    <3>3. Counts(x, work) /\ DOMAIN x = Fields
      BY <2>0, <3>1 DEF Counts, Fields
    <3>4. Counts(work', work) /\ work'.view = None
      BY <3>2, <3>3 DEF Counts, Fields
    <3>5. Ordered(work')
      BY <2>0, <3>4, CountsStay DEF Ordered
    <3> QED
      BY <3>2, <3>5 DEF NumbersFit
  <2>3. CASE AssembleManuscript \/ RefreshDisplay
    <3>1. work' = Assembled(work) /\ Assembles(work) /\ UNCHANGED <<package, task>>
      BY <2>3 DEF AssembleManuscript, RefreshDisplay, Refreshes
    <3>2. Ordered(work')
      BY <2>0, <3>1, AssembledIsOrdered
    <3> QED
      BY <3>1, <3>2 DEF NumbersFit
  <2>4. CASE PrepareReview
    <3>1. work' = work /\ task' = task /\ package' = [of |-> work, returned |-> FALSE]
      BY <2>4 DEF PrepareReview
    <3>2. package'.of = work
      BY <3>1
    <3> QED
      BY <2>0, <3>1, <3>2 DEF NumbersFit
  <2>5. CASE ImportReview
    <3>1. work' = work /\ task' = task /\ package # None
          /\ package' = [package EXCEPT !.returned = TRUE]
      BY <2>5 DEF ImportReview
    <3>2. DOMAIN package = {"of", "returned"}
      BY <3>1 DEF IInv, PackageFits
    <3>3. package'.of = package.of
      BY <3>1, <3>2
    <3> QED
      BY <3>1, <3>3 DEF NumbersFit
  <2>6. CASE AdoptRevision
    BY <2>6 DEF AdoptRevision, NumbersFit
  <2>7. ASSUME NEW s \in Sections, HostDrafts(s) PROVE NumbersFit'
    <3>1. /\ work' = [work EXCEPT !.drafted = @ \cup {s}]
          /\ UNCHANGED <<package, task>>
      BY <2>7 DEF HostDrafts
    <3>2. Counts(work', work) /\ work'.view = work.view
      BY <2>0, <3>1 DEF Fields, Counts
    <3>3. Ordered(work')
      BY <2>0, <3>2, CountsStay DEF Ordered
    <3> QED
      BY <3>1, <3>3 DEF NumbersFit
  <2>8. ASSUME NEW refresh \in BOOLEAN, PrepareRevision(refresh) PROVE NumbersFit'
    <3> DEFINE w == package.of
               working == IF refresh THEN Assembled(w) ELSE w
    <3>1. /\ package # None /\ work' = work /\ package' = package
          /\ task' = [quote |-> w.view.text, refreshed |-> refresh, working |-> working]
          /\ refresh => Assembles(w)
      BY <2>8 DEF PrepareRevision, Refreshes
    <3>2. Ordered(w) /\ DOMAIN w = Fields
      BY <3>1 DEF NumbersFit, IInv, PackageFits, Coherent
    <3> HIDE DEF w
    <3>3. Ordered(working)
      BY <3>1, <3>2, AssembledIsOrdered DEF Ordered
    <3> HIDE DEF working
    <3>4. task'.working = working
      BY <3>1
    <3> QED
      BY <3>1, <3>3, <3>4 DEF NumbersFit
  <2>9. CASE Upgrade \/ UNCHANGED vars
    <3>1. UNCHANGED <<work, package, task>>
      BY <2>9 DEF Upgrade, vars
    <3> QED
      BY <3>1 DEF NumbersFit
  <2> QED
    BY <2>1, <2>2, <2>3, <2>4, <2>5, <2>6, <2>7, <2>8, <2>9 DEF Next
<1>3. NumbersFit => NumbersAreConsistent
  BY DEF NumbersFit, Ordered, Consistent, NumbersAreConsistent
<1> QED
  BY <1>1, <1>2, <1>3, InvariantHolds, PTL DEF Spec

-----------------------------------------------------------------------------
(* The plotting scripts of the figures (FigureDelivery).                    *)

\* The rendering and the author's desk: what a command is doing, and that a
\* script the author will write differs from the one there and the one on record.
Phases == {"idle", "source", "script", "caption", "svg", "png", "qa", "record",
           "validate", "deliver"}
Unused(content) == \A k \in edits..MaxDeskEdits : content # <<Edited, k>>
DeskOK ==
  /\ DOMAIN files = Bundle \cup {"record"}
  /\ DOMAIN cmd = {"at", "quiet", "drawn"} /\ cmd.at \in Phases
  /\ edits \in 0..MaxDeskEdits
EditsAreNew ==
  /\ Unused(files.script)
  /\ files.record \notin {Absent, Torn} => Unused(files.record.files.script)
\* No command runs, or may begin, on a script that is the author's own.
OwnStands == mine => cmd.at = "idle" /\ ~Protected /\ files.script \notin {Template, Torn}
DeskInv == DeskOK /\ EditsAreNew /\ OwnStands

\* At first there is no script.
LEMMA DeskInit == FigureInit => DeskInv
  BY FigureBounds, EditsDiffer DEF FigureInit, Idle, DeskInv, DeskOK, EditsAreNew, OwnStands, Unused, Bundle, Phases

\* No command passes the guard of a script that is the author's own, and only
\* the author edits or removes it.
LEMMA DeskStep ==
  ASSUME DeskInv, [FigureNext]_figureVars
  PROVE  DeskInv' /\ (mine /\ mine' => files'.script = files.script)
<1> USE FigureBounds, EditsDiffer DEF DeskInv, DeskOK, EditsAreNew, OwnStands, Unused, Bundle, Phases, Protected
<1>1. CASE UNCHANGED figureVars
  BY <1>1 DEF figureVars, counters, history
<1>2. CASE Analyze
  BY <1>2 DEF Analyze, Begins, history
<1>3. CASE ApproveFigure
  BY <1>3 DEF ApproveFigure, Begins, history, MarkStale, Refuse, Idle
<1>4. CASE Write
  BY <1>4 DEF Write, Begins, history, MarkStale
<1>5. CASE WriteSource
  BY <1>5 DEF WriteSource, Puts, counters, history
<1>6. CASE WriteScript
  BY <1>6 DEF WriteScript, Puts, counters, history
<1>7. CASE WriteCaption
  BY <1>7 DEF WriteCaption, Puts, counters, history
<1>8. CASE DrawVector
  BY <1>8 DEF DrawVector, counters, history
<1>9. CASE DrawRaster
  BY <1>9 DEF DrawRaster, Puts, counters, history
<1>10. CASE WriteQA
  BY <1>10 DEF WriteQA, Puts, counters, history
<1>11. CASE WriteRecord
  BY <1>11 DEF WriteRecord, Puts, counters, history
<1>12. CASE Fail
  BY <1>12 DEF Fail, Idle, counters, history
<1>13. CASE Validate
  BY <1>13 DEF Validate, Idle, counters, history
<1>14. CASE Deliver
  BY <1>14 DEF Deliver, Idle, counters, history
<1>15. ASSUME NEW torn \in BOOLEAN, Stop(torn) PROVE DeskInv' /\ (mine /\ mine' => files'.script = files.script)
  BY <1>15 DEF Stop, Idle, history
<1>16. ASSUME NEW name \in {"source", "svg", "png"}, Retouch(name) PROVE DeskInv' /\ (mine /\ mine' => files'.script = files.script)
  BY <1>16 DEF Retouch, Touch, history
<1>17. CASE EditScript
  <2>1. /\ edits < MaxDeskEdits /\ edits' = edits + 1
        /\ files' = [files EXCEPT !["script"] = <<Edited, edits>>]
        /\ cmd' = [cmd EXCEPT !.quiet = (cmd.at = "idle")]
        /\ mine' = (mine \/ cmd.at = "idle") /\ files.script \in {Template, Torn}
    BY <1>17 DEF EditScript, Touch
  <2>2. DeskOK' /\ files'.script = <<Edited, edits>> /\ files'.record = files.record
    BY <2>1
  <2>3. EditsAreNew'
    BY <2>1, <2>2
  <2>4. edits \in edits..MaxDeskEdits /\ edits \in 0..MaxDeskEdits
    BY <2>1
  <2>5. files'.script \notin {Template, Torn, Absent}
    BY <2>2, <2>4
  <2>6. ~Protected'
    BY <2>2, <2>4, <2>5
  <2>. QED
    BY <2>1, <2>2, <2>3, <2>5, <2>6
<1>18. CASE RemoveScript
  <2>1. /\ edits < MaxDeskEdits /\ edits' = edits + 1
        /\ files' = [files EXCEPT !["script"] = Absent]
        /\ cmd' = [cmd EXCEPT !.quiet = (cmd.at = "idle")] /\ mine' = FALSE
    BY <1>18 DEF RemoveScript, Touch
  <2>2. DeskOK' /\ files'.script = Absent /\ files'.record = files.record
    BY <2>1
  <2>3. EditsAreNew'
    BY <2>1, <2>2
  <2>. QED
    BY <2>1, <2>2, <2>3
<1>19. CASE Reexport
  BY <1>19 DEF Reexport, history
<1>20. CASE EditInput
  BY <1>20 DEF EditInput, history
<1>. QED
  BY <1>1, <1>2, <1>3, <1>4, <1>5, <1>6, <1>7, <1>8, <1>9, <1>10, <1>11, <1>12, <1>13, <1>14, <1>15, <1>16, <1>17, <1>18, <1>19, <1>20 DEF FigureNext

(* A plotting script that the author changed while nothing was running is   *)
(* never overwritten, however commands are cut short or repeated, and       *)
(* whatever else the author edits (build_figure_delivery).                  *)
THEOREM OwnScriptIsKept == FigureSpec => ScriptKept
<1>1. FigureInit => DeskInv
  BY DeskInit
<1>2. DeskInv /\ [FigureNext]_figureVars => DeskInv'
  BY DeskStep
<1>3. DeskInv /\ [FigureNext]_figureVars => [mine /\ mine' => files'.script = files.script]_figureVars
  BY DeskStep
<1>. QED
  BY <1>1, <1>2, <1>3, PTL DEF FigureSpec, ScriptKept

\* A script that is the template, whole or in part, is the one on record, unless a
\* rendering is under way that has replaced it, or one broke off there.
Ours == files.script \in {Template, Torn}
OnRecord == files.record \notin {Absent, Torn} /\ files.record.files.script = files.script
RecordStands ==
  /\ cmd.at \in {"idle", "source", "script"} => broken \/ (Ours => OnRecord)
  /\ cmd.at \in {"validate", "deliver"} => ~broken /\ (Ours => OnRecord)
  /\ cmd.at \in {"caption", "svg", "png", "qa", "record"} => (Ours => files.script = Template)

\* A delivery record that was written whole is neither missing nor cut short.
WholeRecords == \A c, f : [candidate |-> c, files |-> f] \notin {Absent, Torn}

\* What one command may do: the script of the template is refused only when broken.
Repeats == runs' # runs /\ outcome' = "baseline" =>
             broken \/ files.script \notin {Template, Torn}

LEMMA RecordStandsAtFirst == FigureInit => RecordStands
  BY EditsDiffer DEF FigureInit, Idle, RecordStands, Ours, Bundle

\* A step that leaves script, record and what the command is doing as they are.
LEMMA OthersLeaveTheRecord ==
  ASSUME RecordStands, files'.script = files.script, files'.record = files.record,
         cmd'.at = cmd.at, broken' = broken
  PROVE  RecordStands'
  BY DEF RecordStands, Ours, OnRecord

LEMMA RecordStandsStep ==
  ASSUME WholeRecords, DeskInv, RecordStands, [FigureNext]_figureVars
  PROVE  RecordStands' /\ Repeats
<1>0. DeskOK /\ DOMAIN files = Bundle \cup {"record"}
  BY DEF DeskInv, DeskOK
<1>1. CASE UNCHANGED figureVars
  BY <1>1, OthersLeaveTheRecord DEF figureVars, counters, history, Repeats
<1>2. CASE Analyze
  <2>1. UNCHANGED <<files, cmd, broken>> /\ outcome' \in {"material", "ok"}
    BY <1>2 DEF Analyze, history
  <2>. QED
    BY <2>1, OthersLeaveTheRecord DEF Repeats
<1>3. CASE ApproveFigure
  <2>1. UNCHANGED <<files, broken>> /\ cmd.at = "idle"
    BY <1>3 DEF ApproveFigure, Begins, MarkStale, Refuse, history
  <2>2. cmd' = cmd \/ cmd'.at = "source"
    BY <1>3 DEF ApproveFigure, MarkStale, Refuse, Idle
  <2>3. outcome' = "baseline" => ~Protected
    BY <1>3 DEF ApproveFigure, MarkStale, Refuse
  <2>4. RecordStands'
    BY <2>1, <2>2 DEF RecordStands, Ours, OnRecord
  <2>5. Repeats
    BY <2>1, <2>3 DEF Repeats, RecordStands, Ours, OnRecord, Protected
  <2>. QED
    BY <2>4, <2>5
<1>4. CASE Write
  <2>1. UNCHANGED <<files, cmd, broken>> /\ outcome' \in {"changed", "ok"}
    BY <1>4 DEF Write, MarkStale, history
  <2>. QED
    BY <2>1, OthersLeaveTheRecord DEF Repeats
<1>5. CASE WriteSource
  BY <1>0, <1>5 DEF WriteSource, Puts, counters, history, RecordStands, Ours, OnRecord, Repeats, DeskOK, Bundle
<1>6. CASE WriteScript
  BY <1>0, <1>6 DEF WriteScript, Puts, counters, history, RecordStands, Ours, OnRecord, Repeats, DeskOK, Bundle
<1>7. CASE WriteCaption
  BY <1>0, <1>7 DEF WriteCaption, Puts, counters, history, RecordStands, Ours, OnRecord, Repeats, DeskOK, Bundle
<1>8. CASE DrawVector
  BY <1>0, <1>8 DEF DrawVector, counters, history, RecordStands, Ours, OnRecord, Repeats, DeskOK, Bundle
<1>9. CASE DrawRaster
  BY <1>0, <1>9 DEF DrawRaster, Puts, counters, history, RecordStands, Ours, OnRecord, Repeats, DeskOK, Bundle
<1>10. CASE WriteQA
  <2>1. /\ cmd.at = "qa" /\ cmd'.at = "record" /\ UNCHANGED <<broken, runs>>
        /\ files'.script = files.script /\ files'.record = files.record
    BY <1>0, <1>10 DEF WriteQA, Puts, counters, history, DeskOK, Bundle
  <2>. QED
    BY <2>1 DEF RecordStands, Ours, OnRecord, Repeats
<1>11. CASE WriteRecord
  <2>1. /\ cmd'.at = "validate" /\ broken' = FALSE /\ UNCHANGED runs
        /\ files'.script = files.script
        /\ files'.record = [candidate |-> candidate, files |-> [name \in Bundle |-> files[name]]]
    BY <1>0, <1>11 DEF WriteRecord, counters, DeskOK, Bundle
  <2>2. files'.record \notin {Absent, Torn}
    BY <2>1 DEF WholeRecords
  <2>3. files'.record.files.script = files'.script
    BY <2>1 DEF Bundle
  <2>. QED
    BY <2>1, <2>2, <2>3 DEF RecordStands, Ours, OnRecord, Repeats
<1>12. CASE Fail
  BY <1>0, <1>12, EditsDiffer DEF Fail, Idle, counters, history, RecordStands, Ours, OnRecord, Repeats
<1>13. CASE Validate
  <2>1. /\ cmd.at = "validate" /\ cmd'.at \in {"deliver", "idle"}
        /\ UNCHANGED <<files, broken, runs>>
    BY <1>0, <1>13 DEF Validate, Idle, counters, history, DeskOK
  <2>. QED
    BY <2>1 DEF RecordStands, Ours, OnRecord, Repeats
<1>14. CASE Deliver
  BY <1>14 DEF Deliver, Idle, counters, history, RecordStands, Ours, OnRecord, Repeats
<1>15. ASSUME NEW torn \in BOOLEAN, Stop(torn) PROVE RecordStands' /\ Repeats
  <2>1. /\ cmd'.at = "idle" /\ broken' = (broken \/ Breaks(torn)) /\ UNCHANGED runs
        /\ cmd.at # "idle" /\ (torn => cmd.at \in {"script", "caption", "svg", "png", "qa", "record"})
        /\ files' = IF torn THEN [files EXCEPT ![cmd.at] = Torn] ELSE files
    BY <1>15 DEF Stop, Idle
  <2>2. Repeats
    BY <2>1 DEF Repeats
  <2>3. ASSUME ~broken, ~Breaks(torn), Ours' PROVE OnRecord'
    <3>1. /\ torn => cmd.at \notin {"script", "record"}
          /\ cmd.at \in {"caption", "svg", "png", "qa", "record"} =>
               files.record \notin {Absent, Torn} /\ files.record.files.script = Template
      BY <2>3 DEF Breaks
    <3>2. files'.script = files.script /\ files'.record = files.record
      BY <1>0, <2>1, <3>1 DEF Bundle
    <3>3. Ours
      BY <2>3, <3>2 DEF Ours
    <3>4. cmd.at \in Phases
      BY <1>0 DEF DeskOK
    <3>5. OnRecord
      BY <2>1, <2>3, <3>1, <3>3, <3>4 DEF RecordStands, OnRecord, Phases
    <3>. QED
      BY <3>2, <3>5 DEF OnRecord
  <2>. QED
    BY <2>1, <2>2, <2>3 DEF RecordStands
<1>16. ASSUME NEW name \in {"source", "svg", "png"}, Retouch(name) PROVE RecordStands' /\ Repeats
  <2>1. /\ files'.script = files.script /\ files'.record = files.record
        /\ cmd'.at = cmd.at /\ UNCHANGED <<broken, runs>>
    BY <1>0, <1>16 DEF Retouch, Touch, history, DeskOK, Bundle
  <2>. QED
    BY <2>1, OthersLeaveTheRecord DEF Repeats
<1>17. CASE EditScript
  <2>1. /\ edits < MaxDeskEdits /\ files'.script = <<Edited, edits>> /\ cmd'.at = cmd.at
        /\ UNCHANGED <<broken, runs>>
    BY <1>0, <1>17 DEF EditScript, Touch, DeskOK, Bundle
  <2>2. ~Ours'
    BY <1>0, <2>1, FigureBounds, EditsDiffer DEF Ours, DeskOK
  <2>. QED
    BY <2>1, <2>2 DEF RecordStands, Repeats
<1>18. CASE RemoveScript
  <2>1. files'.script = Absent /\ cmd'.at = cmd.at /\ broken' = FALSE /\ UNCHANGED runs
    BY <1>0, <1>18 DEF RemoveScript, Touch, DeskOK, Bundle
  <2>2. ~Ours'
    BY <2>1, EditsDiffer DEF Ours
  <2>. QED
    BY <2>1, <2>2 DEF RecordStands, Repeats
<1>19. CASE Reexport
  <2>1. /\ files'.script = files.script /\ files'.record = files.record
        /\ cmd'.at = cmd.at /\ UNCHANGED <<broken, runs>>
    BY <1>0, <1>19 DEF Reexport, history, DeskOK, Bundle
  <2>. QED
    BY <2>1, OthersLeaveTheRecord DEF Repeats
<1>20. CASE EditInput
  BY <1>20, OthersLeaveTheRecord DEF EditInput, history, Repeats
<1>. QED
  BY <1>1, <1>2, <1>3, <1>4, <1>5, <1>6, <1>7, <1>8, <1>9, <1>10, <1>11, <1>12, <1>13, <1>14, <1>15, <1>16, <1>17, <1>18, <1>19, <1>20 DEF FigureNext

(* Renderings may stop anywhere and be repeated: the next is refused over   *)
(* its script only when the author's own version stands there, or a         *)
(* rendering that stopped left a script no delivery record is of            *)
(* (_protect_local_script).                                                 *)
THEOREM RenderingsRepeat == WholeRecords => (FigureSpec => RenderingRepeats)
<1>1. FigureInit => DeskInv /\ RecordStands
  BY DeskInit, RecordStandsAtFirst
<1>2. WholeRecords /\ DeskInv /\ RecordStands /\ [FigureNext]_figureVars
        => (DeskInv /\ RecordStands)'
  BY DeskStep, RecordStandsStep
<1>3. WholeRecords /\ DeskInv /\ RecordStands /\ [FigureNext]_figureVars
        => [Repeats]_figureVars
  BY RecordStandsStep
<1>. SUFFICES ASSUME WholeRecords PROVE FigureSpec => RenderingRepeats
  OBVIOUS
<1>4. DeskInv /\ RecordStands /\ [FigureNext]_figureVars => (DeskInv /\ RecordStands)'
  BY <1>2
<1>5. DeskInv /\ RecordStands /\ [FigureNext]_figureVars =>
        [runs' # runs /\ outcome' = "baseline" =>
           broken \/ files.script \notin {Template, Torn}]_figureVars
  BY <1>3 DEF Repeats
<1>. QED
  BY <1>1, <1>4, <1>5, PTL DEF FigureSpec, RenderingRepeats

-----------------------------------------------------------------------------
(* What a results paragraph says of the observations (SentenceIsTrue).      *)

LEMMA Monotone ==
  ASSUME NEW y \in Seq(Int), NEW k \in 1..Len(y), NEW l \in 1..Len(y), k <= l
  PROVE  /\ Rises(y) => y[k] <= y[l]
         /\ Falls(y) => y[k] >= y[l]
<1> DEFINE n == Len(y)
           T == {i \in 0..n : i >= k => /\ Rises(y) => y[k] <= y[i]
                                        /\ Falls(y) => y[k] >= y[i]}
<1>0. n \in Nat /\ \A i \in 1..n : y[i] \in Int
  OBVIOUS
<1>1. 0 \in T
  BY <1>0
<1>2. ASSUME NEW i \in 1..n, i - 1 \in T PROVE i \in T
  <2>1. CASE i < k
    BY <1>0, <2>1
  <2>2. CASE i = k
    BY <1>0, <2>2
  <2>3. CASE i > k
    <3>1. i - 1 \in 1..(n - 1) /\ i - 1 >= k /\ (i - 1) + 1 = i /\ i \in 0..n
      BY <1>0, <2>3
    <3>2. (Rises(y) => y[k] <= y[i - 1]) /\ (Falls(y) => y[k] >= y[i - 1])
      BY <1>2, <3>1
    <3>3. (Rises(y) => y[i - 1] <= y[i]) /\ (Falls(y) => y[i - 1] >= y[i])
      BY <3>1 DEF Rises, Falls
    <3>4. y[k] \in Int /\ y[i] \in Int /\ y[i - 1] \in Int
      BY <1>0, <3>1
    <3>5. (Rises(y) => y[k] <= y[i]) /\ (Falls(y) => y[k] >= y[i])
      BY <3>2, <3>3, <3>4
    <3> QED
      BY <3>1, <3>5
  <2> QED
    BY <2>1, <2>2, <2>3
<1>3. \A i \in 0..n : i \in T
  <2> HIDE DEF T, n
  <2> QED
    BY <1>0, <1>1, <1>2, UpTo
<1> QED
  BY <1>0, <1>3


\* The first of the greatest numbers of a sequence.
IsPeak(y, n, i) == /\ i \in 1..n /\ \A j \in 1..n : y[j] <= y[i]
                   /\ \A j \in 1..(i - 1) : y[j] < y[i]

LEMMA HasPeak ==
  ASSUME NEW y \in Seq(Int), y # << >>
  PROVE  IsPeak(y, Len(y), Peak(y))
<1> DEFINE n == Len(y)
           T == {k \in 0..n : k > 0 => \E i \in 1..k : IsPeak(y, k, i)}
<1>0. n \in Nat /\ n > 0 /\ DOMAIN y = 1..n /\ \A i \in 1..n : y[i] \in Int
  OBVIOUS
<1>1. 0 \in T
  BY <1>0
<1>2. ASSUME NEW k \in 1..n, k - 1 \in T PROVE k \in T
  <2>1. CASE k = 1
    <3>1. IsPeak(y, k, 1)
      BY <1>0, <2>1 DEF IsPeak
    <3> QED
      BY <1>0, <2>1, <3>1
  <2>2. CASE k > 1
    <3>1. PICK i \in 1..(k - 1) : IsPeak(y, k - 1, i)
      BY <1>0, <1>2, <2>2
    <3>2. \A j \in 1..k : j = k \/ j \in 1..(k - 1)
      BY <1>0
    <3>3. CASE y[k] > y[i]
      <4>1. \A j \in 1..(k - 1) : y[j] < y[k]
        BY <1>0, <3>1, <3>3 DEF IsPeak
      <4>2. IsPeak(y, k, k)
        BY <1>0, <3>2, <4>1 DEF IsPeak
      <4> QED
        BY <1>0, <2>2, <4>2
    <3>4. CASE ~(y[k] > y[i])
      <4>1. y[k] <= y[i]
        BY <1>0, <3>1, <3>4
      <4>2. IsPeak(y, k, i)
        BY <1>0, <3>1, <3>2, <4>1 DEF IsPeak
      <4> QED
        BY <1>0, <2>2, <4>2
    <3> QED
      BY <3>3, <3>4
  <2> QED
    BY <1>0, <2>1, <2>2
<1>3. \A i \in 0..n : i \in T
  <2> HIDE DEF T, n
  <2> QED
    BY <1>0, <1>1, <1>2, UpTo
<1>4. \E i \in 1..n : IsPeak(y, n, i)
  BY <1>0, <1>3
<1>5. \E i \in DOMAIN y : (\A j \in DOMAIN y : y[j] <= y[i]) /\ (\A j \in 1..(i - 1) : y[j] < y[i])
  BY <1>0, <1>4 DEF IsPeak
<1> QED
  BY <1>0, <1>5 DEF Peak, IsPeak

\* What the kind of a trend says of every pair of points.
TrendSays(y, n) ==
  /\ Trend(y) = "monotonic-increasing" => \A i, j \in 1..n : i < j => y[i] <= y[j]
  /\ Trend(y) = "monotonic-decreasing" => \A i, j \in 1..n : i < j => y[i] >= y[j]
  /\ Trend(y) = "interior-peak" => \E i \in 2..(n - 1) : y[1] < y[i] /\ y[n] < y[i]
  /\ Trend(y) = "plateau" => n >= 3 /\ \A i, j \in (n - 2)..n : y[i] = y[j]

LEMMA TrendIs ==
  ASSUME NEW y \in Seq(Int), y # << >>
  PROVE  TrendSays(y, Len(y))
<1> DEFINE n == Len(y)
           peak == Peak(y)
           trough == Trough(y)
           Flat(i) == \A j \in i..n : y[j] = y[i]
           flatEnd == \E i \in 2..(n - TailPoints + 1) : Flat(i) /\ y[i] # y[1]
           up == Rises(y) /\ y[n] > y[1]
           down == Falls(y) /\ y[n] < y[1]
           level == n >= TailPoints /\ Flat(1)
           peaked == peak \in 2..(n - 1) /\ y[peak] > y[n]
           troughed == trough \in 2..(n - 1) /\ y[trough] < y[n]
<1>1. Trend(y) = IF peaked THEN "interior-peak" ELSE IF troughed THEN "interior-trough"
                 ELSE IF flatEnd THEN "plateau" ELSE IF up THEN "monotonic-increasing"
                 ELSE IF down THEN "monotonic-decreasing" ELSE IF level THEN "plateau" ELSE "mixed"
  BY Zenon DEF Trend
<1>2. n \in Nat /\ n > 0 /\ \A i \in 1..n : y[i] \in Int
  OBVIOUS
<1>3. /\ Trend(y) = "monotonic-increasing" => up
      /\ Trend(y) = "monotonic-decreasing" => down
      /\ Trend(y) = "interior-peak" => peaked
      /\ Trend(y) = "plateau" => flatEnd \/ level
  <2> HIDE DEF flatEnd, up, down, level, peaked, troughed
  <2> QED
    BY <1>1
<1>4. (Rises(y) => \A i, j \in 1..n : i < j => y[i] <= y[j]) /\ (Falls(y) => \A i, j \in 1..n : i < j => y[i] >= y[j])
  BY <1>2, Monotone
<1>5. peaked => \E i \in 2..(n - 1) : y[1] < y[i] /\ y[n] < y[i]
  <2>1. IsPeak(y, n, peak)
    BY HasPeak
  <2> SUFFICES ASSUME peaked PROVE y[1] < y[peak] /\ y[n] < y[peak] /\ peak \in 2..(n - 1)
    OBVIOUS
  <2> HIDE DEF peak
  <2>2. 1 \in 1..(peak - 1) /\ n \in 1..n
    BY <1>2
  <2>3. y[1] < y[peak]
    BY <2>1, <2>2 DEF IsPeak
  <2>4. y[n] < y[peak] /\ peak \in 2..(n - 1)
    BY <1>2
  <2> QED
    BY <2>3, <2>4
<1>6. flatEnd \/ level => n >= 3 /\ \A i, j \in (n - 2)..n : y[i] = y[j]
  <2>1. ASSUME NEW k \in 1..n, k <= n - 2, Flat(k) PROVE n >= 3 /\ \A i, j \in (n - 2)..n : y[i] = y[j]
    <3>1. \A i \in (n - 2)..n : i \in k..n
      BY <1>2, <2>1
    <3> QED
      BY <1>2, <2>1, <3>1
  <2>2. CASE flatEnd
    <3>1. PICK k \in 2..(n - TailPoints + 1) : Flat(k)
      BY <2>2
    <3>2. k \in 1..n /\ k <= n - 2
      BY <1>2, <3>1 DEF TailPoints
    <3> HIDE DEF Flat
    <3> QED
      BY <2>1, <3>1, <3>2
  <2>3. CASE level
    <3>1. 1 \in 1..n /\ 1 <= n - 2 /\ Flat(1)
      BY <1>2, <2>3 DEF TailPoints
    <3> HIDE DEF Flat
    <3> QED
      BY <2>1, <3>1
  <2> QED
    BY <2>2, <2>3
<1>7. (up => Rises(y)) /\ (down => Falls(y))
  OBVIOUS
<1> HIDE DEF flatEnd, up, down, level, peaked, n
<1> QED
  BY <1>3, <1>4, <1>5, <1>6, <1>7 DEF TrendSays, n

\* Whole division keeps the order, and is exact where nothing is left over.
LEMMA WholeDivision ==
  ASSUME NEW a \in Int, NEW c \in Nat \ {0}
  PROVE  /\ a \div c \in Int /\ c * (a \div c) <= a /\ a < c * (a \div c) + c
         /\ a % c = 0 => c * (a \div c) = a
<1>1. /\ a \div c \in Int /\ a % c \in 0..(c - 1) /\ a = c * (a \div c) + (a % c)
  OBVIOUS
<1>2. PICK x : x = a \div c
  OBVIOUS
<1>3. PICK r : r = a % c
  OBVIOUS
<1>4. PICK b : b = c * x
  OBVIOUS
<1>5. x \in Int /\ r \in 0..(c - 1) /\ a = b + r
  BY <1>1, <1>2, <1>3, <1>4
<1>6. b \in Int
  BY <1>4, <1>5
<1>7. b <= a /\ a < b + c /\ (r = 0 => b = a)
  BY <1>5, <1>6
<1> QED
  BY <1>2, <1>3, <1>4, <1>5, <1>7

LEMMA DivisionOrders ==
  ASSUME NEW a \in Int, NEW b \in Int, NEW c \in Nat \ {0}, a <= b
  PROVE  a \div c <= b \div c
<1>1. PICK x \in Int : x = a \div c /\ c * x <= a
  BY WholeDivision
<1>2. PICK y \in Int : y = b \div c /\ b < c * y + c
  BY WholeDivision
<1>3. c * x < c * y + c
  BY <1>1, <1>2
<1>4. c * y + c = c * (y + 1)
  OBVIOUS
<1>5. x < y + 1
  BY <1>3, <1>4
<1> QED
  BY <1>1, <1>2, <1>5

\* A number printed to three digits is off by at most half a per cent.
LEMMA RoundedIsNear ==
  ASSUME NEW v \in Int, Size(v) < 10000 * ParagraphLimit
  PROVE  LET w == Rounded(v, ParagraphLimit)
             apart == IF v > w THEN v - w ELSE w - v
         IN w \in Int /\ apart * 200 <= Size(v)
<1> DEFINE n == Size(v)
           Fits(p) == n < p * ParagraphLimit /\ (p = 1 \/ 10 * n >= p * ParagraphLimit)
           p == CHOOSE p \in {1, 10, 100, 1000, 10000} : Fits(p)
           m == ((n + p \div 2) \div p) * p
           w == Rounded(v, ParagraphLimit)
<1>1. n \in Nat /\ n < 10000000
  BY DEF Size, ParagraphLimit
<1>2. w = IF v < 0 THEN -m ELSE m
  BY DEF Rounded
<1>3. Fits(1) \/ Fits(10) \/ Fits(100) \/ Fits(1000) \/ Fits(10000)
  <2> HIDE DEF n
  <2> QED
    BY <1>1 DEF ParagraphLimit
<1>4. p \in {1, 10, 100, 1000, 10000} /\ Fits(p)
  <2> HIDE DEF Fits
  <2> QED
    BY <1>3
<1> HIDE DEF n, p
<1>5. m \in Int /\ (IF n > m THEN n - m ELSE m - n) * 200 <= n
  <2>1. CASE p = 1
    BY <1>1, <2>1
  <2>2. CASE p = 10
    BY <1>1, <1>4, <2>2 DEF ParagraphLimit
  <2>3. CASE p = 100
    BY <1>1, <1>4, <2>3 DEF ParagraphLimit
  <2>4. CASE p = 1000
    BY <1>1, <1>4, <2>4 DEF ParagraphLimit
  <2>5. CASE p = 10000
    BY <1>1, <1>4, <2>5 DEF ParagraphLimit
  <2> QED
    BY <1>4, <2>1, <2>2, <2>3, <2>4, <2>5
<1>6. n = IF v < 0 THEN -v ELSE v
  BY DEF n, Size
<1> HIDE DEF m, w
<1> QED
  BY <1>1, <1>2, <1>5, <1>6 DEF n, w

\* What InputTypes says of the units and of one input.
UnitsTyped == \A u \in DOMAIN UnitOf : UnitOf[u].scale \in Nat \ {0} /\ UnitOf[u].offset \in Int
WellTyped(in) ==
  /\ in.rows \in Seq(Range(in.rows)) /\ \A j \in DOMAIN in.rows : in.rows[j].value \in Int
  /\ in.question.members \in Seq(Range(in.question.members))
  /\ in.question.operands \in Seq(Range(in.question.operands))
  /\ in.question.operator \in {"identity", "relative-change", "difference", "ratio"}

\* What an input has passed from which a figure candidate is made.
Passed(in) ==
  /\ Material(in.records, in.rows, in.question)
  /\ OperandsAccepted(in.question, in.rows)
  /\ Distinct([k \in DOMAIN in.question.members |-> in.question.members[k].case])

\* The row of a member's case, the only one.
RowFor(in, k, i) ==
  /\ i \in DOMAIN in.rows
  /\ \A l \in DOMAIN in.rows : in.rows[l].case = in.question.members[k].case <=> l = i

LEMMA RowForCase ==
  ASSUME NEW in, Passed(in), NEW k \in DOMAIN in.question.members
  PROVE  \E i : RowFor(in, k, i)
<1> DEFINE rows == in.rows
           members == in.question.members
<1>1. Membership(rows, members)
  BY DEF Passed, Material
<1>2. PICK i \in DOMAIN rows : Matching(rows, members[k]) = {i}
  BY <1>1 DEF Membership
<1>3. \A a, b \in DOMAIN members : members[a].case = members[b].case => a = b
  BY DEF Passed, Distinct, IsInjective
<1>4. rows[i].case = members[k].case
  BY <1>2 DEF Matching, MatchesMember
<1>5. ASSUME NEW l \in DOMAIN rows, rows[l].case = members[k].case PROVE l = i
  <2>1. PICK m \in DOMAIN members : l \in Matching(rows, members[m])
    BY <1>1 DEF Membership
  <2>2. rows[l].case = members[m].case
    BY <2>1 DEF Matching, MatchesMember
  <2>3. m = k
    BY <1>3, <1>5, <2>2
  <2> QED
    BY <1>2, <2>1, <2>3
<1> QED
  BY <1>4, <1>5 DEF RowFor

\* An operand takes the value of each case from that one row.
LEMMA OperandRow ==
  ASSUME NEW in, Passed(in), NEW k \in DOMAIN in.question.members,
         NEW j \in DOMAIN in.question.operands, NEW i, RowFor(in, k, i)
  PROVE  LET s == in.question.operands[j] IN
         /\ Selects(s, in.rows[i])
         /\ Compatible(in.rows[i].unit, s.unit)
         /\ InOrder(Relevant(in.rows, s), MembersOf(in.question, s))[k] = in.rows[i]
<1> DEFINE rows == in.rows
           q == in.question
           s == q.operands[j]
           relevant == Relevant(rows, s)
           m == MembersOf(q, s)
<1>1. Membership(relevant, m) /\ \A l \in DOMAIN rows : Selects(s, rows[l]) => Compatible(rows[l].unit, s.unit)
  BY DEF Passed, OperandsAccepted
<1>2. DOMAIN m = DOMAIN q.members /\ m[k].case = q.members[k].case
  BY DEF MembersOf, MemberOf
<1>3. /\ DOMAIN relevant = {l \in DOMAIN rows : Selects(s, rows[l])}
      /\ \A l \in DOMAIN relevant : relevant[l] = rows[l]
  BY DEF Relevant
<1>4. InOrder(relevant, m)[k] = relevant[CHOOSE l \in DOMAIN relevant : Matching(relevant, m[k]) = {l}]
  BY <1>2 DEF InOrder
<1>5. PICK l \in DOMAIN relevant : Matching(relevant, m[k]) = {l}
  BY <1>1, <1>2 DEF Membership
<1> HIDE DEF relevant, m
<1>6. (CHOOSE x \in DOMAIN relevant : Matching(relevant, m[k]) = {x}) = l
  BY <1>5
<1>7. relevant[l].case = m[k].case
  BY <1>5 DEF Matching, MatchesMember
<1>8. l = i
  BY <1>2, <1>3, <1>7 DEF RowFor
<1> QED
  BY <1>1, <1>3, <1>4, <1>5, <1>6, <1>8 DEF relevant, m

\* A question with two operands has two rows for a case, and no marker for
\* the second: figures are of one operand.
LEMMA OneOperand ==
  ASSUME NEW in, WellTyped(in), Passed(in), in.question.members # << >>
  PROVE  /\ in.question.operator \in {"identity", "relative-change"}
         /\ Len(in.question.operands) = 1
         /\ in.question.operator = "relative-change" <=> in.question.reference # {}
<1> DEFINE q == in.question
<1>1. /\ Len(q.operands) = OperandCount(q) /\ (q.operator = "relative-change" <=> q.reference # {})
      /\ \A a, b \in DOMAIN q.operands : Binding(q.operands[a]) = Binding(q.operands[b]) => a = b
  BY DEF Passed, Material, ProposalAccepted, OperandsAccepted, Distinct, IsInjective
<1>2. q.operands \in Seq(Range(q.operands)) /\ q.members \in Seq(Range(q.members))
  BY DEF WellTyped
<1>3. DOMAIN q.operands = 1..Len(q.operands) /\ 1 \in DOMAIN q.members
  BY <1>2
<1>4. PICK i : RowFor(in, 1, i)
  BY <1>3, RowForCase
<1>5. \A j \in DOMAIN q.operands : Selects(q.operands[j], in.rows[i])
  BY <1>3, <1>4, OperandRow
<1>6. OperandCount(q) # 2
  <2> SUFFICES ASSUME OperandCount(q) = 2 PROVE FALSE
    OBVIOUS
  <2>1. 1 \in DOMAIN q.operands /\ 2 \in DOMAIN q.operands
    BY <1>1, <1>3
  <2>2. Selects(q.operands[1], in.rows[i]) /\ Selects(q.operands[2], in.rows[i])
    BY <1>5, <2>1
  <2>3. Binding(q.operands[1]) = Binding(q.operands[2])
    BY <2>2 DEF Selects, Binding
  <2> QED
    BY <1>1, <2>1, <2>3
<1>7. q.operator \in {"identity", "relative-change", "difference", "ratio"}
  BY DEF WellTyped
<1> QED
  BY <1>1, <1>6, <1>7 DEF OperandCount

\* The first operand, of each case, is what was observed, in its unit.
ReadsAs(in, k) ==
  LET q == in.question
      u == UnitOf[q.operands[1].unit]
      x == Operand(q, in.rows, 1)[k]
      o == Observed(in, q.members[k].case)
  IN x \in Int /\ o \in Int /\ o = u.scale * x + u.offset
     /\ q.operands[1].unit \in DOMAIN UnitOf

LEMMA OperandReads ==
  ASSUME NEW in, UnitsTyped, WellTyped(in), Passed(in), Resolved(in),
         Len(in.question.operands) = 1, NEW k \in DOMAIN in.question.members
  PROVE  ReadsAs(in, k)
<1> DEFINE q == in.question
           rows == in.rows
           s == q.operands[1]
           ordered == InOrder(Relevant(rows, s), MembersOf(q, s))
<1>1. 1 \in DOMAIN q.operands
  <2>1. q.operands \in Seq(Range(q.operands))
    BY DEF WellTyped
  <2> QED
    BY <2>1
<1>2. PICK i : RowFor(in, k, i)
  BY RowForCase
<1>3. Selects(s, rows[i]) /\ Compatible(rows[i].unit, s.unit) /\ ordered[k] = rows[i]
  BY <1>1, <1>2, OperandRow
<1>4. DOMAIN ordered = DOMAIN q.members
  BY DEF InOrder, MembersOf
<1>5. Operand(q, rows, 1)[k] = Converted(rows[i].value, rows[i].unit, s.unit)
  <2>1. Operand(q, rows, 1) = [l \in DOMAIN ordered |-> Converted(ordered[l].value, ordered[l].unit, s.unit)]
    BY DEF Operand
  <2> HIDE DEF ordered
  <2> QED
    BY <1>3, <1>4, <2>1
<1>6. i \in DOMAIN rows /\ rows[i].case = q.members[k].case
  BY <1>2 DEF RowFor
<1>7. (CHOOSE l \in DOMAIN rows : rows[l].case = q.members[k].case /\ Selects(s, rows[l])) = i
  <2>1. \A l \in DOMAIN rows : rows[l].case = q.members[k].case => l = i
    BY <1>2 DEF RowFor
  <2> QED
    BY <1>3, <1>6, <2>1
<1>8. Observed(in, q.members[k].case) = InBase(rows[i].value, rows[i].unit)
  BY <1>7 DEF Observed
<1>9. PICK o : o = InBase(rows[i].value, rows[i].unit)
  OBVIOUS
<1>10. o \in Int
  <2>1. rows[i].unit \in DOMAIN UnitOf /\ rows[i].value \in Int
    BY <1>3, <1>6 DEF Compatible, Known, WellTyped
  <2>2. UnitOf[rows[i].unit].scale \in Nat /\ UnitOf[rows[i].unit].offset \in Int
    BY <2>1 DEF UnitsTyped
  <2> QED
    BY <1>9, <2>1, <2>2 DEF InBase
<1>11. /\ s.unit \in DOMAIN UnitOf /\ UnitOf[s.unit].scale \in Nat \ {0} /\ UnitOf[s.unit].offset \in Int
  BY <1>3 DEF Compatible, Known, UnitsTyped
<1>12. (o - UnitOf[s.unit].offset) % UnitOf[s.unit].scale = 0
  <2>1. \A j \in DOMAIN rows :
          Selects(s, rows[j]) /\ Compatible(rows[j].unit, s.unit) =>
            (InBase(rows[j].value, rows[j].unit) - UnitOf[s.unit].offset) % UnitOf[s.unit].scale = 0
    <3>1. ConvertsWhole(in)
      BY DEF Resolved
    <3> QED
      BY <3>1, Zenon DEF ConvertsWhole
  <2> HIDE DEF q, rows, s, ordered
  <2>2. (InBase(rows[i].value, rows[i].unit) - UnitOf[s.unit].offset) % UnitOf[s.unit].scale = 0
    BY <1>3, <1>6, <2>1, Zenon
  <2> QED
    BY <1>9, <2>2, Zenon
<1> HIDE DEF q, rows, s, ordered
<1>13. PICK c \in Nat \ {0} : c = UnitOf[s.unit].scale
  BY <1>11
<1>14. PICK d \in Int : d = UnitOf[s.unit].offset
  BY <1>11
<1>15. Operand(q, rows, 1)[k] = (o - d) \div c
  BY <1>5, <1>9, <1>13, <1>14 DEF Converted
<1>16. (o - d) \div c \in Int /\ c * ((o - d) \div c) = o - d
  <2>1. (o - d) % c = 0 /\ o - d \in Int
    BY <1>10, <1>12, <1>13, <1>14
  <2> QED
    BY <2>1, WholeDivision
<1>17. PICK x : x = (o - d) \div c
  OBVIOUS
<1>18. x \in Int /\ o = c * x + d
  <2>1. x \in Int /\ c * x = o - d
    BY <1>16, <1>17
  <2>2. PICK y : y = c * x
    OBVIOUS
  <2>3. o = y + d
    BY <1>10, <2>1, <2>2
  <2> QED
    BY <2>1, <2>2, <2>3
<1>19. LET y == Operand(q, rows, 1)[k]
           z == Observed(in, q.members[k].case)
       IN y \in Int /\ z \in Int /\ z = UnitOf[s.unit].scale * y + UnitOf[s.unit].offset
  <2>1. Operand(q, rows, 1)[k] = x
    BY <1>15, <1>17
  <2>2. Observed(in, q.members[k].case) = o
    BY <1>8, <1>9
  <2> QED
    BY <1>10, <1>13, <1>14, <1>18, <2>1, <2>2, Zenon
<1> QED
  BY <1>11, <1>19, Zenon DEF ReadsAs, q, rows, s

\* What an analysis is made of.
AnalysisHas(in, an) ==
  LET q == in.question
      a == Operand(q, in.rows, 1)
      b == Operand(q, in.rows, Len(q.operands))
  IN /\ OperandsAccepted(q, in.rows) /\ Evaluable(q, a, b) /\ TrendDefined(q)
     /\ an.values = [k \in DOMAIN q.members |-> Value(q, a, b, k)]
     /\ an.cases = [k \in DOMAIN q.members |-> q.members[k].case]
     /\ an.trend = DiscreteTrend(an.values)

LEMMA AnalysisMade ==
  ASSUME NEW in, NEW an \in Analysis(in.question, in.rows)
  PROVE  AnalysisHas(in, an)
<1> DEFINE q == in.question
           a == Operand(q, in.rows, 1)
           b == Operand(q, in.rows, Len(q.operands))
           values == Evaluated(q, a, b)
<1>1. /\ OperandsAccepted(q, in.rows) /\ Evaluable(q, a, b) /\ TrendDefined(q)
      /\ an = AnalysisOf(q, in.rows, values)
  <2> HIDE DEF values, a, b
  <2>1. Analysis(q, in.rows) = IF ~OperandsAccepted(q, in.rows) THEN {}
                               ELSE IF Evaluable(q, a, b) /\ TrendDefined(q)
                                      THEN {AnalysisOf(q, in.rows, values)} ELSE {}
    BY DEF Analysis, values, a, b
  <2> QED
    BY <2>1
<1> HIDE DEF values, a, b
<1>2. DOMAIN values = DOMAIN q.members /\ values = [k \in DOMAIN q.members |-> Value(q, a, b, k)]
  BY DEF values, Evaluated
<1>3. /\ an.values = values /\ an.cases = [k \in DOMAIN values |-> q.members[k].case]
      /\ an.trend = DiscreteTrend(values)
  BY <1>1 DEF AnalysisOf
<1>4. an.cases = [k \in DOMAIN q.members |-> q.members[k].case]
  BY <1>2, <1>3
<1> QED
  BY <1>1, <1>2, <1>3, <1>4, Zenon DEF AnalysisHas, a, b

LEMMA ScaleOrders ==
  ASSUME NEW x \in Int, NEW y \in Int, NEW c \in Nat \ {0}, NEW d \in Int
  PROVE  /\ c * x + d < c * y + d <=> x < y
         /\ c * x + d = c * y + d <=> x = y
<1>1. x < y => c * x < c * y
  OBVIOUS
<1>2. y < x => c * y < c * x
  OBVIOUS
<1>3. c * x \in Int /\ c * y \in Int
  OBVIOUS
<1>4. PICK p : p = c * x
  OBVIOUS
<1>5. PICK r : r = c * y
  OBVIOUS
<1>6. p \in Int /\ r \in Int /\ (x < y => p < r) /\ (y < x => r < p) /\ (x = y => p = r)
  BY <1>1, <1>2, <1>3, <1>4, <1>5
<1>7. (p + d < r + d <=> x < y) /\ (p + d = r + d <=> x = y)
  BY <1>6
<1> QED
  BY <1>4, <1>5, <1>7

\* Relative to a reference above zero the order is kept, below it turned.
LEMMA ChangeOrders ==
  ASSUME NEW x \in Int, NEW y \in Int, NEW r \in Int, r # 0,
         RelativeChange(x, r) = RelativeChange(y, r) => x = y
  PROVE  /\ RelativeChange(x, r) \in Int
         /\ r > 0 => (x < y <=> RelativeChange(x, r) < RelativeChange(y, r))
         /\ ~(r > 0) => (y < x <=> RelativeChange(x, r) < RelativeChange(y, r))
<1>1. CASE r > 0
  <2> DEFINE v == (x - r) * 100
             w == (y - r) * 100
  <2>1. v \in Int /\ w \in Int /\ r \in Nat \ {0}
    BY <1>1
  <2>2. v \div r \in Int /\ w \div r \in Int
    BY <2>1, WholeDivision
  <2>3. (v <= w => v \div r <= w \div r) /\ (w <= v => w \div r <= v \div r)
    BY <2>1, DivisionOrders
  <2>4. (v <= w <=> x <= y) /\ (w <= v <=> y <= x)
    OBVIOUS
  <2>5. RelativeChange(x, r) = v \div r /\ RelativeChange(y, r) = w \div r
    BY <1>1 DEF RelativeChange
  <2>6. PICK m : m = v \div r
    OBVIOUS
  <2>7. PICK n : n = w \div r
    OBVIOUS
  <2> HIDE DEF v, w
  <2>8. m \in Int /\ n \in Int /\ (x <= y => m <= n) /\ (y <= x => n <= m) /\ (m = n => x = y)
    BY <2>2, <2>3, <2>4, <2>5, <2>6, <2>7
  <2>9. x < y <=> m < n
    BY <2>8
  <2> QED
    BY <1>1, <2>2, <2>5, <2>6, <2>7, <2>9
<1>2. CASE ~(r > 0)
  <2> DEFINE v == (r - x) * 100
             w == (r - y) * 100
             s == -r
  <2>1. v \in Int /\ w \in Int /\ s \in Nat \ {0}
    BY <1>2
  <2>2. RelativeChange(x, r) = v \div s /\ RelativeChange(y, r) = w \div s
    BY <1>2 DEF RelativeChange
  <2>3. (v <= w <=> y <= x) /\ (w <= v <=> x <= y)
    OBVIOUS
  <2> HIDE DEF v, w, s
  <2>4. v \div s \in Int /\ w \div s \in Int
    BY <2>1, WholeDivision
  <2>5. (v <= w => v \div s <= w \div s) /\ (w <= v => w \div s <= v \div s)
    BY <2>1, DivisionOrders
  <2>6. PICK m : m = v \div s
    OBVIOUS
  <2>7. PICK n : n = w \div s
    OBVIOUS
  <2>8. m \in Int /\ n \in Int /\ (y <= x => m <= n) /\ (x <= y => n <= m) /\ (m = n => x = y)
    BY <2>2, <2>3, <2>4, <2>5, <2>6, <2>7
  <2>9. y < x <=> m < n
    BY <2>8
  <2> QED
    BY <1>2, <2>2, <2>4, <2>6, <2>7, <2>9
<1> QED
  BY <1>1, <1>2

\* The values of an analysis say which of two cases is lower.
OrderKept(in, an, k, l) ==
  /\ an.values[k] \in Int
  /\ Less(in, an.cases[k], an.cases[l]) <=> an.values[k] < an.values[l]

LEMMA IdentityReads ==
  ASSUME NEW in, UnitsTyped, Passed(in), NEW an, AnalysisHas(in, an),
         in.question.operator = "identity", Len(in.question.operands) = 1,
         NEW k \in DOMAIN in.question.members, ReadsAs(in, k)
  PROVE  LET u == UnitOf[in.question.unit]
             o == Observed(in, an.cases[k])
         IN /\ u.scale \in Nat \ {0} /\ u.offset \in Int
            /\ an.values[k] \in Int /\ an.values[k] = (o - u.offset) \div u.scale
<1> DEFINE q == in.question
           a == Operand(q, in.rows, 1)
           b == Operand(q, in.rows, Len(q.operands))
           o == Observed(in, q.members[k].case)
           s == q.operands[1].unit
<1>1. an.values[k] = Value(q, a, b, k) /\ an.cases[k] = q.members[k].case /\ Evaluable(q, a, b)
  <2>1. /\ an.values = [m \in DOMAIN q.members |-> Value(q, a, b, m)]
        /\ an.cases = [m \in DOMAIN q.members |-> q.members[m].case] /\ Evaluable(q, a, b)
    BY Zenon DEF AnalysisHas
  <2> HIDE DEF a, b
  <2> QED
    BY <2>1
<1>2. Value(q, a, b, k) = Converted(a[k], s, q.unit)
  <2> HIDE DEF a, b
  <2> QED
    BY DEF Value
<1>3. /\ a[k] \in Int /\ o \in Int /\ o = UnitOf[s].scale * a[k] + UnitOf[s].offset /\ s \in DOMAIN UnitOf
  BY DEF ReadsAs
<1>4. q.unit \in DOMAIN UnitOf
  <2> HIDE DEF a, b
  <2> QED
    BY <1>1 DEF Evaluable, Compatible, Known
<1>5. UnitOf[q.unit].scale \in Nat \ {0} /\ UnitOf[q.unit].offset \in Int /\ UnitOf[s].scale \in Nat /\ UnitOf[s].offset \in Int
  BY <1>3, <1>4 DEF UnitsTyped
<1> HIDE DEF a, b, o, s
<1>6. InBase(a[k], s) = o
  <2>1. PICK x : x = a[k]
    OBVIOUS
  <2>2. x * UnitOf[s].scale = UnitOf[s].scale * x
    BY <1>3, <1>5, <2>1
  <2> QED
    BY <1>3, <2>1, <2>2 DEF InBase
<1>7. Converted(a[k], s, q.unit) = (o - UnitOf[q.unit].offset) \div UnitOf[q.unit].scale
  BY <1>6 DEF Converted
<1>8. (o - UnitOf[q.unit].offset) \div UnitOf[q.unit].scale \in Int
  <2>1. o - UnitOf[q.unit].offset \in Int
    BY <1>3, <1>5
  <2> QED
    BY <1>5, <2>1, WholeDivision
<1> QED
  BY <1>1, <1>2, <1>5, <1>7, <1>8 DEF o

LEMMA IdentityOrders ==
  ASSUME NEW in, UnitsTyped, Passed(in), NEW an, AnalysisHas(in, an),
         in.question.operator = "identity", Len(in.question.operands) = 1,
         in.question.reference = {},
         NEW k \in DOMAIN in.question.members, NEW l \in DOMAIN in.question.members,
         ReadsAs(in, k), ReadsAs(in, l),
         an.values[k] = an.values[l] => Observed(in, an.cases[k]) = Observed(in, an.cases[l])
  PROVE  OrderKept(in, an, k, l)
<1> DEFINE u == UnitOf[in.question.unit]
<1>1. PICK x : x = Observed(in, an.cases[k])
  OBVIOUS
<1>2. PICK y : y = Observed(in, an.cases[l])
  BY Zenon
<1>3. x \in Int /\ y \in Int
  BY <1>1, <1>2 DEF ReadsAs, AnalysisHas
<1>4. /\ u.scale \in Nat \ {0} /\ u.offset \in Int
      /\ an.values[k] \in Int /\ an.values[k] = (x - u.offset) \div u.scale
      /\ an.values[l] \in Int /\ an.values[l] = (y - u.offset) \div u.scale
  BY <1>1, <1>2, IdentityReads
<1>5. PICK c \in Nat \ {0} : c = u.scale
  BY <1>4
<1>6. PICK d \in Int : d = u.offset
  BY <1>4
<1>7. /\ x <= y => (x - d) \div c <= (y - d) \div c
      /\ y <= x => (y - d) \div c <= (x - d) \div c
  <2>1. x - d \in Int /\ y - d \in Int /\ (x <= y => x - d <= y - d) /\ (y <= x => y - d <= x - d)
    BY <1>3
  <2> QED
    BY <2>1, DivisionOrders
<1>8. PICK v : v = an.values[k]
  OBVIOUS
<1>9. PICK w : w = an.values[l]
  BY Zenon
<1>10. v \in Int /\ w \in Int /\ (x <= y => v <= w) /\ (y <= x => w <= v) /\ (v = w => x = y)
  BY <1>1, <1>2, <1>4, <1>5, <1>6, <1>7, <1>8, <1>9
<1>11. x < y <=> v < w
  BY <1>3, <1>10
<1>12. Less(in, an.cases[k], an.cases[l]) <=> x < y
  BY <1>1, <1>2 DEF Less, Inverted
<1> QED
  BY <1>4, <1>8, <1>9, <1>11, <1>12 DEF OrderKept

LEMMA ChangeReads ==
  ASSUME NEW in, UnitsTyped, WellTyped(in), Passed(in), NEW an, AnalysisHas(in, an),
         in.question.operator = "relative-change", Len(in.question.operands) = 1,
         in.question.reference # {},
         NEW k \in DOMAIN in.question.members, NEW l \in DOMAIN in.question.members,
         \A m \in DOMAIN in.question.members : ReadsAs(in, m),
         an.values[k] = an.values[l] => Observed(in, an.cases[k]) = Observed(in, an.cases[l])
  PROVE  OrderKept(in, an, k, l)
<1> DEFINE q == in.question
           a == Operand(q, in.rows, 1)
           b == Operand(q, in.rows, Len(q.operands))
           n == Reference(q)
           s == q.operands[1].unit
           O(m) == Observed(in, q.members[m].case)
<1>1. /\ an.values = [m \in DOMAIN q.members |-> Value(q, a, b, m)]
      /\ an.cases = [m \in DOMAIN q.members |-> q.members[m].case] /\ Evaluable(q, a, b)
  BY Zenon DEF AnalysisHas
<1>2. \A m \in DOMAIN q.members : /\ a[m] \in Int /\ O(m) \in Int /\ s \in DOMAIN UnitOf
                                  /\ O(m) = UnitOf[s].scale * a[m] + UnitOf[s].offset
  BY DEF ReadsAs
<1>3. PICK c \in Nat \ {0} : c = UnitOf[s].scale
  BY <1>2 DEF UnitsTyped
<1>4. PICK d \in Int : d = UnitOf[s].offset
  BY <1>2 DEF UnitsTyped
<1>5. n \in DOMAIN q.members /\ a[n] # 0
  <2> HIDE DEF a, b
  <2>1. PICK m \in DOMAIN q.members : \A j \in DOMAIN q.members : q.members[j].case \in q.reference <=> j = m
    BY <1>1 DEF Evaluable
  <2>2. n \in DOMAIN q.members
    BY <2>1 DEF Reference
  <2> QED
    BY <1>1, <2>2 DEF Evaluable
<1>6. \A m \in DOMAIN q.members : an.values[m] = RelativeChange(a[m], a[n]) /\ an.cases[m] = q.members[m].case
  <2> HIDE DEF a, b
  <2>1. \A m \in DOMAIN q.members : Value(q, a, b, m) = RelativeChange(a[m], a[n])
    BY DEF Value
  <2> QED
    BY <1>1, <2>1
<1> HIDE DEF a, b, n, s
<1>7. \A m \in DOMAIN q.members : O(m) = c * a[m] + d
  BY <1>2, <1>3, <1>4
<1>8. PICK r \in Int : r = a[n] /\ r # 0
  BY <1>2, <1>5
<1>9. PICK x \in Int : x = a[k] /\ O(k) = c * x + d
  BY <1>2, <1>7
<1>10. PICK y \in Int : y = a[l] /\ O(l) = c * y + d
  BY <1>2, <1>7
<1>11. an.values[k] = RelativeChange(x, r) /\ an.values[l] = RelativeChange(y, r)
  BY <1>6, <1>8, <1>9, <1>10
<1>12. RelativeChange(x, r) = RelativeChange(y, r) => x = y
  <2>1. RelativeChange(x, r) = RelativeChange(y, r) => O(k) = O(l)
    BY <1>6, <1>11
  <2>2. c * x + d = c * y + d <=> x = y
    BY ScaleOrders
  <2>3. O(k) = O(l) => x = y
    <3> HIDE DEF O
    <3> QED
      BY <1>9, <1>10, <2>2
  <2> QED
    BY <2>1, <2>3
<1>13. /\ RelativeChange(x, r) \in Int
       /\ r > 0 => (x < y <=> RelativeChange(x, r) < RelativeChange(y, r))
       /\ ~(r > 0) => (y < x <=> RelativeChange(x, r) < RelativeChange(y, r))
  BY <1>8, <1>12, ChangeOrders
<1>14. (O(k) < O(l) <=> x < y) /\ (O(l) < O(k) <=> y < x)
  BY <1>9, <1>10, ScaleOrders
<1>15. Inverted(in) <=> ~(r > 0)
  <2>1. ReferenceOf(in) = O(n) - d
    BY <1>4 DEF ReferenceOf, n, s
  <2>2. O(n) = c * r + d
    BY <1>5, <1>7, <1>8
  <2>3. PICK z : z = c * r
    OBVIOUS
  <2>4. z \in Int /\ (z < 0 <=> r < 0)
    BY <2>3
  <2>5. ReferenceOf(in) = z
    BY <2>1, <2>2, <2>3, <2>4
  <2>6. r < 0 <=> ~(r > 0)
    BY <1>8
  <2> QED
    BY <2>4, <2>5, <2>6 DEF Inverted
<1>16. Less(in, an.cases[k], an.cases[l]) <=> IF Inverted(in) THEN O(l) < O(k) ELSE O(k) < O(l)
  BY <1>6 DEF Less
<1> QED
  BY <1>11, <1>13, <1>14, <1>15, <1>16 DEF OrderKept

\* A figure is made of an analysis that passed everything.
LEMMA OrderStated ==
  ASSUME NEW in, UnitsTyped, WellTyped(in), Passed(in), Resolved(in),
         NEW an \in Analysis(in.question, in.rows),
         NEW k \in DOMAIN in.question.members, NEW l \in DOMAIN in.question.members
  PROVE  OrderKept(in, an, k, l)
<1> DEFINE q == in.question
<1>1. AnalysisHas(in, an)
  BY AnalysisMade
<1>2. q.members # << >>
  BY DEF Passed, Material, ProposalAccepted
<1>3. /\ q.operator \in {"identity", "relative-change"} /\ Len(q.operands) = 1
      /\ q.operator = "relative-change" <=> q.reference # {}
  BY <1>2, OneOperand
<1>4. \A m \in DOMAIN q.members : ReadsAs(in, m)
  BY <1>3, OperandReads
<1>5. an.values[k] = an.values[l] => Observed(in, an.cases[k]) = Observed(in, an.cases[l])
  <2>1. DOMAIN an.values = DOMAIN q.members
    BY <1>1 DEF AnalysisHas
  <2> QED
    BY <2>1 DEF Resolved, KeepsApart
<1>6. CASE q.operator = "identity"
  <2>1. q.reference = {}
    BY <1>3, <1>6
  <2> QED
    BY <1>1, <1>3, <1>4, <1>5, <1>6, <2>1, IdentityOrders
<1>7. CASE q.operator = "relative-change"
  BY <1>1, <1>3, <1>4, <1>5, <1>7, ChangeReads
<1> QED
  BY <1>3, <1>6, <1>7

\* Both ends are members, and what is printed is near what was asked for.
LEMMA SentenceSays ==
  ASSUME NEW in, UnitsTyped, WellTyped(in), Resolved(in), NEW c \in Candidates(in)
  PROVE  SaysTrue(in, Sentence(c))
<1> DEFINE q == in.question
           members == q.members
           n == Len(members)
<1>1. PICK an \in Analysis(q, in.rows) : /\ Material(in.records, in.rows, q)
                                         /\ c \in Candidate(in.records, in.rows, an)
  <2>1. Material(in.records, in.rows, q)
        /\ c \in UNION {Candidate(in.records, in.rows, an) : an \in Analysis(q, in.rows)}
    BY DEF Candidates
  <2> QED
    BY <2>1
<1>2. c.analysis = an /\ Distinct(an.cases)
  <2>1. BindingsComplete(an)
        /\ c \in {[analysis |-> an, ceiling |-> Ceiling(in.records, in.rows, an),
                   claim |-> Claim(an, Ceiling(in.records, in.rows, an))]}
    BY <1>1 DEF Candidate
  <2> QED
    BY <2>1 DEF BindingsComplete
<1>3. AnalysisHas(in, an)
  BY AnalysisMade
<1>4. /\ OperandsAccepted(q, in.rows) /\ TrendDefined(q) /\ an.trend = DiscreteTrend(an.values)
      /\ an.cases = [k \in DOMAIN members |-> members[k].case] /\ DOMAIN an.values = DOMAIN members
  BY <1>3 DEF AnalysisHas
<1>5. Passed(in)
  BY <1>1, <1>2, <1>4 DEF Passed
<1>6. n \in Nat /\ n >= 2 /\ DOMAIN members = 1..n
  <2>1. members \in Seq(Range(members))
    BY DEF WellTyped
  <2> QED
    BY <1>4, <2>1 DEF TrendDefined
<1>7. ASSUME NEW k \in 1..n, NEW l \in 1..n
      PROVE  an.values[k] \in Int /\ (Less(in, an.cases[k], an.cases[l]) <=> an.values[k] < an.values[l])
  BY <1>5, <1>6, OrderStated DEF OrderKept
<1> DEFINE y == an.values
           text == Sentence(c)
<1>8. y \in Seq(Int) /\ Len(y) = n /\ y # << >> /\ Len(an.cases) = n
  <2>1. /\ \E m \in Nat : DOMAIN y = 1..m
        /\ \A k \in DOMAIN y : y[k] \in Int
    BY <1>4, <1>6, <1>7
  <2>2. y = [k \in 1..n |-> y[k]]
    <3>1. y = [k \in DOMAIN members |-> Value(q, Operand(q, in.rows, 1), Operand(q, in.rows, Len(q.operands)), k)]
      BY <1>3, Zenon DEF AnalysisHas
    <3> QED
      BY <1>6, <3>1
  <2>3. y \in [1..n -> Int]
    BY <1>7, <2>2
  <2> HIDE DEF y
  <2> QED
    BY <1>4, <1>6, <2>3
<1>9. TrendSays(y, n)
  BY <1>8, TrendIs
<1>10. \A kind \in {"monotonic-increasing", "monotonic-decreasing", "interior-peak", "plateau"} :
          an.trend = kind => Trend(y) = kind
  BY <1>4 DEF DiscreteTrend
<1>11. /\ text.cases = an.cases /\ text.trend = an.trend
       /\ text.up = (y[n] > y[1]) /\ text.down = (y[n] < y[1])
       /\ text.values # << >> => text.values = [k \in DOMAIN y |-> Rounded(y[k], ParagraphLimit)]
  BY <1>2, <1>8, Zenon DEF Sentence
<1> HIDE DEF y, text, n
<1> DEFINE Lower(i, j) == Less(in, text.cases[i], text.cases[j])
<1>12. \A i, j \in 1..n : y[i] \in Int /\ (Lower(i, j) <=> y[i] < y[j])
  BY <1>7, <1>11 DEF y
<1> HIDE DEF Lower
<1>13. (text.up <=> Lower(1, n)) /\ (text.down <=> Lower(n, 1))
  <2>1. 1 \in 1..n /\ n \in 1..n
    BY <1>6
  <2>2. (Lower(1, n) <=> y[1] < y[n]) /\ (Lower(n, 1) <=> y[n] < y[1]) /\ y[1] \in Int /\ y[n] \in Int
    BY <1>12, <2>1
  <2>3. y[n] > y[1] <=> y[1] < y[n]
    BY <2>2
  <2> QED
    BY <1>11, <2>2, <2>3, Zenon
<1>14. text.trend = "monotonic-increasing" => \A i, j \in 1..n : i < j => ~Lower(j, i)
  <2>1. text.trend = "monotonic-increasing" => \A i, j \in 1..n : i < j => y[i] <= y[j]
    BY <1>9, <1>10, <1>11 DEF TrendSays
  <2> QED
    BY <1>12, <2>1
<1>15. text.trend = "monotonic-decreasing" => \A i, j \in 1..n : i < j => ~Lower(i, j)
  <2>1. text.trend = "monotonic-decreasing" => \A i, j \in 1..n : i < j => y[i] >= y[j]
    BY <1>9, <1>10, <1>11 DEF TrendSays
  <2> QED
    BY <1>12, <2>1
<1>16. text.trend = "interior-peak" => \E i \in 2..(n - 1) : Lower(1, i) /\ Lower(n, i)
  <2>1. text.trend = "interior-peak" => \E i \in 2..(n - 1) : y[1] < y[i] /\ y[n] < y[i]
    BY <1>9, <1>10, <1>11 DEF TrendSays
  <2>2. \A i \in 2..(n - 1) : i \in 1..n /\ 1 \in 1..n /\ n \in 1..n
    BY <1>6
  <2> QED
    BY <1>12, <2>1, <2>2
<1>17. text.trend = "plateau" => \A i, j \in (n - 2)..n : ~Lower(i, j)
  <2>1. text.trend = "plateau" => n >= 3 /\ \A i, j \in (n - 2)..n : y[i] = y[j]
    BY <1>9, <1>10, <1>11 DEF TrendSays
  <2>2. n >= 3 => \A i \in (n - 2)..n : i \in 1..n
    BY <1>6
  <2> QED
    BY <1>12, <2>1, <2>2
<1>18. ASSUME text.values # << >>, q.reference = {}, NEW i \in 1..n
       PROVE  LET v == Wanted(in, text.cases[i])
                  apart == IF v > text.values[i] THEN v - text.values[i] ELSE text.values[i] - v
              IN apart * 200 <= Size(v)
  <2>1. i \in DOMAIN y /\ i \in DOMAIN members
    BY <1>4, <1>6, <1>8 DEF y
  <2>2. members # << >>
    BY <1>5 DEF Passed, Material, ProposalAccepted
  <2>3. q.operator = "identity" /\ Len(q.operands) = 1
    BY <1>5, <1>18, <2>2, OneOperand
  <2>4. y[i] \in Int /\ y[i] = Wanted(in, an.cases[i])
    <3>1. ReadsAs(in, i)
      BY <1>5, <2>1, <2>3, OperandReads
    <3> QED
      BY <1>3, <1>5, <2>1, <2>3, <3>1, IdentityReads DEF y, Wanted
  <2>5. Size(y[i]) < 10000 * ParagraphLimit
    BY <2>1 DEF Resolved, KeepsApart, y
  <2>6. text.values[i] = Rounded(y[i], ParagraphLimit) /\ text.cases[i] = an.cases[i]
    BY <1>11, <1>18, <2>1
  <2>7. PICK v \in Int : v = y[i] /\ Size(v) < 10000 * ParagraphLimit
    BY <2>4, <2>5
  <2>8. LET w == Rounded(v, ParagraphLimit)
            apart == IF v > w THEN v - w ELSE w - v
        IN apart * 200 <= Size(v)
    BY <2>7, RoundedIsNear
  <2> QED
    BY <2>4, <2>6, <2>7, <2>8
<1>19. Len(text.cases) = n
  BY <1>8, <1>11
<1>20. SaysTrue(in, text)
  <2> USE DEF Lower
  <2>1. SaysTrue(in, text) <=>
          /\ text.up <=> Lower(1, n)
          /\ text.down <=> Lower(n, 1)
          /\ text.trend = "monotonic-increasing" => \A i, j \in 1..n : i < j => ~Lower(j, i)
          /\ text.trend = "monotonic-decreasing" => \A i, j \in 1..n : i < j => ~Lower(i, j)
          /\ text.trend = "interior-peak" => \E i \in 2..(n - 1) : Lower(1, i) /\ Lower(n, i)
          /\ text.trend = "plateau" => \A i, j \in (n - 2)..n : ~Lower(i, j)
          /\ text.values # << >> /\ q.reference = {} =>
               \A i \in 1..n : LET v == Wanted(in, text.cases[i])
                                 apart == IF v > text.values[i] THEN v - text.values[i]
                                          ELSE text.values[i] - v
                             IN apart * 200 <= Size(v)
    BY <1>19, Zenon DEF SaysTrue
  <2> HIDE DEF Lower
  <2> QED
    BY <1>13, <1>14, <1>15, <1>16, <1>17, <1>18, <2>1, Zenon
<1> QED
  BY <1>20 DEF text

\* The paragraph is the sentence of an input that gave a candidate.
Written(i) == Made[i] # {} /\ paragraph = [of |-> i, text |-> Sentence(Content(i))]
ParagraphMade ==
  /\ input \in DOMAIN Inputs
  /\ candidate # Absent => candidate \in DOMAIN Inputs /\ Made[candidate] # {}
  /\ paragraph # Absent => \E i \in DOMAIN Inputs : Written(i)

LEMMA ParagraphStep ==
  ASSUME ParagraphMade, FigureNext
  PROVE  ParagraphMade'
<1>1. CASE UNCHANGED <<input, candidate, paragraph>>
  BY <1>1 DEF ParagraphMade, Written
<1>2. ASSUME MarkStale, UNCHANGED input PROVE ParagraphMade'
  BY <1>2 DEF MarkStale, ParagraphMade, Written
<1>3. CASE Analyze
  <2>1. /\ UNCHANGED <<input, paragraph>>
        /\ \/ UNCHANGED candidate
           \/ candidate' = input /\ Made[input] # {}
    BY <1>3 DEF Analyze
  <2> QED
    BY <2>1 DEF ParagraphMade, Written
<1>4. CASE ApproveFigure
  BY <1>1, <1>2, <1>4 DEF ApproveFigure, Refuse
<1>5. CASE Write
  <2>1. UNCHANGED input
    BY <1>5 DEF Write
  <2>2. CASE MarkStale
    BY <1>2, <2>1, <2>2
  <2>3. CASE ~MarkStale
    <3>1. CandidateStands /\ UNCHANGED candidate
          /\ (UNCHANGED paragraph \/ paragraph' = [of |-> candidate, text |-> Sentence(Content(candidate))])
      BY <1>5, <2>3 DEF Write
    <3>2. candidate \in DOMAIN Inputs /\ Made[candidate] # {}
      BY <3>1, InputTypes DEF CandidateStands, ParagraphMade
    <3>3. CASE UNCHANGED paragraph
      BY <1>1, <2>1, <3>1, <3>3
    <3>4. CASE paragraph' = [of |-> candidate, text |-> Sentence(Content(candidate))]
      <4>1. Written(candidate)'
        BY <3>1, <3>2, <3>4 DEF Written
      <4> QED
        BY <2>1, <3>1, <3>2, <4>1 DEF ParagraphMade
    <3> QED
      BY <3>1, <3>3, <3>4
  <2> QED
    BY <2>2, <2>3
<1>6. CASE EditInput
  BY <1>6 DEF EditInput, ParagraphMade, Written
<1>7. CASE WriteSource \/ WriteScript \/ WriteCaption \/ DrawVector \/ DrawRaster \/ WriteQA
             \/ WriteRecord \/ Fail \/ Validate \/ Deliver
  BY <1>1, <1>7 DEF WriteSource, WriteScript, WriteCaption, DrawVector, DrawRaster, WriteQA,
                    WriteRecord, Fail, Validate, Deliver, Puts
<1>8. CASE \E torn \in BOOLEAN : Stop(torn)
  BY <1>1, <1>8 DEF Stop
<1>9. CASE (\E name \in {"source", "svg", "png"} : Retouch(name)) \/ EditScript \/ RemoveScript \/ Reexport
  BY <1>1, <1>9 DEF Retouch, EditScript, RemoveScript, Reexport, Touch
<1> QED
  BY <1>3, <1>4, <1>5, <1>6, <1>7, <1>8, <1>9 DEF FigureNext

(* The results paragraph of any inputs, whatever the author edits and      *)
(* however often renderings stop, says of the cases what the observation   *)
(* file says of them: the ends, the direction, the peak, the plateau and   *)
(* each number (run_write of results_paragraph.py).                        *)
THEOREM ParagraphsAreTrue == FigureSpec => []SentenceIsTrue
<1>1. FigureInit => ParagraphMade
  BY DEF FigureInit, ParagraphMade
<1>2. ParagraphMade /\ [FigureNext]_figureVars => ParagraphMade'
  <2>1. ASSUME ParagraphMade, UNCHANGED figureVars PROVE ParagraphMade'
    BY <2>1 DEF figureVars, ParagraphMade, Written
  <2> QED
    BY <2>1, ParagraphStep
<1>3. ParagraphMade => SentenceIsTrue
  <2> SUFFICES ASSUME ParagraphMade, paragraph # Absent
               PROVE  SaysTrue(Inputs[paragraph.of], paragraph.text)
    BY DEF SentenceIsTrue
  <2>1. PICK i \in DOMAIN Inputs : Written(i)
    BY DEF ParagraphMade
  <2>2. paragraph.of = i /\ paragraph.text = Sentence(Content(i))
    BY <2>1 DEF Written
  <2>3. Content(i) \in Candidates(Inputs[i])
    BY <2>1 DEF Written, Content, Made
  <2>4. UnitsTyped /\ WellTyped(Inputs[i]) /\ Resolved(Inputs[i])
    BY InputTypes, InputsResolved DEF UnitsTyped, WellTyped
  <2>5. SaysTrue(Inputs[i], Sentence(Content(i)))
    BY <2>3, <2>4, SentenceSays
  <2> QED
    BY <2>2, <2>5
<1> QED
  BY <1>1, <1>2, <1>3, PTL DEF FigureSpec
===============================================================================
