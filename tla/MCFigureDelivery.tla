--------------------------- MODULE MCFigureDelivery ---------------------------
(* Pressures at three velocities, one file for each thing that can differ. *)
EXTENDS FigureDelivery

MCUnitOf == [u \in {"Pa", "kPa", "m/s", "K", "degC", "1"} |->
  CASE u = "Pa" -> [dimension |-> "pressure", scale |-> 1, offset |-> 0]
    [] u = "kPa" -> [dimension |-> "pressure", scale |-> 1000, offset |-> 0]
    [] u = "m/s" -> [dimension |-> "velocity", scale |-> 1, offset |-> 0]
    [] u = "K" -> [dimension |-> "temperature", scale |-> 1, offset |-> 0]
    [] u = "degC" -> [dimension |-> "temperature", scale |-> 1, offset |-> 273]
    [] OTHER -> [dimension |-> "none", scale |-> 1, offset |-> 0]]
MCUnitNumerals == [u \in DOMAIN MCUnitOf |-> IF u = "1" THEN {1} ELSE {}]

Location(case, role) == [case |-> case, source |-> "file", role |-> role, basis |-> TRUE]
Limit(observed, consequence) ==
  [case |-> "a", source |-> "file", observed |-> observed, operator |-> "<=", threshold |-> 2,
   consequence |-> consequence]
Records(role, validation, closure) ==
  [cases |-> [case : {"a", "b", "c", "long"}, source : {"file"}], sources |-> {"file"},
   boundaries |-> {Location("a", "intended-study-factor"), Location("b", role)},
   models |-> {[Location("a", "demonstrated-equivalent-or-immaterial") EXCEPT !.basis = TRUE]
                 @@ [verification |-> "demonstrated", validation |-> validation]},
   convergence |-> {Limit(1, "restricting")}, conservation |-> {Limit(closure, "restricting")}]
Sound == Records("demonstrated-equivalent-or-immaterial", "demonstrated", 1)
Weak == Records("unresolved-nuisance", "partial", 3)
Barred == Records("blocking", "demonstrated", 1)

Row(case, at, variable, value, unit) ==
  [case |-> case, coordinate |-> "velocity", at |-> at, atUnit |-> "m/s", variable |-> variable,
   role |-> "raw", scope |-> "wall", value |-> value, unit |-> unit, aggregate |-> FALSE,
   locator |-> <<case, variable>>]
Member(case, at) ==
  [case |-> case, coordinate |-> "velocity", at |-> at, atUnit |-> "m/s", variable |-> "p",
   unit |-> "Pa", scope |-> "wall"]
Selector(variable) == [variable |-> variable, role |-> "raw", scope |-> "wall", unit |-> "Pa"]
Plain == [operator |-> "identity", operands |-> <<Selector("p")>>, unit |-> "Pa",
          members |-> <<Member("a", 1), Member("b", 2), Member("c", 3)>>,
          reference |-> {}, words |-> {}, quantitative |-> TRUE]
AnsweredLimit ==
  [observed |-> 1, operator |-> "<", threshold |-> 2, consequence |-> "restricting"]
Answers == [case |-> "a", source |-> "file", boundary |-> "intended-study-factor",
            model |-> "demonstrated-equivalent-or-immaterial", verification |-> "demonstrated",
            validation |-> "partial", convergence |-> AnsweredLimit, conservation |-> AnsweredLimit]
In(records, rows, question) == [records |-> records, rows |-> rows, question |-> question]

\* Rows out of order, one in another unit: 400, 1000, 2117 Pa.
Rising == <<Row("c", 3, "p", 2117, "Pa"), Row("a", 1, "p", 400, "Pa"), Row("b", 2, "p", 1, "kPa")>>
Peaking == <<Row("b", 2, "p", 3, "kPa"), Row("c", 3, "p", 500, "Pa"), Row("a", 1, "p", 400, "Pa")>>
\* Two rows from one cell of the author's table; a value of seven digits.
Shared == [Rising EXCEPT ![1].locator = Rising[2].locator]
Large == [Rising EXCEPT ![1].value = 1234567]
Pair == <<Row("b", 2, "p", 1, "kPa"), Row("a", 1, "p", 3, "kPa")>>
Change == [Plain EXCEPT !.operator = "relative-change", !.unit = "1", !.reference = {"c"},
                        !.quantitative = FALSE]
Share == [Change EXCEPT !.quantitative = TRUE]
\* -10, -5 and 10 degrees, relative to the first: the signs turn round.
Cold == <<Row("c", 3, "T", 10, "degC"), Row("a", 1, "T", 263, "K"), Row("b", 2, "T", -5, "degC")>>
Warming == [Change EXCEPT !.reference = {"a"}, !.operands = <<[Selector("T") EXCEPT !.unit = "degC"]>>,
                          !.members = [k \in 1..3 |-> [Plain.members[k] EXCEPT !.variable = "T", !.unit = "K"]]]
Two == [Plain EXCEPT !.members = <<Member("a", 1), Member("b", 2)>>]
MCInputs == [i \in {"rising", "peaking", "change", "pair", "wrong", "process", "clipped", "missing",
                   "barred", "asked", "bare", "cold", "shared", "large",
                   "share"} |->
  CASE i = "rising" -> In(Sound, Rising, Plain)
    [] i = "peaking" -> In(Weak, Peaking, Plain)
    [] i = "change" -> In(Sound, Rising, Change)
    [] i = "cold" -> In(Sound, Cold, Warming)
    [] i = "shared" -> In(Sound, Shared, Plain)
    [] i = "large" -> In(Sound, Large, Plain)
    [] i = "share" -> In(Sound, Rising, Share)
    [] i = "pair" -> In(Sound, Pair, Two)
    [] i = "wrong" -> In(Sound, Rising, [Plain EXCEPT !.words = {"down"}])
    [] i = "process" -> In(Sound, Rising, [Plain EXCEPT !.words = {"process"}])
    [] i = "clipped" -> In(Sound, <<Row("long", 2, "p", 1, "kPa"), Row("a", 1, "p", 3, "kPa")>>,
                           [Plain EXCEPT !.members = <<Member("a", 1), Member("long", 2)>>])
    [] i = "missing" -> In(Sound, Pair, Plain)
    [] i = "barred" -> In(Barred, Rising, Plain)
    [] i = "asked" -> In(Guided(Answers), Rising, Plain)
    [] i = "bare" -> In(Sound, [Rising EXCEPT ![1].role = "declared-aggregate"], Plain)]

(* Complete inputs that are refused: a pressure difference between wall    *)
(* and far field, as the design has it; a value of seven digits; numbers   *)
(* next to the unit "1"; two rows from one cell.                           *)
MCRefused == [i \in {"difference", "large", "share", "shared"} |->
  CASE i = "difference" ->
         In(Sound, Pair \o <<Row("a", 1, "q", 100, "Pa"), Row("b", 2, "q", 100, "Pa")>>,
            [Two EXCEPT !.operator = "difference", !.operands = <<Selector("p"), Selector("q")>>])
    [] i = "large" -> In(Sound, Large, Plain)
    [] i = "share" -> In(Sound, Rising, Share)
    [] i = "shared" -> In(Sound, Shared, Plain)]
===============================================================================
