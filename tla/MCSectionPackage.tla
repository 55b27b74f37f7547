--------------------------- MODULE MCSectionPackage ---------------------------
(* Small tables and one input per family of calculations.                  *)
EXTENDS SectionPackage

Table(columns, rows) ==   \* texts are strings, numbers are sets
  [i \in DOMAIN rows |-> [c \in ToSet(columns) |-> rows[i][CHOOSE k \in DOMAIN columns : columns[k] = c]]]
Base == [source |-> "a", other |-> "a", separate |-> FALSE, domain |-> "wall", support |-> {},
         kind |-> "ordinary", filters |-> << >>, groupBy |-> {}, unitColumn |-> {}, bounds |-> {},
         window |-> {}, saved |-> "instantaneous", crossing |-> "at-or-above", threshold |-> {},
         relation |-> "above", pair |-> {}, origin |-> {}, fraction |-> {}, complement |-> FALSE,
         measure |-> {}, association |-> "face", integrand |-> "weighted_mean", orientation |-> 1,
         region |-> << >>, oldRegion |-> << >>, assignment |-> "centroid", complete |-> FALSE,
         steady |-> FALSE, mode |-> "fixed", sameSurface |-> TRUE]
Absolute == [kind |-> "absolute-temperature"]
Calc(op, columns, units, rest) == rest @@ [op |-> op, columns |-> columns, units |-> units] @@ Base
Ref(id, group, field) == [ref |-> [id |-> id, group |-> group, field |-> field, record |-> {}, places |-> 1,
                                   percentage |-> FALSE]]
Share(id, group, field, record, percentage) ==
  [ref |-> [id |-> id, group |-> group, field |-> field, record |-> {record}, places |-> 1, percentage |-> percentage]]
Part(r) == [ref |-> [r.ref EXCEPT !.percentage = TRUE]]
Compare(old, new, rest) ==
  rest @@ [reference |-> old, comparison |-> new, domain |-> "wall", definition |-> "a", status |-> "supported",
           origin |-> {}, purpose |-> {}, fixed |-> {}]
Scalar(id, group, field) == [id |-> id, group |-> group, field |-> field]
Input(files, tables, comparisons, evidence) ==
  [files |-> files, tables |-> tables, comparisons |-> comparisons, evidence |-> evidence, duties |-> {}]
None == << >>

\* Means and partitions of walls, by case.
Walls == Input(<<"a">>,
  [mean |-> Calc("population", [value |-> "T"], [value |-> "degC"], [groupBy |-> {"case"}, unitColumn |-> {"unit"}]),
   flux |-> Calc("partition", [area |-> "A", rate |-> "q"], [area |-> "m2", rate |-> "W"], [groupBy |-> {"case"}]),
   spread |-> Calc("weighted_population", [value |-> "T", weight |-> "A"], [value |-> "degC", weight |-> "m2"],
                   Absolute @@ [measure |-> {"area"}, fraction |-> {"part"}, filters |-> [case |-> "low"]]),
   rest |-> Calc("weighted_population", [value |-> "T", weight |-> "A"], [value |-> "degC", weight |-> "m2"],
                 Absolute @@ [measure |-> {"area"}, fraction |-> {"part"}, complement |-> TRUE])],
  [far |-> Compare(Scalar("spread", "all", "weighted_mean"), Scalar("rest", "all", "weighted_mean"), [origin |-> {10}])],
  [low |-> Ref("mean", "low", "mean"), cv |-> Part(Ref("mean", "low", "cv")),
   share |-> Share("flux", "low", "shares", 1, TRUE), local |-> Share("flux", "low", "regional_flux", 2, FALSE),
   std |-> Ref("spread", "all", "weighted_std"), ratio |-> Ref("far", "all", "ratio")])
WallRows(q, t) ==
  Table(<<"case", "unit", "T", "A", "q", "part">>,
        <<<<"low", "degC", {20}, {1}, {4}, {2}>>, <<"low", "degC", {30}, {1}, {q}, {1}>>,
          <<"high", "degC", t, {2}, {6}, {0}>>>>)
\* Samples of a transient.
Probe == Input(<<"a">>,
  [one |-> Calc("temporal", [time |-> "t", value |-> "T1"], [time |-> "s", value |-> "degC"],
                Absolute @@ [threshold |-> {25}, window |-> {<<0, 4>>}]),
   two |-> Calc("temporal", [time |-> "t", value |-> "T2"], [time |-> "s", value |-> "degC"],
                Absolute @@ [threshold |-> {25}, window |-> {<<0, 4>>}]),
   gap |-> Calc("temporal_difference", [time |-> "t", reference |-> "T1", comparison |-> "T2"],
                [time |-> "s", reference |-> "degC", comparison |-> "degC"], Absolute @@ [threshold |-> {3}]),
   stored |-> Calc("temporal", [time |-> "t", value |-> "E"], [time |-> "s", value |-> "W"], [saved |-> "cumulative"])],
  [lag |-> Compare(Scalar("one", "all", "first_crossing_time"), Scalar("two", "all", "first_crossing_time"), None),
   rise |-> Compare(Scalar("one", "all", "change"), Scalar("two", "all", "change"), None)],
  [mean |-> Ref("one", "all", "time_mean"), sum |-> Ref("gap", "all", "integral"), first |-> Ref("gap", "all", "first_crossing_time"),
   work |-> Ref("stored", "all", "integral"), later |-> Ref("lag", "all", "difference"), more |-> Part(Ref("rise", "all", "relative_change"))])
ProbeRows(t) ==
  Table(<<"t", "T1", "T2", "E">>,
        <<<<{0}, {20}, {20}, {0}>>, <<{1}, {24}, {26}, {2}>>, <<{4}, {t}, {30}, {3}>>, <<{6}, {25}, {31}, {5}>>>>)
\* Two cases, read off with bounds.
Bounds == [value |-> "T", reference |-> "ref", half_width |-> "hw"]
Pairs == Input(<<"a">>,
  [change |-> Calc("paired_change", [value |-> "T"], [value |-> "degC"],
                   Absolute @@ [pair |-> {[by |-> "case", reference |-> "old", comparison |-> "new"]}, origin |-> {10}]),
   shift |-> Calc("paired_reference_change", Bounds, [r \in DOMAIN Bounds |-> "degC"],
                  Absolute @@ [bounds |-> {"declared-bound"},
                               pair |-> {[by |-> "case", reference |-> "old", comparison |-> "new"]}]),
   range |-> Calc("reference_range", Bounds, [r \in DOMAIN Bounds |-> "degC"],
                  Absolute @@ [bounds |-> {"reported-range"}, filters |-> [case |-> "new"]]),
   gap |-> Calc("scalar_select", [value |-> "dT"], [value |-> "K"],
                [kind |-> "temperature-difference", filters |-> [case |-> "new"]])],
  [same |-> Compare(Scalar("change", "all", "difference"), Scalar("gap", "all", "value"), None)],
  [rise |-> Ref("change", "all", "relative_change"), ratio |-> Ref("change", "all", "ratio"),
   off |-> Ref("shift", "all", "outside_distance"), out |-> Ref("range", "all", "outside_distance"),
   top |-> Ref("range", "all", "reference_upper"), times |-> Ref("same", "all", "ratio")])
PairRows(hw) ==
  Table(<<"case", "T", "ref", "hw", "dT">>,
        <<<<"old", {20}, {21}, {1}, {1}>>, <<"new", {30}, {26}, hw, {5}>>, <<"other", {90}, {26}, {1}, {0}>>>>)
\* Fields on a mesh: integrals over boxes, differences of the same elements.
Box(id, low, high) == [id |-> id, column |-> {}, box |-> [x |-> <<low, high>>], complement |-> FALSE]
Mesh == [value |-> "T", measure |-> "A", x |-> "x", y |-> "y", z |-> "z"]
MeshUnits == [value |-> "degC", measure |-> "m2", x |-> "m", y |-> "m", z |-> "m"]
Field == Input(<<"a", "b">>,
  [heat |-> Calc("field_integral", Mesh, MeshUnits,
                 Absolute @@ [region |-> <<Box("left", 0, 2), Box("right", 2, 4)>>, complete |-> TRUE]),
   turned |-> Calc("field_integral", [positive |-> "in", negative |-> "out"], [positive |-> "W", negative |-> "W"],
                   [integrand |-> "signed_totals", orientation |-> -1]),
   moved |-> Calc("field_difference", Mesh, MeshUnits,
                  Absolute @@ [other |-> "b", separate |-> TRUE, region |-> <<Box("left", 0, 2)>>])],
  None,
  [mean |-> Ref("heat", "left", "weighted_mean"), loss |-> Ref("turned", "all", "positive"),
   warmer |-> Ref("moved", "left", "difference_mean"), was |-> Ref("moved", "all", "reference_mean")])
FieldRows(t, x) ==
  Table(<<"T", "A", "x", "y", "z", "in", "out">>,
        <<<<{20}, {1}, {0}, {0}, {0}, {3}, {0}>>, <<{t}, {3}, {x}, {0}, {0}, {2}, {-4}>>, <<{26}, {2}, {3}, {0}, {0}, {0}, {-1}>>>>)
\* Where the change of a mean temperature comes from; an energy balance.
Region(id, column) == [id |-> id, column |-> {column}, box |-> << >>, complement |-> FALSE]
Regions == <<Region("hot", "h"), Region("cold", "c")>>
Change == Input(<<"a", "b", "c">>,
  [parts |-> Calc("partition_change", [value |-> "T", measure |-> "A"], [value |-> "degC", measure |-> "m2"],
                  Absolute @@ [other |-> "b", region |-> Regions, oldRegion |-> Regions,
                               assignment |-> "polygon-clip", complete |-> TRUE]),
   balance |-> Calc("energy_budget", [input |-> "in", output |-> "out", source |-> "q"],
                    [input |-> "W", output |-> "W", source |-> "W"], [source |-> "c", other |-> "c", steady |-> TRUE]),
   wall |-> Calc("field_integral", [value |-> "e"], [value |-> "W"], [source |-> "c", other |-> "c", integrand |-> "element_total"])],
  None,
  [part |-> Ref("parts", "hot", "contribution"), all |-> Ref("parts", "all", "difference_mean"),
   old |-> Ref("parts", "cold", "reference_mean"), left |-> Ref("balance", "all", "residual"), up |-> Ref("wall", "all", "absolute")])
ChangeRows(t) ==
  Table(<<"T", "A", "h", "c">>, <<<<{20}, {1}, {2}, {0}>>, <<{t}, {2}, {1}, {1}>>, <<{26}, {1}, {0}, {2}>>>>)
BalanceRows == Table(<<"in", "out", "q", "e">>, <<<<{5}, {1}, {2}, {3}>>, <<{1}, {3}, {-1}, {-2}>>>>)
\* Areas above a threshold, and a heat flux through oriented faces.
Above == Input(<<"a", "s">>,
  [hot |-> Calc("weighted_exceedance", [value |-> "T", weight |-> "A"], [value |-> "degC", weight |-> "m2"],
                Absolute @@ [measure |-> {"area"}, threshold |-> {25}, groupBy |-> {"case"}, relation |-> "at-or-above"]),
   through |-> Calc("field_integral", [qx |-> "q", qy |-> "o", qz |-> "o2", ax |-> "A", ay |-> "o3", az |-> "o4"],
                    [qx |-> "W/m2", qy |-> "W/m2", qz |-> "W/m2", ax |-> "m2", ay |-> "m2", az |-> "m2"],
                    [integrand |-> "vector_flux"])],
  None,
  [part |-> Part(Ref("hot", "low", "exceedance_fraction")), area |-> Ref("hot", "low", "measure_above"),
   out |-> Ref("through", "all", "negative"), mean |-> Ref("through", "all", "weighted_mean"),
   speed |-> [json |-> [source |-> "s", pointer |-> "/speed", unit |-> "m/s", unitAt |-> {"/unit"}, places |-> 1]],
   typed |-> [text |-> [value |-> 7, unit |-> "m", raw |-> <<7, 1>>, cites |-> {}]]])
AboveRows(t) ==
  Table(<<"case", "T", "A", "q", "o", "o2", "o3", "o4">>,
        <<<<"low", {20}, {1}, {2}, {0}, {0}, {0}, {0}>>, <<"low", {t}, {2}, {-3}, {0}, {0}, {0}, {0}>>,
          <<"high", {24}, {1}, {5}, {0}, {0}, {0}, {0}>>>>)
Setting(n, unit) == <<("/speed" :> n) @@ ("/unit" :> unit)>>
\* What was observed, and the comparisons its support allows.
Seen(place, at) == {[case |-> {"c1"}, association |-> {"face"}, place |-> {place}, operator |-> {"mean"},
  conditions |-> [flow |-> {<<2, "m/s">>}], kind |-> {"own-event"}, event |-> {"peak"}, origin |-> {"start"},
  offset |-> {1}, at |-> at, window |-> {}]}
Supported(purpose, place, at) == [Input(<<"a">>,
  [low |-> Calc("scalar_select", [value |-> "p"], [value |-> "Pa"], [filters |-> [case |-> "old"], support |-> Seen("inlet", {3})]),
   high |-> Calc("scalar_select", [value |-> "p"], [value |-> "Pa"], [filters |-> [case |-> "new"], support |-> Seen(place, at)])],
  [drop |-> Compare(Scalar("low", "all", "value"), Scalar("high", "all", "value"),
                    [purpose |-> purpose, fixed |-> {"flow"}])],
  [less |-> Part(Ref("drop", "all", "relative_reduction"))]) EXCEPT !.duties = {"less"}]
SupportRows(p) == Table(<<"case", "p">>, <<<<"old", {8}>>, <<"new", {p}>>>>)
\* SectionInputs the program refuses: at once, for a missing file, and for a
\* comparison that would depend on the origin of the temperature.
Unknown == [Supported({}, "inlet", {3}) EXCEPT !.comparisons.drop.status = "unknown"]
Missing == [Pairs EXCEPT !.files = <<"a", "b">>]
Summed == [Probe EXCEPT !.comparisons = [sums |-> Compare(Scalar("one", "all", "integral"), Scalar("two", "all", "integral"), None)],
                        !.evidence = [sums |-> Ref("sums", "all", "relative_change")]]

MCInputs == [walls |-> Walls, probe |-> Probe, pairs |-> Pairs, field |-> Field, change |-> Change,
             above |-> Above, support |-> Supported({}, "inlet", {3}),
             event |-> Supported({"event-relative"}, "inlet", {5}), elsewhere |-> Supported({}, "outlet", {3}),
             later |-> Supported({}, "inlet", {5}), unknown |-> Unknown, missing |-> Missing, summed |-> Summed]
MCVersions ==
  [walls |-> {[a |-> WallRows(-2, {26})], [a |-> WallRows(-4, {})]},
   probe |-> {[a |-> ProbeRows(28)], [a |-> ProbeRows(22)]},
   pairs |-> {[a |-> PairRows({2})], [a |-> PairRows({-1})]},
   field |-> {[a |-> FieldRows(24, 1), b |-> FieldRows(22, 1)], [a |-> FieldRows(25, 1), b |-> FieldRows(22, 2)],
              [a |-> FieldRows(24, 5), b |-> FieldRows(22, 5)]},
   change |-> {[a |-> ChangeRows(23), b |-> ChangeRows(21), c |-> BalanceRows],
               [a |-> ChangeRows(25), b |-> ChangeRows(21), c |-> BalanceRows]},
   above |-> {[a |-> AboveRows(25), s |-> Setting({3}, "m/s")], [a |-> AboveRows(24), s |-> Setting({4}, "m/s")],
              [a |-> AboveRows(25), s |-> Setting({3}, "km/h")]},
   support |-> {[a |-> SupportRows(6)], [a |-> SupportRows(4)]},
   event |-> {[a |-> SupportRows(6)]}, elsewhere |-> {[a |-> SupportRows(6)]}, later |-> {[a |-> SupportRows(6)]},
   unknown |-> {[a |-> SupportRows(6)]}, missing |-> {[a |-> PairRows({2})]}, summed |-> {[a |-> ProbeRows(28)]}]
\* Sums of temperatures whose kind was not declared, compared (TableOrigin.cfg).
Kindless == Input(<<"a", "b">>,
  [heat |-> Calc("field_integral", Mesh, MeshUnits, [region |-> <<Box("left", 0, 2), Box("right", 2, 4)>>])],
  [more |-> Compare(Scalar("heat", "left", "net"), Scalar("heat", "right", "net"), None)],
  [more |-> Ref("more", "all", "relative_change")])
MCKindless == [kindless |-> Kindless]
MCKindlessVersions == [kindless |-> {[a |-> FieldRows(24, 1), b |-> FieldRows(22, 1)]}]
===============================================================================
