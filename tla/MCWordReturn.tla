---------------------------- MODULE MCWordReturn ----------------------------
(* Two sections.  The first has a paragraph with a bound value, a table     *)
(* and the figure with its caption; the second has an ordinary paragraph that  *)
(* may cite the figure; one reference closes the document.                  *)
EXTENDS WordReturn

MCOrder == <<<<"A", "heading", "h">>, <<"A", "paragraph", "value">>,
             <<"A", "table", "t">>,
             <<"A", "figure", "f">>, <<"A", "caption", "f">>,
             <<"B", "heading", "h">>, <<"B", "paragraph", "plain">>,
             <<"refs", "reference", "r">>>>
MCBound == {<<"A", "paragraph", "value">>}
MCAdded == {<<"A", "paragraph", "added">>}
MCAuthorText == {<<0, 1, "author">>}
MCCurrentText == {<<0, 2, "current">>, <<2, 2, "current">>}
MCSpots == {3}
=============================================================================
