----------------------------- MODULE MCTerminal -----------------------------
(* Small instances of Terminal: "a" and "b" are ASCII, "H" a narrow character
   that a mark may widen, "W" a wide one. *)
EXTENDS Terminal

MCTexts == {<<"a">>, <<"W">>, <<"H">>, <<"a", "b", "a", "b">>, <<"a", "b", "W">>}
MCModeLists ==
  {[set |-> on, modes |-> list] : on \in BOOLEAN,
      list \in {<<47>>, <<1047>>, <<1048>>, <<1049>>, <<47, 1049>>, <<69>>, <<6>>, <<7>>}}
Size(r, c) == [rows |-> r, cols |-> c]
MCFirstSize == Size(2, 3)
MCSizes == {Size(2, 3), Size(1, 3), Size(3, 2), Size(2, 4), Size(2, 1)}
=============================================================================
