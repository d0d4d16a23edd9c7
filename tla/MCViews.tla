------------------------------- MODULE MCViews -------------------------------
(* A small instance of Views for TLC: three units with tables.               *)
EXTENDS Views

CONSTANTS c1, c2, c3, STT, HoTen, Ten, HoatDong, DanhSach, an, x, y

MCLeaves == <<c1, c2, c3>>
\* Recognised, not recognised, and not numbered.
MCLayouts == {<<STT, HoTen, HoatDong>>, <<STT, Ten, HoatDong>>, <<Ten, HoatDong>>}
MCKeywords == {STT, HoTen}
\* An entry with its age, one with two activities, one of two columns, and a short one.
MCRecords == {<< <<1>>, <<an, 20>>, <<x>> >>, << <<2>>, <<an>>, <<y, x>> >>,
              << <<an>>, <<y>> >>, << <<an>> >>}
MCRank == an :> 1 @@ x :> 2 @@ y :> 3
=============================================================================
