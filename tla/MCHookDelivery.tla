--------------------------- MODULE MCHookDelivery ---------------------------
(***************************************************************************)
(* HookDelivery with one line of each kind: without a colon, with no name, *)
(* two spellings of one name, another name whose value is not UTF-8, and a *)
(* name that is no token of HTTP.                                          *)
(***************************************************************************)
EXTENDS HookDelivery

Line(colon, name, value) == [colon |-> colon, name |-> name, value |-> value]

MCLines == { Line(FALSE, "name", "v"), Line(TRUE, "", "v"),
             Line(TRUE, "Name", "v"), Line(TRUE, "name", "w"),
             Line(TRUE, "other", "bytes"), Line(TRUE, "two words", "v") }

MCRawLevels == {-1, 3, 8}
=============================================================================
