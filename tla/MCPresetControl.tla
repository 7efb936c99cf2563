--------------------------- MODULE MCPresetControl ---------------------------
(***************************************************************************)
(* Instance of PresetControl for TLC: materials of three sizes, one        *)
(* nearest to each preset, and four directories: two good presets with one *)
(* that opens a message box, with one that lacks entries, or with one      *)
(* whose loading raises an exception; and an empty one.                    *)
(***************************************************************************)
EXTENDS PresetControl

Size(w, h) == [width |-> w, height |-> h]
File(w, h, fills, load) == [width |-> w, height |-> h, fills |-> fills, load |-> load]
Good == <<File(100, 100, EditFields, "returns"), File(200, 100, EditFields, "returns")>>
MCPresetDirs == {Append(Good, File(300, 300, {}, "box")),
                 Append(Good, File(300, 300, {"focus", "light"}, "returns")),
                 Append(Good, File(300, 300, {"focus"}, "raises")),
                 <<>>}
MCMaterials == {Size(100, 110), Size(210, 100), Size(300, 290)}
=============================================================================
