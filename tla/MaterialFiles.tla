--------------------------- MODULE MaterialFiles ----------------------------
(***************************************************************************)
(* The files between the programs: in each behaviour either a binary file  *)
(* or the text files of the material.                                      *)
(***************************************************************************)
EXTENDS RuntimeFile, MaterialText

(* No binary file.                                                         *)
NoFile ==
  /\ format = "SHAPE" /\ reader = "SHAPE"
  /\ order \in ArgumentOrders
  /\ written = <<>> /\ file = <<>> /\ loaded = <<>> /\ pos = 1
  /\ stage = "none"

NoText ==
  /\ material = CHOOSE m \in Materials : TRUE
  /\ full_text = <<>> /\ runtime_text = <<>> /\ stray_text = <<>>
  /\ prepared = "not run" /\ text_loaded = "no" /\ audited = "no"
  /\ runtime_material = <<>>

FilesInit ==
  \/ Init /\ NoText
  \/ NoFile /\ TextInit

FilesNext ==
  \/ Next /\ UNCHANGED textVars
  \/ TextNext /\ UNCHANGED fileVars

FilesSpec == FilesInit /\ [][FilesNext]_<<fileVars, textVars>>
=============================================================================
