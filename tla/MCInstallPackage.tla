--------------------------- MODULE MCInstallPackage ---------------------------
(***************************************************************************)
(* Small instances of InstallPackage for TLC: outputs of one to four       *)
(* items, with every kind of item before and after another.                *)
(***************************************************************************)
EXTENDS InstallPackage

AllKinds == {<<"plain">>,
             <<"plain", "shell", "blanks", "LANGUAGE">>,
             <<"plain", "newline", "plain">>,
             <<"plain", "assign", "newline", "newline">>,
             <<"text", "plain">>,
             <<"equals", "plain", "text">>}
=============================================================================
