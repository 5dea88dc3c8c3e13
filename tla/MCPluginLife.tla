---------------------------- MODULE MCPluginLife ----------------------------
(***************************************************************************)
(* PluginLife with the functions the plugin calls for the table of         *)
(* simLib.cpp, and any one or two of them missing from the library.        *)
(***************************************************************************)
EXTENDS PluginLife

MCCurrent ==
  (CalledByStart \cup CalledByMessage \cup CalledByScript \cup {"simAddLog"})
    \ {"simAddStatusbarMessage"}

MCDeprecated == {"simAddStatusbarMessage"}

MCLibraries == {Functions \ {f, g} : f, g \in Functions} \cup {Functions}
=============================================================================
