------------------------ MODULE MCModConsolidation --------------------------
(***************************************************************************)
(* A small mods folder: two assets, one of them under two spellings and an *)
(* alias, a file of a disabled type, one without a type, and config files  *)
(* with each kind of setting.                                              *)
(***************************************************************************)
EXTENDS ModConsolidation

MCPaths ==
  {"rs_streamfile/a", "rs_streamfile@A", "rs_streamfile/b", "nick", "image/a",
   "eternalmod.txt", "darkagesmod.txt"}

MCTypeString ==
  [p \in MCPaths |->
     CASE p \in {"rs_streamfile/a", "rs_streamfile@A", "rs_streamfile/b"} -> "rs_streamfile"
       [] p = "image/a" -> "image"
       [] OTHER -> "none"]

MCAssetPath == [p \in MCPaths |-> IF p = "rs_streamfile/b" THEN "b" ELSE "a"]

Plain == [p \in MCPaths |-> p]
Aliased == [Plain EXCEPT !["nick"] = "rs_streamfile/a"]

Cfg(v, p, alias) == [requiredVersion |-> v, loadPriority |-> p, alias |-> alias]

Entry(p) == [path |-> p, intact |-> TRUE]
Broken(p) == [path |-> p, intact |-> FALSE]

Contents ==
  {<<Entry("rs_streamfile/a")>>,
   <<Entry("rs_streamfile/b"), Entry("rs_streamfile@A")>>,
   <<Entry("nick"), Entry("rs_streamfile/a")>>,
   <<Broken("rs_streamfile/a"), Entry("image/a"), Entry("rs_streamfile/b")>>}

MCConfigs == {Cfg(1, 1, Plain), Cfg(1, -1, Aliased), Cfg(2, -1, Plain)}

Zip(c, fs) == [opens |-> TRUE, config |-> c, files |-> fs]

(* Mods with a config file of the name the code looks for, with a broken   *)
(* one, and with none.                                                     *)
MCMods ==
  {Zip(c, <<Entry("eternalmod.txt")>> \o fs) : c \in MCConfigs, fs \in Contents}
  \cup {Zip(Cfg(1, -1, Aliased), fs \o <<Broken("eternalmod.txt")>>) : fs \in Contents}
  \cup {Zip(Cfg(1, 0, Plain), fs) : fs \in Contents}
  \cup {[Zip(Cfg(1, 0, Plain), <<>>) EXCEPT !.opens = b] : b \in BOOLEAN}
=============================================================================
