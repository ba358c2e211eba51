----------------------------- MODULE ForwardLog -----------------------------
(***************************************************************************)
(* The log of who acknowledged which bundle, as every router keeps one: a  *)
(* map from bundles to entries, here the set of pairs.  An entry carries   *)
(* the lifetime of its bundle and expires with it.                         *)
(***************************************************************************)

HasEntry(log, g, p) == <<g, p>> \in log

(* The code keeps an entry twice that is added twice; no query tells.      *)
AddEntry(log, g, p) == log \cup {<<g, p>>}

RemoveEntriesFor(log, gone) == {e \in log : e[1] \notin gone}

RemoveExpiredEntries(log, expired) == {e \in log : e[1] \notin expired}
=============================================================================
